--------------------------- MODULE Display_proofs ---------------------------
(***************************************************************************)
(* What the applications with a display show.                              *)
(*                                                                         *)
(* The clock: a transfer on the two-wire bus reads one instant of the      *)
(* DS1307 and writes what was edited, whichever bytes go unacknowledged,   *)
(* and no value leaves its range.                                          *)
(*                                                                         *)
(* The LED cube: the calls of its main program, for any number of rounds,  *)
(* unset all they set before each pause (figure by figure, the rounds by   *)
(* their common length); the interrupt routine then shows what is set      *)
(* within four layers.  The wave generator and the menu: the place of the  *)
(* walk in the period of the sine; a screen drawn twice is the screen.     *)
(***************************************************************************)
EXTENDS Board, TLAPS

\* A step of the board with the clock burnt in is one of the clock, or changes nothing of it.
LEMMA ClockOrStutter ==
    ASSUME [Next]_vars
    PROVE  /\ app' = app
           /\ app = "clock" => [C!Next]_(C!vars)
<1>1. CASE Next
  BY <1>1 DEF Next, Demo, Clock, Remote, Radio, Pager, Console, Flash, Cube, Wave, Menu
<1>2. CASE UNCHANGED vars
  BY <1>2 DEF vars, classic, clockVars, C!vars, C!clockVars, C!busVars
<1>3. QED
  BY <1>1, <1>2

-----------------------------------------------------------------------------

(* The clock. *)

Regs == 0 .. 6

\* Every register holds a value of its field.
InRange(reg) == \A f \in C!Fields : C!Decoded(reg)[f] \in C!First[f] .. C!Last[f]

TimeForm == t = [f \in C!Fields |-> t[f]]
TimeInRange == \A f \in C!Fields : t[f] \in C!First[f] .. C!Last[f]

SetBytes == <<0>> \o [i \in 1 .. 7 |-> C!Encoded(t)[i - 1]]

\* The call that is under way at pc.
Calling ==
    /\ pc = "sq_wave" => xfer.tx = <<7, 16>> /\ xfer.rx = 0
    /\ pc \in {"first", "get"} => xfer.tx = <<0>> /\ xfer.rx = 7
    /\ pc = "set" => xfer.tx = SetBytes /\ xfer.rx = 0
    /\ pc \in {"sq_wave", "first", "get", "set"}

ClockType ==
    /\ DOMAIN chip = 0 .. 7
    /\ latch = [r \in Regs |-> latch[r]] /\ rtc_reg = [r \in Regs |-> rtc_reg[r]]
    /\ TimeForm
    /\ DOMAIN xfer = {"tx", "rx", "at", "i"} /\ DOMAIN slave = {"dir", "ptr"}
    /\ DOMAIN lcd = {"time", "msg"}
    /\ xfer.at \in {"idle", "start", "sla_w", "tx", "restart", "sla_r", "rx"}
    /\ pc \in {"boot", "sq_wave", "first", "dead", "loop", "get", "edit", "download", "set"}

ModePart ==
    /\ cur_mode \in {"display", "setting"}
    /\ cur_set_mode \in 0 .. 6 \/ pc = "set"
    /\ (cur_mode = "display" \/ pc \in {"boot", "sq_wave", "first"}) => cur_set_mode = 0
    /\ pc = "edit" => cur_mode = "setting"
    /\ pc = "get" => cur_mode = "display"

\* Where the transfer is.
BusPart ==
    /\ xfer.at # "idle" => Calling
    /\ xfer.at \in {"idle", "start", "sla_w"} => slave.dir = "none"
    /\ xfer.at \in {"start", "sla_w"} => xfer.i = 0
    /\ xfer.at = "tx" =>
           /\ xfer.i \in 0 .. Len(xfer.tx)
           /\ xfer.i = 0 => slave.dir = "pointer"
           /\ xfer.i > 0 => slave.dir = "in" /\ slave.ptr = xfer.tx[1] + xfer.i - 1
    /\ xfer.at = "restart" => slave.dir = "in"
    /\ xfer.at = "sla_r" => slave.dir = "none"
    /\ xfer.at \in {"restart", "sla_r", "rx"} => slave.ptr = xfer.i /\ pc \in {"first", "get"}
    /\ xfer.at \in {"restart", "sla_r"} => xfer.i = 0
    /\ xfer.at = "rx" => slave.dir = "out" /\ xfer.i \in 0 .. 6

\* What a transfer has read, or written, so far, and when it reports success.
ReadPart ==
    /\ xfer.at = "rx" => \A r \in Regs : r < xfer.i => rtc_reg[r] = latch[r]
    /\ (xfer.at = "idle" /\ pc \in {"first", "get"} /\ ret = 0) => rtc_reg = latch

SetPart ==
    /\ (pc = "set" /\ xfer.at = "tx") => \A r \in Regs : r + 1 < xfer.i => chip[r] = C!Encoded(t)[r]
    /\ (pc = "set" /\ xfer.at = "idle" /\ ret = 0) => \A r \in Regs : chip[r] = C!Encoded(t)[r]

RangePart ==
    /\ InRange(chip) /\ InRange(latch)
    /\ pc \notin {"boot", "sq_wave", "first", "dead"} => TimeInRange

ShowPart ==
    (pc = "download" /\ cur_mode = "display" /\ ret = 0) =>
        lcd.time = C!Decoded(latch) /\ ~C!Halted(latch)

ClockInv == ClockType /\ ModePart /\ BusPart /\ ReadPart /\ SetPart /\ RangePart /\ ShowPart

\* Binary coded decimals, and back.
LEMMA BcdIs ==
    ASSUME NEW n \in 0 .. 99
    PROVE  /\ C!FromBcd(C!Bcd(n)) = n
           /\ n <= 59 => C!Bcd(n) < 128 /\ C!Bcd(n) % 128 = C!Bcd(n)
<1>1. PICK q \in 0 .. 9, r \in 0 .. 9 : n = 10 * q + r /\ n \div 10 = q /\ n % 10 = r
  OBVIOUS
<1>2. C!Bcd(n) = 16 * q + r
  BY <1>1 DEF C!Bcd
<1>3. (16 * q + r) \div 16 = q /\ (16 * q + r) % 16 = r
  BY <1>1
<1>4. n <= 59 => q <= 5
  BY <1>1
<1>5. q <= 5 => 16 * q + r < 128 /\ (16 * q + r) % 128 = 16 * q + r
  BY <1>1
<1>6. QED
  BY <1>1, <1>2, <1>3, <1>4, <1>5 DEF C!FromBcd

LEMMA DecodedIs ==
    ASSUME NEW reg, NEW u, u = C!Decoded(reg)
    PROVE  /\ u = [f \in C!Fields |-> u[f]]
           /\ u["s"] = C!FromBcd(reg[0] % 128) /\ u["m"] = C!FromBcd(reg[1]) /\ u["h"] = C!FromBcd(reg[2])
           /\ u["dy"] = reg[3]
           /\ u["d"] = C!FromBcd(reg[4]) /\ u["mo"] = C!FromBcd(reg[5]) /\ u["y"] = C!FromBcd(reg[6])
BY DEF C!Decoded, C!Fields, C!Reg

LEMMA SameDecoded ==
    ASSUME NEW reg, NEW reh, \A r \in Regs : reg[r] = reh[r]
    PROVE  C!Decoded(reg) = C!Decoded(reh) /\ C!Halted(reg) = C!Halted(reh)
<1>1. /\ reg[0] = reh[0] /\ reg[1] = reh[1] /\ reg[2] = reh[2] /\ reg[3] = reh[3]
      /\ reg[4] = reh[4] /\ reg[5] = reh[5] /\ reg[6] = reh[6]
  BY DEF Regs
<1> DEFINE x == C!Decoded(reg)
           y == C!Decoded(reh)
<1>2. \A f \in C!Fields : x[f] = y[f]
  <2> SUFFICES ASSUME NEW f \in C!Fields PROVE x[f] = y[f]
    OBVIOUS
  <2>1. f \in {"s", "m", "h", "dy", "d", "mo", "y"}
    BY DEF C!Fields
  <2> HIDE DEF x, y
  <2>2. /\ x["s"] = y["s"] /\ x["m"] = y["m"] /\ x["h"] = y["h"] /\ x["dy"] = y["dy"]
        /\ x["d"] = y["d"] /\ x["mo"] = y["mo"] /\ x["y"] = y["y"]
    BY <1>1, DecodedIs DEF x, y
  <2>3. QED
    BY <2>1, <2>2
<1>3. x = y
  <2>1. x = [f \in C!Fields |-> x[f]] /\ y = [f \in C!Fields |-> y[f]]
    BY DecodedIs
  <2> HIDE DEF x, y
  <2>2. QED
    BY <1>2, <2>1
<1>4. QED
  BY <1>1, <1>3 DEF C!Halted

\* The registers of a time.
LEMMA EncodedIs ==
    ASSUME NEW u, NEW e, e = C!Encoded(u)
    PROVE  /\ DOMAIN e = Regs
           /\ e[0] = C!Bcd(u["s"]) /\ e[1] = C!Bcd(u["m"]) /\ e[2] = C!Bcd(u["h"]) /\ e[3] = u["dy"]
           /\ e[4] = C!Bcd(u["d"]) /\ e[5] = C!Bcd(u["mo"]) /\ e[6] = C!Bcd(u["y"])
<1> DEFINE g(r) == CHOOSE f \in C!Fields : C!Reg[f] = r
<1>1. e = [r \in Regs |-> IF g(r) = "dy" THEN u["dy"] ELSE C!Bcd(u[g(r)])]
  BY DEF C!Encoded, C!TimeRegs, Regs
<1>2. /\ C!Reg["s"] = 0 /\ C!Reg["m"] = 1 /\ C!Reg["h"] = 2 /\ C!Reg["dy"] = 3
      /\ C!Reg["d"] = 4 /\ C!Reg["mo"] = 5 /\ C!Reg["y"] = 6
  BY DEF C!Reg
<1>3. \A r \in Regs : \E f \in C!Fields : C!Reg[f] = r
  BY <1>2 DEF C!Fields, Regs
<1>4. \A r \in Regs : g(r) \in C!Fields /\ C!Reg[g(r)] = r
  <2> HIDE DEF C!Reg, C!Fields
  <2>1. QED
    BY <1>3
<1> HIDE DEF g
<1>5. g(0) = "s" /\ g(1) = "m" /\ g(2) = "h" /\ g(3) = "dy" /\ g(4) = "d" /\ g(5) = "mo" /\ g(6) = "y"
  <2>1. \A r \in Regs : g(r) \in {"s", "m", "h", "dy", "d", "mo", "y"} /\ C!Reg[g(r)] = r
    BY <1>4 DEF C!Fields
  <2>2. \A f \in {"s", "m", "h", "dy", "d", "mo", "y"} :
            /\ C!Reg[f] = 0 => f = "s"
            /\ C!Reg[f] = 1 => f = "m"
            /\ C!Reg[f] = 2 => f = "h"
            /\ C!Reg[f] = 3 => f = "dy"
            /\ C!Reg[f] = 4 => f = "d"
            /\ C!Reg[f] = 5 => f = "mo"
            /\ C!Reg[f] = 6 => f = "y"
    BY <1>2
  <2>3. 0 \in Regs /\ 1 \in Regs /\ 2 \in Regs /\ 3 \in Regs /\ 4 \in Regs /\ 5 \in Regs /\ 6 \in Regs
    BY DEF Regs
  <2>4. QED
    BY <2>1, <2>2, <2>3
<1>6. QED
  BY <1>1, <1>5 DEF Regs

\* What is written is read again.
LEMMA Coded ==
    ASSUME NEW u, \A f \in C!Fields : u[f] \in C!First[f] .. C!Last[f],
           NEW reg, NEW f \in C!Fields, reg[C!Reg[f]] = C!Encoded(u)[C!Reg[f]]
    PROVE  C!Decoded(reg)[f] = u[f] /\ (f = "s" => ~C!Halted(reg))
<1>1. /\ C!Reg["s"] = 0 /\ C!Reg["m"] = 1 /\ C!Reg["h"] = 2 /\ C!Reg["dy"] = 3
      /\ C!Reg["d"] = 4 /\ C!Reg["mo"] = 5 /\ C!Reg["y"] = 6
  BY DEF C!Reg
<1>2. /\ u["s"] \in 0 .. 59 /\ u["m"] \in 0 .. 59 /\ u["h"] \in 0 .. 23 /\ u["d"] \in 1 .. 31
      /\ u["mo"] \in 1 .. 12 /\ u["y"] \in 0 .. 99
  BY DEF C!Fields, C!First, C!Last
<1>3. f \in {"s", "m", "h", "dy", "d", "mo", "y"}
  BY DEF C!Fields
<1> DEFINE e == C!Encoded(u)
           x == C!Decoded(reg)
<1>4. /\ e[0] = C!Bcd(u["s"]) /\ e[1] = C!Bcd(u["m"]) /\ e[2] = C!Bcd(u["h"]) /\ e[3] = u["dy"]
      /\ e[4] = C!Bcd(u["d"]) /\ e[5] = C!Bcd(u["mo"]) /\ e[6] = C!Bcd(u["y"])
  BY EncodedIs
<1>5. /\ x["s"] = C!FromBcd(reg[0] % 128) /\ x["m"] = C!FromBcd(reg[1]) /\ x["h"] = C!FromBcd(reg[2])
      /\ x["dy"] = reg[3]
      /\ x["d"] = C!FromBcd(reg[4]) /\ x["mo"] = C!FromBcd(reg[5]) /\ x["y"] = C!FromBcd(reg[6])
  BY DecodedIs
<1>6. reg[C!Reg[f]] = e[C!Reg[f]]
  OBVIOUS
<1> HIDE DEF e, x
<1>7. /\ u["s"] \in 0 .. 99 /\ u["m"] \in 0 .. 99 /\ u["h"] \in 0 .. 99 /\ u["d"] \in 0 .. 99
      /\ u["mo"] \in 0 .. 99 /\ u["y"] \in 0 .. 99 /\ u["s"] <= 59
  BY <1>2
<1>8. CASE f = "s"
  <2>1. reg[0] = C!Bcd(u["s"])
    BY <1>1, <1>4, <1>6, <1>8
  <2>2. C!Bcd(u["s"]) < 128 /\ C!Bcd(u["s"]) % 128 = C!Bcd(u["s"]) /\ C!FromBcd(C!Bcd(u["s"])) = u["s"]
    BY <1>7, BcdIs
  <2>3. C!Bcd(u["s"]) \in Int
    BY <1>2 DEF C!Bcd
  <2>4. ~(C!Bcd(u["s"]) >= 128)
    BY <2>2, <2>3
  <2>5. QED
    BY <1>5, <1>8, <2>1, <2>2, <2>4 DEF x, C!Halted
<1>9. CASE f = "dy"
  BY <1>1, <1>4, <1>5, <1>6, <1>9 DEF x
<1>10. CASE f \in {"m", "h", "d", "mo", "y"}
  <2>1. reg[C!Reg[f]] = C!Bcd(u[f]) /\ x[f] = C!FromBcd(reg[C!Reg[f]]) /\ u[f] \in 0 .. 99
    BY <1>1, <1>4, <1>5, <1>6, <1>7, <1>10
  <2>2. C!FromBcd(C!Bcd(u[f])) = u[f]
    BY <2>1, BcdIs
  <2>3. QED
    BY <1>10, <2>1, <2>2 DEF x
<1>11. QED
  BY <1>3, <1>8, <1>9, <1>10

LEMMA SameField ==
    ASSUME NEW reg, NEW reh, NEW f \in C!Fields, reg[C!Reg[f]] = reh[C!Reg[f]]
    PROVE  C!Decoded(reg)[f] = C!Decoded(reh)[f]
<1>1. /\ C!Reg["s"] = 0 /\ C!Reg["m"] = 1 /\ C!Reg["h"] = 2 /\ C!Reg["dy"] = 3
      /\ C!Reg["d"] = 4 /\ C!Reg["mo"] = 5 /\ C!Reg["y"] = 6
  BY DEF C!Reg
<1>2. f \in {"s", "m", "h", "dy", "d", "mo", "y"}
  BY DEF C!Fields
<1> DEFINE x == C!Decoded(reg)
           y == C!Decoded(reh)
<1>3. /\ x["s"] = C!FromBcd(reg[0] % 128) /\ x["m"] = C!FromBcd(reg[1]) /\ x["h"] = C!FromBcd(reg[2])
      /\ x["dy"] = reg[3]
      /\ x["d"] = C!FromBcd(reg[4]) /\ x["mo"] = C!FromBcd(reg[5]) /\ x["y"] = C!FromBcd(reg[6])
  BY DecodedIs
<1>4. /\ y["s"] = C!FromBcd(reh[0] % 128) /\ y["m"] = C!FromBcd(reh[1]) /\ y["h"] = C!FromBcd(reh[2])
      /\ y["dy"] = reh[3]
      /\ y["d"] = C!FromBcd(reh[4]) /\ y["mo"] = C!FromBcd(reh[5]) /\ y["y"] = C!FromBcd(reh[6])
  BY DecodedIs
<1> HIDE DEF x, y
<1>5. x[f] = y[f]
  BY <1>1, <1>2, <1>3, <1>4
<1>6. QED
  BY <1>5 DEF x, y

\* One register changed for that of a time leaves every field in its range.
LEMMA Written ==
    ASSUME NEW reg, InRange(reg), NEW u, \A f \in C!Fields : u[f] \in C!First[f] .. C!Last[f],
           NEW reh, \A f \in C!Fields : \/ reh[C!Reg[f]] = reg[C!Reg[f]]
                                        \/ reh[C!Reg[f]] = C!Encoded(u)[C!Reg[f]]
    PROVE  InRange(reh)
<1> SUFFICES ASSUME NEW f \in C!Fields PROVE C!Decoded(reh)[f] \in C!First[f] .. C!Last[f]
  BY DEF InRange
<1>1. CASE reh[C!Reg[f]] = reg[C!Reg[f]]
  <2>1. C!Decoded(reh)[f] = C!Decoded(reg)[f]
    BY <1>1, SameField
  <2>2. QED
    BY <2>1 DEF InRange
<1>2. CASE reh[C!Reg[f]] = C!Encoded(u)[C!Reg[f]]
  <2>1. C!Decoded(reh)[f] = u[f]
    BY <1>2, Coded
  <2>2. QED
    BY <2>1
<1>3. QED
  BY <1>1, <1>2

LEMMA RegIs ==
    ASSUME NEW f \in C!Fields
    PROVE  C!Reg[f] \in Regs
BY DEF C!Fields, C!Reg, Regs

\* A second later the fields are still in range: the last day of no month is behind the 31st.
LEMMA NextSecondIs ==
    ASSUME NEW u, \A f \in C!Fields : u[f] \in C!First[f] .. C!Last[f],
           NEW f \in C!Fields
    PROVE  C!NextSecond(u)[f] \in C!First[f] .. C!Last[f]
<1> DEFINE v == C!NextSecond(u)
<1>1. /\ u.s \in 0 .. 59 /\ u.m \in 0 .. 59 /\ u.h \in 0 .. 23 /\ u.d \in 1 .. 31
      /\ u.mo \in 1 .. 12 /\ u.y \in 0 .. 99 /\ u.dy \in 1 .. 7
  BY DEF C!Fields, C!First, C!Last
<1>2. C!DaysIn(u) \in 28 .. 31
  <2>1. C!DaysIn(u) \in {28, 29, 30, 31}
    BY DEF C!DaysIn
  <2>2. QED
    BY <2>1
<1>3. v.s \in 0 .. 59 /\ v.m \in 0 .. 59 /\ v.h \in 0 .. 23
  BY <1>1 DEF C!NextSecond
<1>4. v.dy \in 1 .. 7 /\ v.y \in 0 .. 99
  BY <1>1 DEF C!NextSecond
<1>5. v.d \in 1 .. 31
  <2> HIDE DEF C!DaysIn
  <2>1. \A x, n \in Int : (x \in 1 .. 31 /\ n \in 28 .. 31 /\ ~(x >= n)) => x + 1 \in 1 .. 31
    OBVIOUS
  <2>2. \/ v.d = 1
        \/ v.d = u.d
        \/ v.d = u.d + 1 /\ ~(u.d >= C!DaysIn(u))
    BY DEF C!NextSecond
  <2>3. u.d \in Int /\ C!DaysIn(u) \in Int
    BY <1>1, <1>2
  <2>4. QED
    BY <1>1, <1>2, <2>1, <2>2, <2>3
<1>6. v.mo \in 1 .. 12
  <2>1. v.mo = 1 \/ v.mo = u.mo \/ (v.mo = u.mo + 1 /\ u.mo # 12)
    BY DEF C!NextSecond
  <2>2. QED
    BY <1>1, <2>1
<1> HIDE DEF v
<1>7. f \in {"s", "m", "h", "dy", "d", "mo", "y"}
  BY DEF C!Fields
<1>8. v[f] \in C!First[f] .. C!Last[f]
  BY <1>3, <1>4, <1>5, <1>6, <1>7 DEF C!First, C!Last
<1>9. QED
  BY <1>8 DEF v

\* The bytes that rtc_set() sends.
LEMMA SetBytesAre ==
    /\ Len(SetBytes) = 8 /\ SetBytes[1] = 0
    /\ \A r \in Regs : SetBytes[r + 2] = C!Encoded(t)[r]
<1> DEFINE e == C!Encoded(t)
           V == {0} \cup {e[r] : r \in Regs}
           x == <<0>>
           y == [i \in 1 .. 7 |-> e[i - 1]]
<1>1. \A i \in 1 .. 7 : e[i - 1] \in V
  <2>1. \A i \in 1 .. 7 : i - 1 \in Regs
    BY DEF Regs
  <2> HIDE DEF e
  <2>2. QED
    BY <2>1
<1>2. x \in Seq(V) /\ Len(x) = 1 /\ x[1] = 0
  OBVIOUS
<1>3. y \in Seq(V) /\ Len(y) = 7 /\ \A i \in 1 .. 7 : y[i] = e[i - 1]
  <2> DEFINE n == 7
  <2> HIDE DEF e, V
  <2>1. n \in Nat /\ y \in [1 .. n -> V]
    BY <1>1
  <2>2. DOMAIN y = 1 .. n /\ \A i \in 1 .. n : y[i] = e[i - 1]
    OBVIOUS
  <2> HIDE DEF y, n
  <2>3. y \in Seq(V)
    BY <2>1
  <2>4. Len(y) \in Nat /\ DOMAIN y = 1 .. Len(y)
    BY <2>3
  <2>5. 1 .. Len(y) = 1 .. n
    BY <2>2, <2>4
  <2>6. Len(y) = n
    BY <2>1, <2>4, <2>5
  <2>7. QED
    BY <2>2, <2>3, <2>6 DEF n
<1>4. SetBytes = x \o y
  BY DEF SetBytes
<1> HIDE DEF e, V, x, y
<1>5. /\ Len(x \o y) = Len(x) + Len(y)
      /\ \A i \in 1 .. Len(x) : (x \o y)[i] = x[i]
      /\ \A i \in 1 .. Len(y) : (x \o y)[Len(x) + i] = y[i]
  <2>1. x \in Seq(V) /\ y \in Seq(V)
    BY <1>2, <1>3
  <2>2. QED
    BY <2>1
<1> DEFINE z == x \o y
<1> HIDE DEF z
<1>6. Len(z) = 8 /\ z[1] = 0 /\ \A i \in 1 .. 7 : z[1 + i] = y[i]
  BY <1>2, <1>3, <1>5, SMTT(60) DEF z
<1>7. \A r \in Regs : z[r + 2] = e[r]
  <2> SUFFICES ASSUME NEW r \in Regs PROVE z[r + 2] = e[r]
    OBVIOUS
  <2>1. r + 1 \in 1 .. 7 /\ 1 + (r + 1) = r + 2 /\ (r + 1) - 1 = r
    BY DEF Regs
  <2>2. QED
    BY <1>3, <1>6, <2>1
<1>8. QED
  BY <1>4, <1>6, <1>7 DEF z, e

\* The register of a transfer's call, and what it moves.
LEMMA GotoIs ==
    ASSUME ClockType, NEW s, C!Goto(s)
    PROVE  /\ DOMAIN xfer' = {"tx", "rx", "at", "i"}
           /\ xfer'.tx = xfer.tx /\ xfer'.rx = xfer.rx /\ xfer'.at = s /\ xfer'.i = 0
BY DEF ClockType, C!Goto

LEMMA FinishIs ==
    ASSUME ClockType, NEW r, C!Finish(r)
    PROVE  /\ DOMAIN xfer' = {"tx", "rx", "at", "i"} /\ xfer'.at = "idle" /\ ret' = r
           /\ DOMAIN slave' = {"dir", "ptr"} /\ slave'.dir = "none"
BY DEF ClockType, C!Finish, C!Idle

LEMMA CallIs ==
    ASSUME NEW tx, NEW rx, C!Call(tx, rx)
    PROVE  /\ DOMAIN xfer' = {"tx", "rx", "at", "i"}
           /\ xfer'.tx = tx /\ xfer'.rx = rx /\ xfer'.at = "start" /\ xfer'.i = 0
           /\ UNCHANGED <<rtc_reg, ret, chip, latch, slave, faults>>
BY DEF C!Call

\* What the DS1307 latches.
LEMMA LatchIs ==
    ASSUME InRange(chip), C!Latch
    PROVE  latch' = [r \in Regs |-> latch'[r]] /\ InRange(latch')
<1>1. latch' = [r \in Regs |-> latch'[r]] /\ \A r \in Regs : latch'[r] = chip[r]
  BY DEF C!Latch, C!TimeRegs, Regs
<1>2. \A f \in C!Fields : C!Decoded(latch')[f] = C!Decoded(chip)[f]
  BY <1>1, SameField, RegIs
<1>3. QED
  BY <1>1, <1>2 DEF InRange

\* The program waits while a transfer is under way.
LEMMA Waits ==
    ASSUME ClockInv, xfer.at # "idle", UNCHANGED C!clockVars
    PROVE  /\ ModePart' /\ ShowPart' /\ TimeForm' /\ DOMAIN lcd' = {"time", "msg"}
           /\ Calling /\ pc \in {"sq_wave", "first", "get", "set"} /\ pc' = pc /\ t' = t
           /\ pc \notin {"sq_wave", "first"} => TimeInRange /\ TimeInRange'
           /\ xfer'.tx = xfer.tx /\ xfer'.rx = xfer.rx => Calling'
<1>1. /\ pc' = pc /\ cur_mode' = cur_mode /\ cur_set_mode' = cur_set_mode /\ t' = t /\ lcd' = lcd
  BY DEF C!clockVars
<1>2. Calling /\ pc \in {"sq_wave", "first", "get", "set"}
  BY DEF ClockInv, BusPart, Calling
<1>3. ModePart' /\ ShowPart'
  BY <1>1, <1>2 DEF ClockInv, ModePart, ShowPart
<1>4. TimeForm' /\ DOMAIN lcd' = {"time", "msg"}
  BY <1>1 DEF ClockInv, ClockType, TimeForm
<1>5. pc \notin {"sq_wave", "first"} => TimeInRange /\ TimeInRange'
  BY <1>1, <1>2 DEF ClockInv, RangePart, TimeInRange
<1>6. SetBytes' = SetBytes
  BY <1>1 DEF SetBytes
<1>7. xfer'.tx = xfer.tx /\ xfer'.rx = xfer.rx => Calling'
  BY <1>1, <1>2, <1>6 DEF Calling
<1>8. QED
  BY <1>1, <1>2, <1>3, <1>4, <1>5, <1>7

\* Every call sends something, and what it sends first is a register.
LEMMA CallSends ==
    ASSUME Calling
    PROVE  /\ Len(xfer.tx) \in Nat \ {0} /\ xfer.tx[1] \in Int
           /\ pc = "sq_wave" => Len(xfer.tx) = 2 /\ xfer.tx[1] = 7
           /\ pc \in {"first", "get"} => Len(xfer.tx) = 1 /\ xfer.tx[1] = 0
           /\ pc = "set" => Len(xfer.tx) = 8 /\ xfer.tx[1] = 0
<1>1. pc = "sq_wave" => Len(xfer.tx) = 2 /\ xfer.tx[1] = 7
  BY DEF Calling
<1>2. pc \in {"first", "get"} => Len(xfer.tx) = 1 /\ xfer.tx[1] = 0
  BY DEF Calling
<1>3. pc = "set" => Len(xfer.tx) = 8 /\ xfer.tx[1] = 0
  BY SetBytesAre DEF Calling
<1>4. pc \in {"sq_wave", "first", "get", "set"}
  BY DEF Calling
<1>5. QED
  BY <1>1, <1>2, <1>3, <1>4

-----------------------------------------------------------------------------
\* The steps of a transfer.
LEMMA SendStartKeeps ==
    ASSUME ClockInv, C!SendStart, UNCHANGED C!clockVars
    PROVE  ClockInv'
<1>1. /\ xfer.at = "start" /\ C!Latch /\ C!Goto("sla_w")
      /\ rtc_reg' = rtc_reg /\ chip' = chip /\ slave' = slave /\ slave.dir = "none"
  BY DEF C!SendStart, C!Stage
<1>2. /\ DOMAIN xfer' = {"tx", "rx", "at", "i"}
      /\ xfer'.tx = xfer.tx /\ xfer'.rx = xfer.rx /\ xfer'.at = "sla_w" /\ xfer'.i = 0
  BY <1>1, GotoIs DEF ClockInv
<1>3. latch' = [r \in Regs |-> latch'[r]] /\ InRange(latch')
  BY <1>1, LatchIs DEF ClockInv, RangePart
<1>4. /\ ModePart' /\ ShowPart' /\ TimeForm' /\ DOMAIN lcd' = {"time", "msg"}
      /\ pc \in {"sq_wave", "first", "get", "set"} /\ pc' = pc /\ Calling'
      /\ pc \notin {"sq_wave", "first"} => TimeInRange'
  BY <1>1, <1>2, Waits
<1>5. ClockType'
  BY <1>1, <1>2, <1>3, <1>4 DEF ClockInv, ClockType
<1>6. BusPart'
  BY <1>1, <1>2, <1>4 DEF BusPart
<1>7. ReadPart' /\ SetPart'
  BY <1>2 DEF ReadPart, SetPart
<1>8. RangePart'
  BY <1>1, <1>3, <1>4 DEF ClockInv, RangePart, InRange
<1>9. QED
  BY <1>4, <1>5, <1>6, <1>7, <1>8 DEF ClockInv

LEMMA SendRestartKeeps ==
    ASSUME ClockInv, C!SendRestart, UNCHANGED C!clockVars
    PROVE  ClockInv'
<1>1. /\ xfer.at = "restart" /\ C!Latch /\ C!Goto("sla_r")
      /\ rtc_reg' = rtc_reg /\ chip' = chip /\ slave' = [slave EXCEPT !.dir = "none"]
  BY DEF C!SendRestart, C!Stage
<1>2. /\ DOMAIN xfer' = {"tx", "rx", "at", "i"}
      /\ xfer'.tx = xfer.tx /\ xfer'.rx = xfer.rx /\ xfer'.at = "sla_r" /\ xfer'.i = 0
  BY <1>1, GotoIs DEF ClockInv
<1>3. latch' = [r \in Regs |-> latch'[r]] /\ InRange(latch')
  BY <1>1, LatchIs DEF ClockInv, RangePart
<1>4. /\ ModePart' /\ ShowPart' /\ TimeForm' /\ DOMAIN lcd' = {"time", "msg"}
      /\ pc \in {"sq_wave", "first", "get", "set"} /\ pc' = pc /\ Calling'
      /\ pc \notin {"sq_wave", "first"} => TimeInRange'
  BY <1>1, <1>2, Waits
<1>5. slave'.dir = "none" /\ slave'.ptr = slave.ptr /\ DOMAIN slave' = {"dir", "ptr"}
  BY <1>1 DEF ClockInv, ClockType
<1>6. slave.ptr = 0 /\ pc \in {"first", "get"}
  BY <1>1 DEF ClockInv, BusPart
<1>7. ClockType'
  BY <1>1, <1>2, <1>3, <1>4, <1>5 DEF ClockInv, ClockType
<1>8. BusPart'
  BY <1>2, <1>4, <1>5, <1>6 DEF BusPart
<1>9. ReadPart' /\ SetPart'
  BY <1>2 DEF ReadPart, SetPart
<1>10. RangePart'
  BY <1>1, <1>3, <1>4 DEF ClockInv, RangePart, InRange
<1>11. QED
  BY <1>4, <1>7, <1>8, <1>9, <1>10 DEF ClockInv

LEMMA SendAddressKeeps ==
    ASSUME ClockInv, C!SendAddress, UNCHANGED C!clockVars
    PROVE  ClockInv'
<1>1. /\ \/ xfer.at = "sla_w" /\ C!Goto("tx") /\ slave' = [slave EXCEPT !.dir = "pointer"]
         \/ xfer.at = "sla_r" /\ C!Goto("rx") /\ slave' = [slave EXCEPT !.dir = "out"]
      /\ rtc_reg' = rtc_reg /\ chip' = chip /\ latch' = latch
  BY DEF C!SendAddress, C!Stage
<1>2. /\ DOMAIN xfer' = {"tx", "rx", "at", "i"}
      /\ xfer'.tx = xfer.tx /\ xfer'.rx = xfer.rx /\ xfer'.i = 0
      /\ slave'.ptr = slave.ptr /\ DOMAIN slave' = {"dir", "ptr"}
      /\ \/ xfer.at = "sla_w" /\ xfer'.at = "tx" /\ slave'.dir = "pointer"
         \/ xfer.at = "sla_r" /\ xfer'.at = "rx" /\ slave'.dir = "out"
  <2>1. DOMAIN slave = {"dir", "ptr"}
    BY DEF ClockInv, ClockType
  <2>2. CASE xfer.at = "sla_w" /\ C!Goto("tx") /\ slave' = [slave EXCEPT !.dir = "pointer"]
    BY <2>1, <2>2, GotoIs DEF ClockInv
  <2>3. CASE xfer.at = "sla_r" /\ C!Goto("rx") /\ slave' = [slave EXCEPT !.dir = "out"]
    BY <2>1, <2>3, GotoIs DEF ClockInv
  <2>4. QED
    BY <1>1, <2>2, <2>3
<1>3. xfer.at # "idle"
  BY <1>1
<1>4. /\ ModePart' /\ ShowPart' /\ TimeForm' /\ DOMAIN lcd' = {"time", "msg"}
      /\ pc \in {"sq_wave", "first", "get", "set"} /\ pc' = pc /\ Calling /\ Calling'
      /\ pc \notin {"sq_wave", "first"} => TimeInRange'
  BY <1>2, <1>3, Waits
<1>5. xfer.at = "sla_r" => slave.ptr = 0 /\ pc \in {"first", "get"}
  BY DEF ClockInv, BusPart
<1>6. Len(xfer'.tx) \in Nat
  BY <1>2, <1>4, CallSends
<1>7. ClockType'
  BY <1>1, <1>2, <1>4 DEF ClockInv, ClockType
<1>8. BusPart'
  <2>1. 0 \in 0 .. Len(xfer'.tx) /\ 0 \in 0 .. 6
    BY <1>6
  <2>2. CASE xfer.at = "sla_w" /\ xfer'.at = "tx" /\ slave'.dir = "pointer"
    BY <1>2, <1>4, <2>1, <2>2 DEF BusPart
  <2>3. CASE xfer.at = "sla_r" /\ xfer'.at = "rx" /\ slave'.dir = "out"
    BY <1>2, <1>4, <1>5, <2>1, <2>3 DEF BusPart
  <2>4. QED
    BY <1>2, <2>2, <2>3
<1>9. ReadPart' /\ SetPart'
  BY <1>2 DEF ReadPart, SetPart, Regs
<1>10. RangePart'
  BY <1>1, <1>4 DEF ClockInv, RangePart, InRange
<1>11. QED
  BY <1>4, <1>7, <1>8, <1>9, <1>10 DEF ClockInv

\* The byte the DS1307 takes into a register: the time's own, or the control register's.
LEMMA TakenIs ==
    ASSUME ClockInv, xfer.at = "tx", slave.dir = "in", xfer.i < Len(xfer.tx),
           NEW new, new = [chip EXCEPT ![slave.ptr] = xfer.tx[xfer.i + 1]]
    PROVE  /\ DOMAIN new = 0 .. 7 /\ InRange(new)
           /\ pc = "set" => \A r \in Regs : r + 1 < xfer.i + 1 => new[r] = C!Encoded(t)[r]
<1>1. /\ Calling /\ xfer.i \in 0 .. Len(xfer.tx) /\ xfer.i > 0
      /\ slave.ptr = xfer.tx[1] + xfer.i - 1 /\ DOMAIN chip = 0 .. 7
  BY DEF ClockInv, BusPart, ClockType
<1> DEFINE n == xfer.i
           p == slave.ptr
           b == xfer.tx[n + 1]
<1>2. DOMAIN new = 0 .. 7 /\ (p \in 0 .. 7 => new[p] = b) /\ \A r \in 0 .. 7 : r # p => new[r] = chip[r]
  BY <1>1
<1>3. InRange(chip)
  BY DEF ClockInv, RangePart
<1>4. CASE pc = "sq_wave"
  <2>1. Len(xfer.tx) = 2 /\ xfer.tx[1] = 7
    BY <1>1, <1>4, CallSends
  <2>2. p = 7
    BY <1>1, <2>1
  <2> HIDE DEF p, b, n
  <2>3. \A r \in Regs : new[r] = chip[r]
    BY <1>2, <2>2 DEF Regs
  <2>4. \A f \in C!Fields : C!Decoded(new)[f] = C!Decoded(chip)[f]
    <3> SUFFICES ASSUME NEW f \in C!Fields PROVE C!Decoded(new)[f] = C!Decoded(chip)[f]
      OBVIOUS
    <3>1. new[C!Reg[f]] = chip[C!Reg[f]]
      BY <2>3, RegIs
    <3>2. QED
      BY ONLY <3>1, f \in C!Fields, SameField
  <2>5. QED
    BY <1>2, <1>3, <1>4, <2>4 DEF InRange
<1>5. CASE pc \in {"first", "get"}
  <2>1. Len(xfer.tx) = 1
    BY <1>1, <1>5, CallSends
  <2>2. QED
    BY <1>1, <2>1
<1>6. CASE pc = "set"
  <2>1. Len(xfer.tx) = 8 /\ xfer.tx[1] = 0 /\ xfer.tx = SetBytes
    BY <1>1, <1>6, CallSends DEF Calling
  <2>2. n \in 1 .. 7 /\ p = n - 1 /\ p \in Regs
    BY <1>1, <2>1 DEF Regs
  <2>3. b = C!Encoded(t)[p]
    <3>1. SetBytes[p + 2] = C!Encoded(t)[p]
      BY <2>2, SetBytesAre
    <3>2. p + 2 = n + 1
      BY <2>2
    <3> HIDE DEF p, n
    <3>3. QED
      BY <2>1, <3>1, <3>2
  <2>4. \A r \in Regs : r + 1 < n => chip[r] = C!Encoded(t)[r]
    BY <1>6 DEF ClockInv, SetPart
  <2> HIDE DEF p, b, n
  <2>5. new[p] = C!Encoded(t)[p] /\ \A r \in Regs : r # p => new[r] = chip[r]
    BY <1>2, <2>2, <2>3 DEF Regs
  <2>6. \A r \in Regs : r + 1 < n + 1 => new[r] = C!Encoded(t)[r]
    <3> SUFFICES ASSUME NEW r \in Regs, r + 1 < n + 1 PROVE new[r] = C!Encoded(t)[r]
      OBVIOUS
    <3>1. r = p \/ (r # p /\ r + 1 < n)
      BY <2>2 DEF Regs
    <3>2. QED
      BY <2>4, <2>5, <3>1
  <2>8. \A f \in C!Fields : t[f] \in C!First[f] .. C!Last[f]
    BY <1>6 DEF ClockInv, RangePart, TimeInRange
  <2>9. \A f \in C!Fields : \/ new[C!Reg[f]] = chip[C!Reg[f]]
                            \/ new[C!Reg[f]] = C!Encoded(t)[C!Reg[f]]
    BY <2>5, RegIs
  <2>10. InRange(new)
    BY ONLY <1>3, <2>8, <2>9, Written
  <2>11. QED
    BY <1>2, <2>6, <2>10 DEF n
<1>7. QED
  BY <1>1, <1>4, <1>5, <1>6 DEF Calling

LEMMA SendDataKeeps ==
    ASSUME ClockInv, C!SendData, UNCHANGED C!clockVars
    PROVE  ClockInv'
<1>1. /\ xfer.at = "tx" /\ xfer.i < Len(xfer.tx) /\ C!Taken(xfer.tx[xfer.i + 1])
      /\ xfer' = [xfer EXCEPT !.i = xfer.i + 1]
      /\ rtc_reg' = rtc_reg /\ ret' = ret /\ latch' = latch
  BY DEF C!SendData, C!Stage
<1>2. /\ DOMAIN xfer' = {"tx", "rx", "at", "i"}
      /\ xfer'.tx = xfer.tx /\ xfer'.rx = xfer.rx /\ xfer'.at = "tx" /\ xfer'.i = xfer.i + 1
  BY <1>1 DEF ClockInv, ClockType
<1>3. /\ ModePart' /\ ShowPart' /\ TimeForm' /\ DOMAIN lcd' = {"time", "msg"}
      /\ pc \in {"sq_wave", "first", "get", "set"} /\ pc' = pc /\ t' = t /\ Calling /\ Calling'
      /\ pc \notin {"sq_wave", "first"} => TimeInRange'
  BY <1>1, <1>2, Waits
<1>4. /\ xfer.i \in 0 .. Len(xfer.tx) /\ DOMAIN slave = {"dir", "ptr"}
      /\ xfer.i = 0 => slave.dir = "pointer"
      /\ xfer.i > 0 => slave.dir = "in" /\ slave.ptr = xfer.tx[1] + xfer.i - 1
  BY <1>1 DEF ClockInv, BusPart, ClockType
<1>5. Len(xfer.tx) \in Nat /\ xfer.tx[1] \in Int
  BY <1>3, CallSends
<1> DEFINE n == xfer.i
<1>6. n \in Int /\ n + 1 \in 0 .. Len(xfer.tx) /\ n + 1 > 0 /\ ~(n + 1 = 0)
  BY <1>1, <1>4, <1>5
<1>7. /\ DOMAIN chip' = 0 .. 7 /\ InRange(chip') /\ DOMAIN slave' = {"dir", "ptr"}
      /\ slave'.dir = "in" /\ slave'.ptr = xfer.tx[1] + (n + 1) - 1
      /\ pc = "set" => \A r \in Regs : r + 1 < n + 1 => chip'[r] = C!Encoded(t)[r]
  <2>1. CASE n = 0
    <3>1. slave' = [dir |-> "in", ptr |-> xfer.tx[n + 1]] /\ chip' = chip
      BY <1>1, <1>4, <2>1 DEF C!Taken
    <3>2. slave'.ptr = xfer.tx[1] + (n + 1) - 1
      <4>1. n + 1 = 1
        BY <2>1
      <4>2. slave'.ptr = xfer.tx[1]
        BY <3>1, <4>1
      <4>3. \A v \in Int : v = v + (0 + 1) - 1
        OBVIOUS
      <4>4. QED
        BY <1>5, <2>1, <4>2, <4>3
    <3>3. \A r \in Regs : ~(r + 1 < n + 1)
      BY <2>1 DEF Regs
    <3>4. DOMAIN chip' = 0 .. 7 /\ InRange(chip')
      BY <3>1 DEF ClockInv, ClockType, RangePart, InRange
    <3>5. QED
      BY <3>1, <3>2, <3>3, <3>4
  <2>2. CASE n > 0
    <3>1. slave.dir = "in" /\ slave.ptr = xfer.tx[1] + n - 1
      BY <1>4, <2>2
    <3>2. slave' = [slave EXCEPT !.ptr = slave.ptr + 1] /\ chip' = [chip EXCEPT ![slave.ptr] = xfer.tx[n + 1]]
      BY <1>1, <3>1 DEF C!Taken
    <3>3. DOMAIN slave' = {"dir", "ptr"} /\ slave'.dir = "in" /\ slave'.ptr = slave.ptr + 1
      BY <1>4, <3>1, <3>2
    <3>4. slave'.ptr = xfer.tx[1] + (n + 1) - 1
      BY <1>5, <1>6, <3>1, <3>3, SMTT(60)
    <3>5. /\ DOMAIN chip' = 0 .. 7 /\ InRange(chip')
          /\ pc = "set" => \A r \in Regs : r + 1 < n + 1 => chip'[r] = C!Encoded(t)[r]
      BY <1>1, <3>1, <3>2, TakenIs
    <3>6. QED
      BY <3>3, <3>4, <3>5
  <2>3. QED
    BY <1>4, <1>5, <2>1, <2>2
<1>8. ClockType'
  BY <1>1, <1>2, <1>3, <1>7 DEF ClockInv, ClockType
<1>9. BusPart'
  BY <1>2, <1>3, <1>6, <1>7 DEF BusPart
<1>10. ReadPart'
  BY <1>2 DEF ReadPart
<1>11. SetPart'
  BY <1>2, <1>3, <1>7 DEF SetPart
<1>12. RangePart'
  BY <1>1, <1>3, <1>7 DEF ClockInv, RangePart, InRange
<1>13. QED
  BY <1>3, <1>8, <1>9, <1>10, <1>11, <1>12 DEF ClockInv

\* The transfer turns round to read, or is over; rtc_set() has then sent all seven.
LEMMA SentKeeps ==
    ASSUME ClockInv, C!Sent, UNCHANGED C!clockVars
    PROVE  ClockInv'
<1>1. /\ xfer.at = "tx" /\ xfer.i = Len(xfer.tx)
      /\ \/ xfer.rx > 0 /\ C!Goto("restart") /\ ret' = ret /\ slave' = slave
         \/ ~(xfer.rx > 0) /\ C!Finish(0)
      /\ rtc_reg' = rtc_reg /\ chip' = chip /\ latch' = latch
  BY DEF C!Sent, C!Stage
<1>2. /\ ModePart' /\ ShowPart' /\ TimeForm' /\ DOMAIN lcd' = {"time", "msg"}
      /\ pc \in {"sq_wave", "first", "get", "set"} /\ pc' = pc /\ t' = t /\ Calling
      /\ pc \notin {"sq_wave", "first"} => TimeInRange'
      /\ xfer'.tx = xfer.tx /\ xfer'.rx = xfer.rx => Calling'
  BY <1>1, Waits
<1>3. /\ Len(xfer.tx) \in Nat \ {0} /\ xfer.tx[1] \in Int
      /\ pc \in {"first", "get"} => Len(xfer.tx) = 1 /\ xfer.tx[1] = 0
      /\ pc = "set" => Len(xfer.tx) = 8
  BY <1>2, CallSends
<1>4. slave.dir = "in" /\ slave.ptr = xfer.tx[1] + xfer.i - 1 /\ DOMAIN slave = {"dir", "ptr"}
  BY <1>1, <1>3 DEF ClockInv, BusPart, ClockType
<1>5. RangePart'
  BY <1>1, <1>2 DEF ClockInv, RangePart, InRange
<1>6. CASE xfer.rx > 0 /\ C!Goto("restart") /\ ret' = ret /\ slave' = slave
  <2>1. /\ DOMAIN xfer' = {"tx", "rx", "at", "i"}
        /\ xfer'.tx = xfer.tx /\ xfer'.rx = xfer.rx /\ xfer'.at = "restart" /\ xfer'.i = 0
    BY <1>6, GotoIs DEF ClockInv
  <2>2. pc \in {"first", "get"}
    BY <1>2, <1>6 DEF Calling
  <2>3. slave'.ptr = 0 /\ slave'.dir = "in"
    <3>1. xfer.i = 1 /\ xfer.tx[1] = 0
      BY <1>1, <1>3, <2>2
    <3>2. slave.ptr = 0
      BY <1>4, <3>1
    <3>3. QED
      BY <1>4, <1>6, <3>2
  <2>4. ClockType'
    BY <1>1, <1>2, <1>4, <1>6, <2>1 DEF ClockInv, ClockType
  <2>5. BusPart'
    BY <1>2, <2>1, <2>2, <2>3 DEF BusPart
  <2>6. ReadPart' /\ SetPart'
    BY <2>1 DEF ReadPart, SetPart
  <2>7. QED
    BY <1>2, <1>5, <2>4, <2>5, <2>6 DEF ClockInv
<1>7. CASE ~(xfer.rx > 0) /\ C!Finish(0)
  <2>1. /\ DOMAIN xfer' = {"tx", "rx", "at", "i"} /\ xfer'.at = "idle" /\ ret' = 0
        /\ DOMAIN slave' = {"dir", "ptr"} /\ slave'.dir = "none"
    BY <1>7, FinishIs DEF ClockInv
  <2>2. pc \notin {"first", "get"}
    BY <1>2, <1>7 DEF Calling
  <2>3. ClockType'
    BY <1>1, <1>2, <2>1 DEF ClockInv, ClockType
  <2>4. BusPart'
    BY <2>1 DEF BusPart
  <2>5. ReadPart'
    BY <1>2, <2>1, <2>2 DEF ReadPart
  <2>6. SetPart'
    <3>1. pc = "set" => \A r \in Regs : r + 1 < 8 => chip[r] = C!Encoded(t)[r]
      BY <1>1, <1>3 DEF ClockInv, SetPart
    <3>2. \A r \in Regs : r + 1 < 8
      BY DEF Regs
    <3>3. QED
      BY <1>1, <1>2, <2>1, <3>1, <3>2 DEF SetPart
  <2>7. QED
    BY <1>2, <1>5, <2>3, <2>4, <2>5, <2>6 DEF ClockInv
<1>8. QED
  BY <1>1, <1>6, <1>7

\* Register after register, out of what was latched.
LEMMA RecvDataKeeps ==
    ASSUME ClockInv, C!RecvData, UNCHANGED C!clockVars
    PROVE  ClockInv'
<1> DEFINE n == xfer.i
<1>1. /\ xfer.at = "rx"
      /\ rtc_reg' = [rtc_reg EXCEPT ![n] = IF slave.ptr \in C!TimeRegs THEN latch[slave.ptr] ELSE chip[slave.ptr]]
      /\ \/ n + 1 < xfer.rx /\ xfer' = [xfer EXCEPT !.i = n + 1] /\ slave' = [slave EXCEPT !.ptr = slave.ptr + 1]
            /\ ret' = ret
         \/ ~(n + 1 < xfer.rx) /\ C!Finish(0)
      /\ chip' = chip /\ latch' = latch
  BY DEF C!RecvData, C!Stage
<1>2. /\ ModePart' /\ ShowPart' /\ TimeForm' /\ DOMAIN lcd' = {"time", "msg"}
      /\ pc' = pc /\ t' = t /\ Calling
      /\ pc \notin {"sq_wave", "first"} => TimeInRange'
      /\ xfer'.tx = xfer.tx /\ xfer'.rx = xfer.rx => Calling'
  BY <1>1, Waits
<1>3. /\ slave.dir = "out" /\ n \in 0 .. 6 /\ slave.ptr = n /\ pc \in {"first", "get"}
      /\ DOMAIN slave = {"dir", "ptr"} /\ xfer.rx = 7
  BY <1>1, <1>2 DEF ClockInv, BusPart, ClockType, Calling
<1>4. /\ rtc_reg = [r \in Regs |-> rtc_reg[r]] /\ latch = [r \in Regs |-> latch[r]]
      /\ \A r \in Regs : r < n => rtc_reg[r] = latch[r]
  BY <1>1 DEF ClockInv, ClockType, ReadPart
<1>5. rtc_reg' = [rtc_reg EXCEPT ![n] = latch[n]] /\ n \in Regs
  BY <1>1, <1>3 DEF C!TimeRegs, Regs
<1>6. RangePart'
  BY <1>1, <1>2 DEF ClockInv, RangePart, InRange
<1> HIDE DEF n
<1>7. rtc_reg' = [r \in Regs |-> rtc_reg'[r]] /\ rtc_reg'[n] = latch[n]
      /\ \A r \in Regs : r # n => rtc_reg'[r] = rtc_reg[r]
  BY <1>4, <1>5
<1>8. \A r \in Regs : r < n + 1 => rtc_reg'[r] = latch[r]
  <2> SUFFICES ASSUME NEW r \in Regs, r < n + 1 PROVE rtc_reg'[r] = latch[r]
    OBVIOUS
  <2>1. r = n \/ (r # n /\ r < n)
    BY <1>5 DEF Regs
  <2>2. QED
    BY <1>4, <1>7, <2>1
<1>9. CASE n + 1 < xfer.rx /\ xfer' = [xfer EXCEPT !.i = n + 1] /\ slave' = [slave EXCEPT !.ptr = slave.ptr + 1]
           /\ ret' = ret
  <2>1. /\ DOMAIN xfer' = {"tx", "rx", "at", "i"}
        /\ xfer'.tx = xfer.tx /\ xfer'.rx = xfer.rx /\ xfer'.at = "rx" /\ xfer'.i = n + 1
    BY <1>1, <1>9 DEF ClockInv, ClockType
  <2>2. DOMAIN slave' = {"dir", "ptr"} /\ slave'.dir = "out" /\ slave'.ptr = n + 1 /\ n + 1 \in 0 .. 6
    BY <1>3, <1>9
  <2>3. ClockType'
    BY <1>1, <1>2, <1>7, <2>1, <2>2 DEF ClockInv, ClockType
  <2>4. BusPart'
    BY <1>2, <1>3, <2>1, <2>2 DEF BusPart
  <2>5. ReadPart' /\ SetPart'
    BY <1>1, <1>8, <2>1 DEF ReadPart, SetPart
  <2>6. QED
    BY <1>2, <1>6, <2>3, <2>4, <2>5 DEF ClockInv
<1>10. CASE ~(n + 1 < xfer.rx) /\ C!Finish(0)
  <2>1. /\ DOMAIN xfer' = {"tx", "rx", "at", "i"} /\ xfer'.at = "idle" /\ ret' = 0
        /\ DOMAIN slave' = {"dir", "ptr"} /\ slave'.dir = "none"
    BY <1>10, FinishIs DEF ClockInv
  <2>2. n = 6
    BY <1>3, <1>10
  <2>3. \A r \in Regs : r < n + 1
    BY <2>2 DEF Regs
  <2>4. rtc_reg' = latch'
    BY <1>1, <1>4, <1>7, <1>8, <2>3
  <2>5. ClockType'
    BY <1>1, <1>2, <1>7, <2>1 DEF ClockInv, ClockType
  <2>6. BusPart'
    BY <2>1 DEF BusPart
  <2>7. ReadPart' /\ SetPart'
    BY <1>2, <1>3, <2>1, <2>4 DEF ReadPart, SetPart
  <2>8. QED
    BY <1>2, <1>6, <2>5, <2>6, <2>7 DEF ClockInv
<1>11. QED
  BY <1>1, <1>9, <1>10 DEF n

\* The transfer fails: the byte without its acknowledge may yet be in the register.
LEMMA NoAckKeeps ==
    ASSUME ClockInv, C!NoAck, UNCHANGED C!clockVars
    PROVE  ClockInv'
<1>1. /\ xfer.at \in {"sla_w", "sla_r", "tx"} /\ (xfer.at = "tx" => xfer.i < Len(xfer.tx))
      /\ C!Finish(-1) /\ rtc_reg' = rtc_reg /\ latch' = latch
      /\ \/ chip' = chip
         \/ xfer.at = "tx" /\ slave.dir = "in" /\ chip' = [chip EXCEPT ![slave.ptr] = xfer.tx[xfer.i + 1]]
  BY DEF C!NoAck, C!Stage
<1>2. /\ ModePart' /\ ShowPart' /\ TimeForm' /\ DOMAIN lcd' = {"time", "msg"}
      /\ pc' = pc /\ t' = t
      /\ pc \in {"sq_wave", "first", "get", "set"}
      /\ pc \notin {"sq_wave", "first"} => TimeInRange'
  BY <1>1, Waits
<1>3. /\ DOMAIN xfer' = {"tx", "rx", "at", "i"} /\ xfer'.at = "idle" /\ ret' = -1
      /\ DOMAIN slave' = {"dir", "ptr"} /\ slave'.dir = "none"
  BY <1>1, FinishIs DEF ClockInv
<1>4. DOMAIN chip' = 0 .. 7 /\ InRange(chip')
  <2>1. CASE chip' = chip
    BY <2>1 DEF ClockInv, ClockType, RangePart, InRange
  <2>2. CASE xfer.at = "tx" /\ slave.dir = "in" /\ chip' = [chip EXCEPT ![slave.ptr] = xfer.tx[xfer.i + 1]]
    BY <1>1, <2>2, TakenIs
  <2>3. QED
    BY <1>1, <2>1, <2>2
<1>5. ClockType'
  BY <1>1, <1>2, <1>3, <1>4 DEF ClockInv, ClockType
<1>6. BusPart'
  BY <1>3 DEF BusPart
<1>7. ReadPart' /\ SetPart'
  <2>1. ret' # 0
    BY <1>3
  <2>2. QED
    BY <1>3, <2>1 DEF ReadPart, SetPart
<1>8. RangePart'
  BY <1>1, <1>2, <1>4 DEF ClockInv, RangePart, InRange
<1>9. QED
  BY <1>2, <1>5, <1>6, <1>7, <1>8 DEF ClockInv

-----------------------------------------------------------------------------
\* The steps of clock.c.
LEMMA BlankIs ==
    DOMAIN C!Blank = {"time", "msg"}
BY DEF C!Blank

LEMMA IdleWhen ==
    ASSUME ClockInv, pc \notin {"sq_wave", "first", "get", "set"}
    PROVE  xfer.at = "idle"
BY DEF ClockInv, BusPart, Calling

\* A call begins: nothing of the DS1307 has changed, and the slave is not addressed.
LEMMA Begins ==
    ASSUME ClockInv, xfer.at = "idle", NEW tx, NEW rx, C!Call(tx, rx)
    PROVE  /\ xfer'.tx = tx /\ xfer'.rx = rx
           /\ Calling' => BusPart'
           /\ ReadPart' /\ SetPart' /\ InRange(chip') /\ InRange(latch')
           /\ TimeForm' /\ DOMAIN lcd' = {"time", "msg"} /\ pc' \in {"sq_wave", "first", "get", "set"} => ClockType'
<1>1. /\ DOMAIN xfer' = {"tx", "rx", "at", "i"}
      /\ xfer'.tx = tx /\ xfer'.rx = rx /\ xfer'.at = "start" /\ xfer'.i = 0
      /\ rtc_reg' = rtc_reg /\ ret' = ret /\ chip' = chip /\ latch' = latch /\ slave' = slave
  BY CallIs
<1>2. slave.dir = "none"
  BY DEF ClockInv, BusPart
<1>3. Calling' => BusPart'
  BY <1>1, <1>2 DEF BusPart
<1>4. ReadPart' /\ SetPart'
  BY <1>1 DEF ReadPart, SetPart
<1>5. InRange(chip') /\ InRange(latch')
  BY <1>1 DEF ClockInv, RangePart, InRange
<1>6. TimeForm' /\ DOMAIN lcd' = {"time", "msg"} /\ pc' \in {"sq_wave", "first", "get", "set"} => ClockType'
  BY <1>1 DEF ClockInv, ClockType
<1>7. QED
  BY <1>1, <1>3, <1>4, <1>5, <1>6

\* A step without a call, while none is under way and not to where one has been made.
LEMMA NoCallIs ==
    ASSUME ClockInv, xfer.at = "idle", UNCHANGED C!busVars,
           TimeForm', DOMAIN lcd' = {"time", "msg"}, pc' \in {"dead", "loop", "edit", "download"}
    PROVE  ClockType' /\ BusPart' /\ ReadPart' /\ SetPart' /\ InRange(chip') /\ InRange(latch')
<1>1. /\ xfer' = xfer /\ rtc_reg' = rtc_reg /\ ret' = ret /\ chip' = chip /\ latch' = latch /\ slave' = slave
  BY DEF C!busVars
<1>2. ClockType'
  BY <1>1 DEF ClockInv, ClockType
<1>3. BusPart'
  BY <1>1 DEF ClockInv, BusPart
<1>4. ReadPart' /\ SetPart'
  BY <1>1 DEF ReadPart, SetPart
<1>5. InRange(chip') /\ InRange(latch')
  BY <1>1 DEF ClockInv, RangePart, InRange
<1>6. QED
  BY <1>2, <1>3, <1>4, <1>5

\* The time read out.
LEMMA ReadOutIs ==
    ASSUME ClockInv, xfer.at = "idle", pc \in {"first", "get"}, ret = 0, C!ReadOut
    PROVE  TimeForm' /\ TimeInRange' /\ t' = C!Decoded(latch) /\ is_halted' = C!Halted(latch)
<1>1. rtc_reg = latch /\ InRange(latch)
  BY DEF ClockInv, ReadPart, RangePart
<1>2. t' = C!Decoded(latch) /\ is_halted' = C!Halted(latch)
  BY <1>1 DEF C!ReadOut
<1>3. TimeForm'
  BY <1>2, DecodedIs DEF TimeForm
<1>4. TimeInRange'
  BY <1>1, <1>2 DEF TimeInRange, InRange
<1>5. QED
  BY <1>2, <1>3, <1>4

LEMMA BootKeeps ==
    ASSUME ClockInv, C!Boot
    PROVE  ClockInv'
<1>1. /\ pc = "boot" /\ pc' = "sq_wave" /\ C!Call(<<7, 16>>, 0)
      /\ cur_mode' = cur_mode /\ cur_set_mode' = cur_set_mode /\ t' = t /\ lcd' = lcd
  BY DEF C!Boot, C!rtc_set_sq_wave, C!Control
<1>2. xfer.at = "idle"
  BY <1>1, IdleWhen
<1>3. TimeForm' /\ DOMAIN lcd' = {"time", "msg"}
  BY <1>1 DEF ClockInv, ClockType, TimeForm
<1>4. /\ xfer'.tx = <<7, 16>> /\ xfer'.rx = 0 /\ (Calling' => BusPart')
      /\ ReadPart' /\ SetPart' /\ InRange(chip') /\ InRange(latch') /\ ClockType'
  BY <1>1, <1>2, <1>3, Begins
<1>5. Calling'
  BY <1>1, <1>4 DEF Calling
<1>6. ModePart' /\ ShowPart' /\ RangePart'
  BY <1>1, <1>4 DEF ClockInv, ModePart, ShowPart, RangePart
<1>7. QED
  BY <1>4, <1>5, <1>6 DEF ClockInv

LEMMA FirstGetKeeps ==
    ASSUME ClockInv, C!FirstGet
    PROVE  ClockInv'
<1>1. /\ pc = "sq_wave" /\ xfer.at = "idle" /\ pc' = "first" /\ C!Call(<<0>>, 7)
      /\ cur_mode' = cur_mode /\ cur_set_mode' = cur_set_mode /\ t' = t /\ lcd' = C!Blank
  BY DEF C!FirstGet, C!rtc_get, C!Returned
<1>2. TimeForm' /\ DOMAIN lcd' = {"time", "msg"}
  BY <1>1, BlankIs DEF ClockInv, ClockType, TimeForm
<1>3. /\ xfer'.tx = <<0>> /\ xfer'.rx = 7 /\ (Calling' => BusPart')
      /\ ReadPart' /\ SetPart' /\ InRange(chip') /\ InRange(latch') /\ ClockType'
  BY <1>1, <1>2, Begins
<1>4. Calling'
  BY <1>1, <1>3 DEF Calling
<1>5. ModePart' /\ ShowPart' /\ RangePart'
  BY <1>1, <1>3 DEF ClockInv, ModePart, ShowPart, RangePart
<1>6. QED
  BY <1>3, <1>4, <1>5 DEF ClockInv

LEMMA FirstGotKeeps ==
    ASSUME ClockInv, C!FirstGot
    PROVE  ClockInv'
<1>1. pc = "first" /\ xfer.at = "idle" /\ UNCHANGED C!busVars
  BY DEF C!FirstGot, C!Returned, C!NoCall
<1>2. cur_set_mode = 0 \/ cur_mode # "display"
  BY DEF ClockInv, ModePart
<1>3. CASE ret # 0
  <2>1. /\ pc' = "dead" /\ lcd' = [lcd EXCEPT !.msg = "no_clock"]
        /\ cur_mode' = cur_mode /\ cur_set_mode' = cur_set_mode /\ t' = t
    BY <1>3 DEF C!FirstGot
  <2>2. TimeForm' /\ DOMAIN lcd' = {"time", "msg"}
    BY <2>1 DEF ClockInv, ClockType, TimeForm
  <2>3. ClockType' /\ BusPart' /\ ReadPart' /\ SetPart' /\ InRange(chip') /\ InRange(latch')
    BY <1>1, <2>1, <2>2, NoCallIs
  <2>4. ModePart' /\ ShowPart' /\ RangePart'
    BY <1>1, <2>1, <2>3 DEF ClockInv, ModePart, ShowPart, RangePart
  <2>5. QED
    BY <2>3, <2>4 DEF ClockInv
<1>4. CASE ret = 0
  <2>1. /\ pc' = "loop" /\ C!ReadOut
        /\ C!set_clock_mode(IF is_halted' THEN "setting" ELSE "display")
    BY <1>4 DEF C!FirstGot
  <2>2. TimeForm' /\ TimeInRange'
    BY <1>1, <1>4, <2>1, ReadOutIs
  <2>3. /\ cur_mode' \in {"display", "setting"} /\ lcd' = C!Blank /\ cur_set_mode' \in {0, cur_set_mode}
        /\ cur_mode' = "display" => cur_set_mode' = 0
    BY <2>1 DEF C!set_clock_mode
  <2>4. DOMAIN lcd' = {"time", "msg"}
    BY <2>3, BlankIs
  <2>5. ClockType' /\ BusPart' /\ ReadPart' /\ SetPart' /\ InRange(chip') /\ InRange(latch')
    BY <1>1, <2>1, <2>2, <2>4, NoCallIs
  <2>6. cur_set_mode \in 0 .. 6 /\ 0 \in 0 .. 6
    BY <1>1 DEF ClockInv, ModePart
  <2>7. ModePart' /\ ShowPart' /\ RangePart'
    BY <2>1, <2>2, <2>3, <2>5, <2>6 DEF ModePart, ShowPart, RangePart
  <2>8. QED
    BY <2>5, <2>7 DEF ClockInv
<1>5. QED
  BY <1>3, <1>4

LEMMA GetKeeps ==
    ASSUME ClockInv, C!Get
    PROVE  ClockInv'
<1>1. /\ pc = "loop" /\ cur_mode = "display" /\ pc' = "get" /\ C!Call(<<0>>, 7)
      /\ cur_mode' = cur_mode /\ cur_set_mode' = cur_set_mode /\ t' = t /\ lcd' = lcd
  BY DEF C!Get, C!rtc_get
<1>2. xfer.at = "idle"
  BY <1>1, IdleWhen
<1>3. TimeForm' /\ DOMAIN lcd' = {"time", "msg"}
  BY <1>1 DEF ClockInv, ClockType, TimeForm
<1>4. /\ xfer'.tx = <<0>> /\ xfer'.rx = 7 /\ (Calling' => BusPart')
      /\ ReadPart' /\ SetPart' /\ InRange(chip') /\ InRange(latch') /\ ClockType'
  BY <1>1, <1>2, <1>3, Begins
<1>5. Calling'
  BY <1>1, <1>4 DEF Calling
<1>6. TimeInRange'
  BY <1>1 DEF ClockInv, RangePart, TimeInRange
<1>7. ModePart' /\ ShowPart' /\ RangePart'
  BY <1>1, <1>4, <1>6 DEF ClockInv, ModePart, ShowPart, RangePart
<1>8. QED
  BY <1>4, <1>5, <1>7 DEF ClockInv

LEMMA GotKeeps ==
    ASSUME ClockInv, C!Got
    PROVE  ClockInv'
<1>1. pc = "get" /\ xfer.at = "idle" /\ UNCHANGED C!busVars /\ cur_mode = "display"
  BY DEF ClockInv, ModePart, C!Got, C!Returned, C!NoCall
<1>2. cur_set_mode = 0 /\ 0 \in 0 .. 6
  BY <1>1 DEF ClockInv, ModePart
<1>3. latch' = latch /\ ret' = ret
  BY <1>1 DEF C!busVars
<1>4. CASE ret # 0
  <2>1. /\ pc' = "download" /\ lcd' = [lcd EXCEPT !.msg = "not_read"]
        /\ cur_mode' = cur_mode /\ cur_set_mode' = cur_set_mode /\ t' = t
    BY <1>4 DEF C!Got
  <2>2. TimeForm' /\ DOMAIN lcd' = {"time", "msg"}
    BY <2>1 DEF ClockInv, ClockType, TimeForm
  <2>3. ClockType' /\ BusPart' /\ ReadPart' /\ SetPart' /\ InRange(chip') /\ InRange(latch')
    BY <1>1, <2>1, <2>2, NoCallIs
  <2>4. TimeInRange'
    BY <1>1, <2>1 DEF ClockInv, RangePart, TimeInRange
  <2>5. ModePart' /\ ShowPart' /\ RangePart'
    BY <1>1, <1>2, <1>3, <1>4, <2>1, <2>3, <2>4 DEF ModePart, ShowPart, RangePart
  <2>6. QED
    BY <2>3, <2>5 DEF ClockInv
<1>5. CASE ret = 0
  <2>1. /\ C!ReadOut
        /\ \/ is_halted' /\ pc' = "edit" /\ C!set_clock_mode("setting")
           \/ /\ ~is_halted' /\ pc' = "download" /\ lcd' = [lcd EXCEPT !.time = t']
              /\ cur_mode' = cur_mode /\ cur_set_mode' = cur_set_mode
    BY <1>5 DEF C!Got, C!display_date_n_time
  <2>2. TimeForm' /\ TimeInRange' /\ t' = C!Decoded(latch) /\ is_halted' = C!Halted(latch)
    BY <1>1, <1>5, <2>1, ReadOutIs
  <2>3. CASE is_halted' /\ pc' = "edit" /\ C!set_clock_mode("setting")
    <3>1. cur_mode' = "setting" /\ lcd' = C!Blank /\ cur_set_mode' = cur_set_mode
      BY <2>3 DEF C!set_clock_mode
    <3>2. DOMAIN lcd' = {"time", "msg"}
      BY <3>1, BlankIs
    <3>3. ClockType' /\ BusPart' /\ ReadPart' /\ SetPart' /\ InRange(chip') /\ InRange(latch')
      BY <1>1, <2>2, <2>3, <3>2, NoCallIs
    <3>4. ModePart' /\ ShowPart' /\ RangePart'
      BY <1>2, <2>2, <2>3, <3>1, <3>3 DEF ModePart, ShowPart, RangePart
    <3>5. QED
      BY <3>3, <3>4 DEF ClockInv
  <2>4. CASE /\ ~is_halted' /\ pc' = "download" /\ lcd' = [lcd EXCEPT !.time = t']
             /\ cur_mode' = cur_mode /\ cur_set_mode' = cur_set_mode
    <3>1. DOMAIN lcd' = {"time", "msg"} /\ lcd'.time = t'
      BY <2>4 DEF ClockInv, ClockType
    <3>2. ClockType' /\ BusPart' /\ ReadPart' /\ SetPart' /\ InRange(chip') /\ InRange(latch')
      BY <1>1, <2>2, <2>4, <3>1, NoCallIs
    <3>3. lcd'.time = C!Decoded(latch') /\ ~C!Halted(latch')
      BY <1>3, <2>2, <2>4, <3>1
    <3>4. ModePart' /\ ShowPart' /\ RangePart'
      BY <1>1, <1>2, <2>2, <2>4, <3>2, <3>3 DEF ModePart, ShowPart, RangePart
    <3>5. QED
      BY <3>2, <3>4 DEF ClockInv
  <2>5. QED
    BY <2>1, <2>3, <2>4
<1>6. QED
  BY <1>4, <1>5

\* BUTTON counts a value up within its range.
LEMMA EditKeeps ==
    ASSUME ClockInv, C!Edit
    PROVE  ClockInv'
<1> DEFINE f == C!SetModes[cur_set_mode + 1]
<1>1. /\ pc \in {"edit", "loop"} /\ (pc = "loop" => cur_mode = "setting")
      /\ pc' = "download" /\ UNCHANGED C!busVars
      /\ cur_mode' = cur_mode /\ cur_set_mode' = cur_set_mode
      /\ lcd' = [lcd EXCEPT !.time = t]
      /\ \/ t' = [t EXCEPT ![f] = IF t[f] = C!Last[f] THEN C!First[f] ELSE (t[f] + 1) % 256]
         \/ t' = t
  BY DEF C!Edit, C!NoCall, C!display_date_n_time
<1>2. cur_mode = "setting" /\ cur_set_mode \in 0 .. 6
  BY <1>1 DEF ClockInv, ModePart
<1>3. xfer.at = "idle"
  BY <1>1, IdleWhen
<1>4. f \in C!Fields
  <2>1. cur_set_mode \in {0, 1, 2, 3, 4, 5, 6}
    BY <1>2
  <2>2. QED
    BY <2>1 DEF C!SetModes, C!Fields
<1>5. t = [g \in C!Fields |-> t[g]] /\ \A g \in C!Fields : t[g] \in C!First[g] .. C!Last[g]
  BY <1>1 DEF ClockInv, ClockType, TimeForm, RangePart, TimeInRange
<1> HIDE DEF f
<1>6. TimeForm' /\ TimeInRange'
  <2>1. CASE t' = t
    BY <1>5, <2>1 DEF TimeForm, TimeInRange
  <2>2. CASE t' = [t EXCEPT ![f] = IF t[f] = C!Last[f] THEN C!First[f] ELSE (t[f] + 1) % 256]
    <3>1. /\ t' = [g \in C!Fields |-> t'[g]]
          /\ t'[f] = IF t[f] = C!Last[f] THEN C!First[f] ELSE (t[f] + 1) % 256
          /\ \A g \in C!Fields : g # f => t'[g] = t[g]
      BY <1>4, <1>5, <2>2
    <3>2. C!First[f] \in 0 .. 1 /\ C!Last[f] \in 7 .. 99
      BY <1>4 DEF C!First, C!Last, C!Fields
    <3>3. \A x, a, b \in Int : (a \in 0 .. 1 /\ b \in 7 .. 99 /\ x \in a .. b) =>
              (IF x = b THEN a ELSE (x + 1) % 256) \in a .. b
      OBVIOUS
    <3>4. t[f] \in Int /\ C!First[f] \in Int /\ C!Last[f] \in Int /\ t[f] \in C!First[f] .. C!Last[f]
      BY <1>4, <1>5, <3>2
    <3>5. t'[f] \in C!First[f] .. C!Last[f]
      BY ONLY <3>1, <3>2, <3>3, <3>4
    <3>6. QED
      BY <1>5, <3>1, <3>5 DEF TimeForm, TimeInRange
  <2>3. QED
    BY <1>1, <2>1, <2>2 DEF f
<1>7. DOMAIN lcd' = {"time", "msg"}
  BY <1>1 DEF ClockInv, ClockType
<1>8. ClockType' /\ BusPart' /\ ReadPart' /\ SetPart' /\ InRange(chip') /\ InRange(latch')
  BY <1>1, <1>3, <1>6, <1>7, NoCallIs
<1>9. ModePart' /\ ShowPart' /\ RangePart'
  BY <1>1, <1>2, <1>6, <1>8 DEF ModePart, ShowPart, RangePart
<1>10. QED
  BY <1>8, <1>9 DEF ClockInv

LEMMA DownloadUpKeeps ==
    ASSUME ClockInv, C!DownloadUp
    PROVE  ClockInv'
<1>1. /\ pc = "download" /\ pc' = "loop" /\ UNCHANGED C!busVars
      /\ cur_mode' = cur_mode /\ cur_set_mode' = cur_set_mode /\ t' = t /\ lcd' = lcd
  BY DEF C!DownloadUp, C!NoCall
<1>2. xfer.at = "idle"
  BY <1>1, IdleWhen
<1>3. TimeForm' /\ DOMAIN lcd' = {"time", "msg"}
  BY <1>1 DEF ClockInv, ClockType, TimeForm
<1>4. ClockType' /\ BusPart' /\ ReadPart' /\ SetPart' /\ InRange(chip') /\ InRange(latch')
  BY <1>1, <1>2, <1>3, NoCallIs
<1>5. TimeInRange'
  BY <1>1 DEF ClockInv, RangePart, TimeInRange
<1>6. ModePart' /\ ShowPart' /\ RangePart'
  BY <1>1, <1>4, <1>5 DEF ClockInv, ModePart, ShowPart, RangePart
<1>7. QED
  BY <1>4, <1>6 DEF ClockInv

\* DOWNLOAD: to the setting, to the next value, and after the seventh to rtc_set().
LEMMA DownloadDownKeeps ==
    ASSUME ClockInv, C!DownloadDown
    PROVE  ClockInv'
<1>1. /\ pc = "download" /\ t' = t
      /\ \/ cur_mode = "display" /\ C!set_clock_mode("setting") /\ pc' = "loop" /\ UNCHANGED C!busVars
         \/ /\ cur_mode = "setting" /\ cur_set_mode + 1 < 7 /\ cur_set_mode' = cur_set_mode + 1 /\ pc' = "loop"
            /\ cur_mode' = cur_mode /\ lcd' = lcd /\ UNCHANGED C!busVars
         \/ /\ cur_mode = "setting" /\ pc' = "set" /\ cur_mode' = cur_mode /\ lcd' = lcd
            /\ C!Call(SetBytes, 0)
  BY DEF C!DownloadDown, C!NoCall, C!rtc_set, SetBytes, C!total_set_modes, C!SetModes
<1>2. xfer.at = "idle" /\ cur_set_mode \in 0 .. 6 /\ (cur_mode = "display" => cur_set_mode = 0)
  BY <1>1, IdleWhen DEF ClockInv, ModePart
<1>3. TimeForm' /\ TimeInRange' /\ DOMAIN lcd = {"time", "msg"}
  BY <1>1 DEF ClockInv, ClockType, TimeForm, RangePart, TimeInRange
<1>4. CASE cur_mode = "display" /\ C!set_clock_mode("setting") /\ pc' = "loop" /\ UNCHANGED C!busVars
  <2>1. cur_mode' = "setting" /\ lcd' = C!Blank /\ cur_set_mode' = cur_set_mode
    BY <1>4 DEF C!set_clock_mode
  <2>2. DOMAIN lcd' = {"time", "msg"}
    BY <2>1, BlankIs
  <2>3. ClockType' /\ BusPart' /\ ReadPart' /\ SetPart' /\ InRange(chip') /\ InRange(latch')
    BY <1>2, <1>3, <1>4, <2>2, NoCallIs
  <2>4. ModePart' /\ ShowPart' /\ RangePart'
    BY <1>2, <1>3, <1>4, <2>1, <2>3 DEF ModePart, ShowPart, RangePart
  <2>5. QED
    BY <2>3, <2>4 DEF ClockInv
<1>5. CASE /\ cur_mode = "setting" /\ cur_set_mode + 1 < 7 /\ cur_set_mode' = cur_set_mode + 1 /\ pc' = "loop"
           /\ cur_mode' = cur_mode /\ lcd' = lcd /\ UNCHANGED C!busVars
  <2>1. ClockType' /\ BusPart' /\ ReadPart' /\ SetPart' /\ InRange(chip') /\ InRange(latch')
    BY <1>2, <1>3, <1>5, NoCallIs
  <2>2. cur_set_mode' \in 0 .. 6
    BY <1>2, <1>5
  <2>3. ModePart' /\ ShowPart' /\ RangePart'
    BY <1>3, <1>5, <2>1, <2>2 DEF ModePart, ShowPart, RangePart
  <2>4. QED
    BY <2>1, <2>3 DEF ClockInv
<1>6. CASE /\ cur_mode = "setting" /\ pc' = "set" /\ cur_mode' = cur_mode /\ lcd' = lcd
           /\ C!Call(SetBytes, 0)
  <2>1. /\ xfer'.tx = SetBytes /\ xfer'.rx = 0 /\ (Calling' => BusPart')
        /\ ReadPart' /\ SetPart' /\ InRange(chip') /\ InRange(latch') /\ ClockType'
    <3> HIDE DEF SetBytes
    <3>1. QED
      BY <1>2, <1>3, <1>6, Begins
  <2>2. SetBytes' = SetBytes
    BY <1>1 DEF SetBytes
  <2>3. Calling'
    BY <1>6, <2>1, <2>2 DEF Calling
  <2>4. ModePart' /\ ShowPart' /\ RangePart'
    BY <1>3, <1>6, <2>1 DEF ModePart, ShowPart, RangePart
  <2>5. QED
    BY <2>1, <2>3, <2>4 DEF ClockInv
<1>7. QED
  BY <1>1, <1>4, <1>5, <1>6

LEMMA SetDoneKeeps ==
    ASSUME ClockInv, C!SetDone
    PROVE  ClockInv'
<1>1. /\ pc = "set" /\ xfer.at = "idle" /\ UNCHANGED C!busVars /\ t' = t /\ pc' = "loop"
      /\ cur_mode' = "display" /\ lcd' = C!Blank /\ cur_set_mode' = 0
  BY DEF C!SetDone, C!Returned, C!NoCall, C!set_clock_mode
<1>2. TimeForm' /\ TimeInRange'
  BY <1>1 DEF ClockInv, ClockType, TimeForm, RangePart, TimeInRange
<1>3. DOMAIN lcd' = {"time", "msg"}
  BY <1>1, BlankIs
<1>4. ClockType' /\ BusPart' /\ ReadPart' /\ SetPart' /\ InRange(chip') /\ InRange(latch')
  BY <1>1, <1>2, <1>3, NoCallIs
<1>5. 0 \in 0 .. 6
  OBVIOUS
<1>6. ModePart' /\ ShowPart' /\ RangePart'
  BY <1>1, <1>2, <1>4, <1>5 DEF ModePart, ShowPart, RangePart
<1>7. QED
  BY <1>4, <1>6 DEF ClockInv

\* A second passes in the DS1307.
LEMMA TickKeeps ==
    ASSUME ClockInv, C!Tick
    PROVE  ClockInv'
<1>1. /\ ~(pc = "set" /\ xfer.at = "idle") /\ slave.dir # "in"
      /\ chip' = [r \in DOMAIN chip |-> IF r \in C!TimeRegs THEN C!Encoded(C!NextSecond(C!Decoded(chip)))[r]
                                        ELSE chip[r]]
      /\ xfer' = xfer /\ rtc_reg' = rtc_reg /\ ret' = ret /\ latch' = latch /\ slave' = slave
      /\ pc' = pc /\ cur_mode' = cur_mode /\ cur_set_mode' = cur_set_mode /\ t' = t /\ lcd' = lcd
  BY DEF C!Tick, C!Second, C!Returned, C!clockVars
<1> DEFINE u == C!NextSecond(C!Decoded(chip))
<1>2. DOMAIN chip = 0 .. 7 /\ InRange(chip)
  BY DEF ClockInv, ClockType, RangePart
<1>3. \A f \in C!Fields : u[f] \in C!First[f] .. C!Last[f]
  BY <1>2, NextSecondIs DEF InRange
<1>4. DOMAIN chip' = 0 .. 7 /\ \A r \in Regs : chip'[r] = C!Encoded(u)[r]
  BY <1>1, <1>2 DEF C!TimeRegs, Regs
<1> HIDE DEF u
<1>5. InRange(chip')
  <2> SUFFICES ASSUME NEW f \in C!Fields PROVE C!Decoded(chip')[f] \in C!First[f] .. C!Last[f]
    BY DEF InRange
  <2>1. chip'[C!Reg[f]] = C!Encoded(u)[C!Reg[f]]
    BY <1>4, RegIs
  <2>2. C!Decoded(chip')[f] = u[f]
    BY <1>3, <2>1, Coded
  <2>3. QED
    BY <1>3, <2>2
<1>6. ClockType'
  BY <1>1, <1>4 DEF ClockInv, ClockType, TimeForm
<1>7. SetBytes' = SetBytes
  BY <1>1 DEF SetBytes
<1>8. BusPart'
  <2>1. Calling' = Calling
    BY <1>1, <1>7 DEF Calling
  <2>2. QED
    BY <1>1, <2>1 DEF ClockInv, BusPart
<1>9. ReadPart'
  BY <1>1 DEF ClockInv, ReadPart
<1>10. SetPart'
  <2>1. pc = "set" /\ xfer.at = "tx" => xfer.i = 0
    <3>1. xfer.at = "tx" => ~(xfer.i > 0) /\ xfer.i \in 0 .. Len(xfer.tx) /\ Calling
      BY <1>1 DEF ClockInv, BusPart
    <3>2. xfer.at = "tx" => Len(xfer.tx) \in Nat
      BY <3>1, CallSends
    <3>3. QED
      BY <3>1, <3>2
  <2>2. \A r \in Regs : ~(r + 1 < 0)
    BY DEF Regs
  <2>3. QED
    BY <1>1, <2>1, <2>2 DEF SetPart
<1>11. ModePart' /\ ShowPart'
  BY <1>1 DEF ClockInv, ModePart, ShowPart
<1>12. RangePart'
  BY <1>1, <1>5 DEF ClockInv, RangePart, TimeInRange, InRange
<1>13. QED
  BY <1>6, <1>8, <1>9, <1>10, <1>11, <1>12 DEF ClockInv

-----------------------------------------------------------------------------
\* The invariant holds at power-up, and every step keeps it.
LEMMA ClockInit ==
    ASSUME C!Init
    PROVE  ClockInv
<1>1. /\ pc = "boot" /\ cur_mode = "display" /\ cur_set_mode = 0
      /\ t = C!NoTime /\ lcd = C!Blank
      /\ xfer = C!Idle /\ rtc_reg = [i \in C!TimeRegs |-> 0]
      /\ chip \in Rtc0 /\ latch = [r \in C!TimeRegs |-> chip[r]]
      /\ slave = [dir |-> "none", ptr |-> 0]
  BY DEF C!Init, C!BusInit
<1>2. DOMAIN chip = 0 .. 7 /\ InRange(chip)
  BY <1>1, RtcAssumption DEF InRange
<1>3. /\ DOMAIN xfer = {"tx", "rx", "at", "i"} /\ xfer.at = "idle"
      /\ DOMAIN slave = {"dir", "ptr"} /\ slave.dir = "none"
  BY <1>1 DEF C!Idle
<1>4. rtc_reg = [r \in Regs |-> rtc_reg[r]] /\ latch = [r \in Regs |-> latch[r]]
      /\ \A r \in Regs : latch[r] = chip[r]
  BY <1>1 DEF C!TimeRegs, Regs
<1>5. TimeForm
  BY <1>1 DEF TimeForm, C!NoTime
<1>6. ClockType
  BY <1>1, <1>2, <1>3, <1>4, <1>5, BlankIs DEF ClockType
<1>7. InRange(latch)
  <2> SUFFICES ASSUME NEW f \in C!Fields PROVE C!Decoded(latch)[f] \in C!First[f] .. C!Last[f]
    BY DEF InRange
  <2>1. latch[C!Reg[f]] = chip[C!Reg[f]]
    BY <1>4, RegIs
  <2>2. C!Decoded(latch)[f] = C!Decoded(chip)[f]
    BY <2>1, SameField
  <2>3. QED
    BY <1>2, <2>2 DEF InRange
<1>8. ModePart /\ ShowPart /\ RangePart
  BY <1>1, <1>2, <1>7 DEF ModePart, ShowPart, RangePart
<1>9. BusPart /\ ReadPart /\ SetPart
  BY <1>1, <1>3 DEF BusPart, ReadPart, SetPart
<1>10. QED
  BY <1>6, <1>8, <1>9 DEF ClockInv

LEMMA ClockStep ==
    ASSUME ClockInv, [C!Next]_(C!vars)
    PROVE  ClockInv'
<1>1. CASE UNCHANGED C!vars
  <2>1. /\ pc' = pc /\ cur_mode' = cur_mode /\ cur_set_mode' = cur_set_mode /\ t' = t /\ lcd' = lcd
        /\ xfer' = xfer /\ rtc_reg' = rtc_reg /\ ret' = ret /\ chip' = chip /\ latch' = latch /\ slave' = slave
    BY <1>1 DEF C!vars, C!clockVars, C!busVars
  <2>2. ClockType' /\ ModePart' /\ ReadPart' /\ RangePart' /\ ShowPart'
    BY <2>1 DEF ClockInv, ClockType, TimeForm, ModePart, ReadPart, RangePart, TimeInRange, InRange, ShowPart
  <2>3. SetBytes' = SetBytes
    BY <2>1 DEF SetBytes
  <2>4. Calling' = Calling
    BY <2>1, <2>3 DEF Calling
  <2>5. BusPart' /\ SetPart'
    BY <2>1, <2>4 DEF ClockInv, BusPart, SetPart
  <2>6. QED
    BY <2>2, <2>5 DEF ClockInv
<1>2. CASE C!Transfer
  BY <1>2, SendStartKeeps, SendRestartKeeps, SendAddressKeeps, SendDataKeeps, SentKeeps, RecvDataKeeps,
     NoAckKeeps DEF C!Transfer, C!Twi
<1>3. CASE C!Dead
  BY <1>1, <1>3 DEF C!Dead
<1>4. CASE C!Boot \/ C!FirstGet \/ C!FirstGot \/ C!Get \/ C!Got \/ C!Edit
  BY <1>4, BootKeeps, FirstGetKeeps, FirstGotKeeps, GetKeeps, GotKeeps, EditKeeps
<1>5. CASE C!DownloadUp \/ C!DownloadDown \/ C!SetDone \/ C!Tick
  BY <1>5, DownloadUpKeeps, DownloadDownKeeps, SetDoneKeeps, TickKeeps
<1>6. QED
  BY <1>1, <1>2, <1>3, <1>4, <1>5 DEF C!Next, C!Program

LEMMA ClockAlways == FairSpec => [](app = "clock" => ClockInv)
<1>1. Init => (app = "clock" => ClockInv)
  BY ClockInit DEF Init
<1>2. (app = "clock" => ClockInv) /\ [Next]_vars => (app = "clock" => ClockInv)'
  BY ClockOrStutter, ClockStep
<1>3. QED
  BY <1>1, <1>2, PTL DEF FairSpec

\* The clock shows one instant of the DS1307, however the transfer and the carry
\* through its registers interleave and whichever transfers fail; when rtc_set() reports
\* success every register of the DS1307 holds what was edited, and it runs; and no value
\* leaves its range, after any number of presses and behind any write cut short.
THEOREM ClockAgrees == FairSpec => []RtcAgrees
<1>1. (app = "clock" => ClockInv) => RtcAgrees
  <2> SUFFICES ASSUME ClockInv PROVE C!RtcAgrees /\ C!FieldsInRange
    BY DEF RtcAgrees
  <2>1. (pc = "download" /\ cur_mode = "display" /\ ret = 0) =>
            lcd.time = C!Decoded(latch) /\ ~C!Halted(latch)
    BY DEF ClockInv, ShowPart
  <2>2. ASSUME pc = "set", xfer.at = "idle", ret = 0
        PROVE  C!Decoded(chip) = t /\ ~C!Halted(chip)
    <3>1. \A r \in Regs : chip[r] = C!Encoded(t)[r]
      BY <2>2 DEF ClockInv, SetPart
    <3>2. \A f \in C!Fields : t[f] \in C!First[f] .. C!Last[f]
      BY <2>2 DEF ClockInv, RangePart, TimeInRange
    <3>3. \A f \in C!Fields : C!Decoded(chip)[f] = t[f] /\ (f = "s" => ~C!Halted(chip))
      <4> SUFFICES ASSUME NEW f \in C!Fields
                   PROVE  C!Decoded(chip)[f] = t[f] /\ (f = "s" => ~C!Halted(chip))
        OBVIOUS
      <4>1. chip[C!Reg[f]] = C!Encoded(t)[C!Reg[f]]
        BY <3>1, RegIs
      <4>2. QED
        BY <3>2, <4>1, Coded
    <3> DEFINE now == C!Decoded(chip)
    <3>4. now = [f \in C!Fields |-> now[f]] /\ t = [f \in C!Fields |-> t[f]]
      BY DecodedIs DEF ClockInv, ClockType, TimeForm
    <3>5. "s" \in C!Fields
      BY DEF C!Fields
    <3>6. \A f \in C!Fields : now[f] = t[f]
      BY <3>3
    <3> HIDE DEF now
    <3>7. now = t
      BY <3>4, <3>6
    <3>8. QED
      BY <3>3, <3>5, <3>7 DEF now
  <2>3. C!RtcAgrees
    BY <2>1, <2>2 DEF C!RtcAgrees, C!Returned
  <2>4. C!FieldsInRange
    BY DEF C!FieldsInRange, ClockInv, RangePart, InRange, TimeInRange
  <2>5. QED
    BY <2>3, <2>4
<1>2. QED
  BY <1>1, ClockAlways, PTL

-----------------------------------------------------------------------------
(* Parts of the cube's program. *)

Places == (0 .. 3) \X (0 .. 3) \X (0 .. 3)

Calls ==
    {<<"rand">>, <<"clear">>} \cup ({"wait"} \X (Nat \ {0})) \cup ({"pause"} \X {1000})
      \cup ({"set", "reset"} \X Places)

Sets(call, c) == call[1] = "rand" \/ (call[1] = "set" /\ call[2] = c)
Unsets(call, c) == call[1] = "clear" \/ (call[1] = "reset" /\ call[2] = c)

\* A coordinate set by one of the calls s and not unset by a later one is in the set left.
Leaves(s, left) ==
    \A j \in 1 .. Len(s) : \A c \in Places :
        Sets(s[j], c) => c \in left \/ \E i \in (j + 1) .. Len(s) : Unsets(s[i], c)

Unsetting(s, c) == \E i \in 1 .. Len(s) : Unsets(s[i], c)

Pausing(s, k) == s[k][1] = "pause"

\* A part of a figure.
Piece(s, left) ==
    /\ s \in Seq(Calls) /\ \A k \in 1 .. Len(s) : ~Pausing(s, k)
    /\ Leaves(s, left)

\* Before each pause all that was set is unset.
Tidy(s) ==
    \A k \in 1 .. Len(s) : Pausing(s, k) =>
        \A j \in 1 .. (k - 1) : \A c \in Places :
            Sets(s[j], c) => \E i \in (j + 1) .. (k - 1) : Unsets(s[i], c)

Figures(s) == s \in Seq(Calls) /\ Tidy(s) /\ Leaves(s, {})

LEMMA Joined ==
    ASSUME NEW s \in Seq(Calls), NEW u \in Seq(Calls)
    PROVE  /\ s \o u \in Seq(Calls) /\ Len(s \o u) = Len(s) + Len(u)
           /\ \A j \in 1 .. Len(s) : (s \o u)[j] = s[j]
           /\ \A j \in 1 .. Len(u) : (s \o u)[Len(s) + j] = u[j]
           /\ Len(s) \in Nat /\ Len(u) \in Nat
           /\ \A j \in 1 .. Len(s \o u) : j \in 1 .. Len(s) \/ \E i \in 1 .. Len(u) : j = Len(s) + i
<1>1. /\ s \o u \in Seq(Calls) /\ Len(s \o u) = Len(s) + Len(u) /\ Len(s) \in Nat /\ Len(u) \in Nat
  OBVIOUS
<1>2. \A j \in 1 .. Len(s) : (s \o u)[j] = s[j]
  OBVIOUS
<1>3. \A j \in 1 .. Len(u) : (s \o u)[Len(s) + j] = u[j]
  OBVIOUS
<1>4. ASSUME NEW j \in 1 .. Len(s \o u)
      PROVE  j \in 1 .. Len(s) \/ \E i \in 1 .. Len(u) : j = Len(s) + i
  <2> DEFINE m == Len(s)
             n == Len(u)
  <2>1. m \in Nat /\ n \in Nat /\ j \in 1 .. (m + n)
    BY <1>1
  <2> HIDE DEF m, n
  <2>2. j \in 1 .. m \/ ((j - m) \in 1 .. n /\ j = m + (j - m))
    BY <2>1
  <2>3. j \in 1 .. m \/ \E i \in 1 .. n : j = m + i
    BY <2>2
  <2>4. QED
    BY <2>3 DEF m, n
<1>5. QED
  BY <1>1, <1>2, <1>3, <1>4

\* What a part leaves, the next one may unset.
LEMMA Then ==
    ASSUME NEW s, NEW u, NEW a, NEW b, NEW g,
           Piece(s, a), Piece(u, b), b \subseteq g,
           \A c \in a : c \in g \/ Unsetting(u, c)
    PROVE  Piece(s \o u, g)
<1> DEFINE w == s \o u
           m == Len(s)
           n == Len(u)
<1>1. s \in Seq(Calls) /\ u \in Seq(Calls)
  BY DEF Piece
<1>2. /\ w \in Seq(Calls) /\ Len(w) = m + n /\ m \in Nat /\ n \in Nat
      /\ \A j \in 1 .. m : w[j] = s[j]
      /\ \A j \in 1 .. n : w[m + j] = u[j]
      /\ \A j \in 1 .. Len(w) : j \in 1 .. m \/ \E i \in 1 .. n : j = m + i
  BY ONLY <1>1, Joined
<1>3. /\ \A k \in 1 .. m : ~Pausing(s, k)
      /\ \A k \in 1 .. n : ~Pausing(u, k)
      /\ \A j \in 1 .. m : \A c \in Places :
            Sets(s[j], c) => c \in a \/ \E i \in (j + 1) .. m : Unsets(s[i], c)
      /\ \A j \in 1 .. n : \A c \in Places :
            Sets(u[j], c) => c \in b \/ \E i \in (j + 1) .. n : Unsets(u[i], c)
      /\ \A c \in a : c \in g \/ \E i \in 1 .. n : Unsets(u[i], c)
  BY DEF Piece, Leaves, Unsetting
<1> HIDE DEF w, m, n
<1>4. ASSUME NEW k \in 1 .. Len(w) PROVE ~Pausing(w, k)
  <2>1. CASE k \in 1 .. m
    BY <2>1, <1>2, <1>3 DEF Pausing
  <2>2. CASE \E i \in 1 .. n : k = m + i
    BY <2>2, <1>2, <1>3 DEF Pausing
  <2>3. QED
    BY <2>1, <2>2, <1>2
<1>5. ASSUME NEW j \in 1 .. Len(w), NEW c \in Places, Sets(w[j], c), c \notin g
      PROVE  \E i \in (j + 1) .. Len(w) : Unsets(w[i], c)
  <2>1. CASE j \in 1 .. m
    <3>1. Sets(s[j], c)
      BY <2>1, <1>2, <1>5
    <3>2. CASE c \in a
      <4>1. PICK i \in 1 .. n : Unsets(u[i], c)
        BY <3>2, <1>3, <1>5
      <4>2. Unsets(w[m + i], c) /\ m + i \in (j + 1) .. (m + n)
        BY <4>1, <1>2, <2>1
      <4>3. QED
        BY <4>2, <1>2
    <3>3. CASE c \notin a
      <4>1. PICK i \in (j + 1) .. m : Unsets(s[i], c)
        BY <3>1, <3>3, <2>1, <1>3
      <4>2. Unsets(w[i], c) /\ i \in (j + 1) .. (m + n)
        BY <4>1, <1>2, <2>1
      <4>3. QED
        BY <4>2, <1>2
    <3>4. QED
      BY <3>2, <3>3
  <2>2. CASE \E i \in 1 .. n : j = m + i
    <3>1. PICK h \in 1 .. n : j = m + h
      BY <2>2
    <3>2. Sets(u[h], c) /\ c \notin b
      BY <3>1, <1>2, <1>5
    <3>3. PICK i \in (h + 1) .. n : Unsets(u[i], c)
      BY <3>2, <1>3
    <3>4. Unsets(w[m + i], c) /\ m + i \in (j + 1) .. (m + n)
      BY <3>1, <3>3, <1>2
    <3>5. QED
      BY <3>4, <1>2
  <2>3. QED
    BY <2>1, <2>2, <1>2
<1>6. Piece(w, g)
  BY <1>2, <1>4, <1>5 DEF Piece, Leaves
<1>7. QED
  BY <1>6 DEF w

LEMMA Remainder ==
    ASSUME NEW n \in Nat \ {0}, NEW a \in Int
    PROVE  a % n \in 0 .. (n - 1) /\ a \div n \in Int /\ a = n * (a \div n) + (a % n)
OBVIOUS

LEMMA Quotient ==
    ASSUME NEW n \in Nat \ {0}, NEW q \in Int, NEW r \in 0 .. (n - 1)
    PROVE  (n * q + r) \div n = q /\ (n * q + r) % n = r
OBVIOUS

LEMMA Products ==
    ASSUME NEW n \in Nat, NEW a \in Int, NEW b \in Int, a <= b
    PROVE  n * a <= n * b /\ n * a \in Int /\ n * b \in Int /\ n * a = a * n /\ n * b = b * n
<1>1. n * (b - a) >= 0
  OBVIOUS
<1>2. n * (b - a) = n * b - n * a
  OBVIOUS
<1>3. n * a \in Int /\ n * b \in Int /\ n * a = a * n /\ n * b = b * n
  OBVIOUS
<1>4. QED
  BY <1>1, <1>2, <1>3

LEMMA Sequences ==
    ASSUME NEW n \in Nat, NEW V, NEW s \in [1 .. n -> V]
    PROVE  s \in Seq(V) /\ Len(s) = n
OBVIOUS

\* Rounds of the same length that leave the same.
LEMMA InRounds ==
    ASSUME NEW n \in Nat, NEW size \in Nat \ {0}, NEW rounds, NEW s, NEW a,
           \A k \in 1 .. n : Piece(rounds[k], a) /\ Len(rounds[k]) = size,
           s = [i \in 1 .. (n * size) |-> rounds[((i - 1) \div size) + 1][((i - 1) % size) + 1]]
    PROVE  Piece(s, a)
<1> DEFINE many == n * size
           at_(k, r) == size * (k - 1) + r
<1>1. many \in Nat /\ size * n = many /\ many = n * size
  OBVIOUS
<1> HIDE DEF many
<1>2. ASSUME NEW j \in 1 .. many
      PROVE  \E k \in 1 .. n : \E r \in 1 .. size : j = at_(k, r)
  <2> DEFINE y == j - 1
             q == y \div size
             e == y % size
  <2>1. y \in Int /\ 0 <= y /\ y < many /\ j = y + 1
    BY <1>1
  <2>2. q \in Int /\ e \in 0 .. (size - 1) /\ y = size * q + e
    <3> HIDE DEF y
    <3>1. QED
      BY <2>1, Remainder
  <2> HIDE DEF y, q, e
  <2>3. ~(q <= -1)
    <3> SUFFICES ASSUME q <= -1 PROVE FALSE
      OBVIOUS
    <3>1. size * q <= size * (-1) /\ size * q \in Int
      BY <2>2, Products
    <3> DEFINE x == size * q
    <3>2. size * (-1) = -size
      OBVIOUS
    <3>3. x <= -size /\ x \in Int /\ y = x + e
      BY <3>1, <3>2, <2>2
    <3> HIDE DEF x
    <3>4. QED
      BY <3>3, <2>1, <2>2
  <2>4. ~(q >= n)
    <3> SUFFICES ASSUME q >= n PROVE FALSE
      OBVIOUS
    <3> DEFINE x == size * q
    <3>1. many <= x /\ x \in Int /\ y = x + e
      BY <2>2, <1>1, Products
    <3> HIDE DEF x
    <3>2. QED
      BY <3>1, <1>1, <2>1, <2>2
  <2>5. q + 1 \in 1 .. n /\ e + 1 \in 1 .. size /\ (q + 1) - 1 = q
    BY <2>2, <2>3, <2>4, SMTT(60)
  <2>6. j = at_(q + 1, e + 1)
    <3>1. size * ((q + 1) - 1) = size * q
      BY <2>5
    <3>2. size * q \in Int
      BY <2>2
    <3>3. QED
      BY <3>1, <3>2, <2>1, <2>2
  <2>7. QED
    BY <2>5, <2>6
<1>3. ASSUME NEW k \in 1 .. n, NEW r \in 1 .. size
      PROVE  at_(k, r) \in 1 .. many /\ s[at_(k, r)] = rounds[k][r]
  <2> DEFINE x == size * (k - 1)
             i == at_(k, r)
  <2>1. x >= 0 /\ x \in Int /\ x <= many - size
    <3>1. size * 0 <= x /\ x \in Int /\ size * 0 = 0
      BY Products
    <3>2. x <= size * (n - 1)
      BY Products
    <3>3. size * (n - 1) = many - size
      BY <1>1
    <3>4. QED
      BY <3>1, <3>2, <3>3
  <2>2. i = x + r
    OBVIOUS
  <2> DEFINE q == k - 1
             e == r - 1
  <2>3. q \in Int /\ e \in 0 .. (size - 1)
    OBVIOUS
  <2> HIDE DEF q, e
  <2>4. (size * q + e) \div size = q /\ (size * q + e) % size = e
    BY <2>3, Quotient
  <2>5. (x + (r - 1)) \div size = k - 1 /\ (x + (r - 1)) % size = r - 1
    BY <2>4 DEF q, e
  <2> HIDE DEF x, i
  <2>6. i \in 1 .. many /\ i - 1 = x + (r - 1)
    BY <2>1, <2>2, <1>1
  <2>7. (((i - 1) \div size) + 1) = k /\ (((i - 1) % size) + 1) = r
    BY <2>5, <2>6
  <2>8. s[i] = rounds[((i - 1) \div size) + 1][((i - 1) % size) + 1]
    BY <2>6, <1>1
  <2>9. s[i] = rounds[k][r]
    BY <2>8, <2>7
  <2>10. QED
    BY <2>6, <2>9 DEF i
<1> HIDE DEF at_
<1>4. \A k \in 1 .. n : rounds[k] \in Seq(Calls) /\ \A r \in 1 .. size : rounds[k][r] \in Calls
  <2> SUFFICES ASSUME NEW k \in 1 .. n
               PROVE  rounds[k] \in Seq(Calls) /\ \A r \in 1 .. size : rounds[k][r] \in Calls
    OBVIOUS
  <2> DEFINE v == rounds[k]
  <2>1. v \in Seq(Calls) /\ Len(v) = size
    BY DEF Piece
  <2> HIDE DEF v
  <2>2. \A r \in 1 .. size : v[r] \in Calls
    BY <2>1
  <2>3. QED
    BY <2>1, <2>2 DEF v
<1>5. ASSUME NEW j \in 1 .. many PROVE s[j] \in Calls
  <2>1. PICK k \in 1 .. n, r \in 1 .. size : j = at_(k, r)
    BY <1>2
  <2>2. s[j] = rounds[k][r]
    BY <2>1, <1>3, ZenonT(60)
  <2>3. rounds[k][r] \in Calls
    BY <1>4
  <2>4. QED
    BY <2>2, <2>3
<1>6. s \in Seq(Calls) /\ Len(s) = many
  <2>1. s = [i \in 1 .. many |-> rounds[((i - 1) \div size) + 1][((i - 1) % size) + 1]]
    BY <1>1
  <2>2. DOMAIN s = 1 .. many /\ s = [i \in 1 .. many |-> s[i]]
    BY <2>1
  <2>3. s \in [1 .. many -> Calls]
    BY <2>2, <1>5
  <2>4. QED
    BY <2>3, <1>1, Sequences, ZenonT(60)
<1>7. ASSUME NEW j \in 1 .. many PROVE ~Pausing(s, j)
  <2>1. PICK k \in 1 .. n, r \in 1 .. size : j = at_(k, r)
    BY <1>2
  <2>2. s[j] = rounds[k][r] /\ ~Pausing(rounds[k], r)
    BY <2>1, <1>3 DEF Piece
  <2>3. QED
    BY <2>2 DEF Pausing
<1>8. ASSUME NEW j \in 1 .. many, NEW c \in Places, Sets(s[j], c), c \notin a
      PROVE  \E i \in (j + 1) .. many : Unsets(s[i], c)
  <2>1. PICK k \in 1 .. n, r \in 1 .. size : j = at_(k, r)
    BY <1>2
  <2>2. s[j] = rounds[k][r]
    BY <2>1, <1>3, ZenonT(60)
  <2> DEFINE v == rounds[k]
  <2>3. Leaves(v, a) /\ Len(v) = size /\ Sets(v[r], c)
    BY <2>2, <1>8 DEF Piece
  <2> HIDE DEF v
  <2>4. \E e \in (r + 1) .. size : Unsets(v[e], c)
    BY <2>3, <1>8 DEF Leaves
  <2>5. PICK e \in (r + 1) .. size : Unsets(rounds[k][e], c)
    BY <2>4 DEF v
  <2>6. e \in 1 .. size
    BY <2>5
  <2>7. at_(k, e) \in 1 .. many /\ Unsets(s[at_(k, e)], c)
    BY <2>6, <2>5, <1>3
  <2>8. at_(k, e) > j
    <3> DEFINE x == size * (k - 1)
    <3>1. x \in Int
      OBVIOUS
    <3>2. j = x + r /\ at_(k, e) = x + e
      BY <2>1 DEF at_
    <3> HIDE DEF x
    <3>3. QED
      BY <3>1, <3>2, <2>5
  <2> DEFINE i == at_(k, e)
  <2>9. i \in 1 .. many /\ i > j /\ Unsets(s[i], c)
    BY <2>7, <2>8
  <2> HIDE DEF i
  <2>10. i \in (j + 1) .. many
    BY <2>9, <1>1
  <2>11. QED
    BY <2>9, <2>10
<1>9. QED
  BY <1>6, <1>7, <1>8 DEF Piece, Leaves

-----------------------------------------------------------------------------
Of(coords) == {coords[i] : i \in 1 .. Len(coords)}

LEMMA OneCall ==
    ASSUME NEW call \in Calls, call[1] # "pause"
    PROVE  /\ Piece(<<call>>, Places) /\ Len(<<call>>) = 1
           /\ call[1] \notin {"set", "rand"} => Piece(<<call>>, {})
           /\ call[1] = "clear" => \A c \in Places : Unsetting(<<call>>, c)
<1> DEFINE s == <<call>>
<1>1. s \in Seq(Calls) /\ Len(s) = 1 /\ s[1] = call
  OBVIOUS
<1> HIDE DEF s
<1>2. \A k \in 1 .. Len(s) : s[k] = call
  BY <1>1
<1>3. \A k \in 1 .. Len(s) : ~Pausing(s, k)
  BY <1>2 DEF Pausing
<1>4. Leaves(s, Places)
  BY DEF Leaves
<1>5. call[1] \notin {"set", "rand"} => Leaves(s, {})
  BY <1>2 DEF Leaves, Sets
<1>6. call[1] = "clear" => \A c \in Places : Unsetting(s, c)
  BY <1>1 DEF Unsetting, Unsets
<1>7. /\ Piece(s, Places) /\ Len(s) = 1
      /\ call[1] \notin {"set", "rand"} => Piece(s, {})
      /\ call[1] = "clear" => \A c \in Places : Unsetting(s, c)
  BY <1>1, <1>3, <1>4, <1>5, <1>6 DEF Piece
<1>8. QED
  BY <1>7 DEF s

LEMMA OneWait ==
    ASSUME NEW ms \in Nat \ {0}
    PROVE  Piece(Display(ms), {}) /\ Len(Display(ms)) = 1
<1> DEFINE call == <<"wait", ms>>
<1>1. call \in Calls /\ call[1] = "wait"
  BY DEF Calls
<1> HIDE DEF call
<1>2. Piece(<<call>>, {}) /\ Len(<<call>>) = 1
  BY <1>1, OneCall
<1>3. QED
  BY <1>2 DEF Display, call

LEMMA Setting ==
    ASSUME NEW c \in Places
    PROVE  /\ <<"set", c>> \in Calls /\ <<"reset", c>> \in Calls
           /\ <<"set", c>>[1] # "pause" /\ <<"reset", c>>[1] # "pause"
<1> HIDE DEF Places
<1>1. <<"set", c>> \in {"set", "reset"} \X Places /\ <<"reset", c>> \in {"set", "reset"} \X Places
  OBVIOUS
<1>2. QED
  BY <1>1 DEF Calls

LEMMA EachSet ==
    ASSUME NEW coords \in Seq(Places)
    PROVE  Piece(Each("set", coords), Of(coords))
<1> DEFINE n == Len(coords)
           s == [i \in 1 .. n |-> <<"set", coords[i]>>]
<1>1. n \in Nat /\ \A i \in 1 .. n : coords[i] \in Places
  OBVIOUS
<1>2. \A i \in 1 .. n : s[i] = <<"set", coords[i]>>
  OBVIOUS
<1>3. Of(coords) = {coords[i] : i \in 1 .. n} /\ Each("set", coords) = s
  BY DEF Of, Each
<1>4. DOMAIN s = 1 .. n /\ s = [i \in 1 .. n |-> s[i]]
  OBVIOUS
<1> HIDE DEF n, s
<1>5. ASSUME NEW i \in 1 .. n PROVE s[i] \in Calls /\ ~Pausing(s, i)
  <2> DEFINE c == coords[i]
  <2>1. c \in Places
    BY <1>1
  <2> HIDE DEF c
  <2>2. s[i] = <<"set", c>>
    BY <1>2 DEF c
  <2>3. QED
    BY <2>1, <2>2, Setting DEF Pausing
<1>6. s \in Seq(Calls) /\ Len(s) = n
  <2>1. s \in [1 .. n -> Calls]
    BY <1>4, <1>5
  <2>2. QED
    BY ONLY <2>1, <1>1, Sequences
<1>7. Leaves(s, Of(coords))
  <2>1. ASSUME NEW j \in 1 .. n, NEW c \in Places, Sets(s[j], c) PROVE c \in Of(coords)
    <3>1. c = coords[j]
      BY <2>1, <1>2 DEF Sets
    <3>2. QED
      BY <3>1, <1>3
  <2>2. QED
    BY <2>1, <1>6 DEF Leaves
<1>8. QED
  BY <1>3, <1>5, <1>6, <1>7 DEF Piece

LEMMA EachReset ==
    ASSUME NEW coords \in Seq(Places)
    PROVE  /\ Piece(Each("reset", coords), {})
           /\ \A c \in Of(coords) : Unsetting(Each("reset", coords), c)
<1> DEFINE n == Len(coords)
           s == [i \in 1 .. n |-> <<"reset", coords[i]>>]
<1>1. n \in Nat /\ \A i \in 1 .. n : coords[i] \in Places
  OBVIOUS
<1>2. \A i \in 1 .. n : s[i] = <<"reset", coords[i]>>
  OBVIOUS
<1>3. Of(coords) = {coords[i] : i \in 1 .. n} /\ Each("reset", coords) = s
  BY DEF Of, Each
<1>4. DOMAIN s = 1 .. n /\ s = [i \in 1 .. n |-> s[i]]
  OBVIOUS
<1> HIDE DEF n, s
<1>5. ASSUME NEW i \in 1 .. n PROVE s[i] \in Calls /\ ~Pausing(s, i)
  <2> DEFINE c == coords[i]
  <2>1. c \in Places
    BY <1>1
  <2> HIDE DEF c
  <2>2. s[i] = <<"reset", c>>
    BY <1>2 DEF c
  <2>3. QED
    BY <2>1, <2>2, Setting DEF Pausing
<1>6. s \in Seq(Calls) /\ Len(s) = n
  <2>1. s \in [1 .. n -> Calls]
    BY <1>4, <1>5
  <2>2. QED
    BY ONLY <2>1, <1>1, Sequences
<1>7. Leaves(s, {})
  BY <1>2, <1>6 DEF Leaves, Sets
<1>8. ASSUME NEW c \in Of(coords) PROVE Unsetting(s, c)
  <2>1. PICK i \in 1 .. n : c = coords[i]
    BY <1>3
  <2>2. Unsets(s[i], c)
    BY <2>1, <1>2 DEF Unsets
  <2>3. QED
    BY <2>2, <1>6 DEF Unsetting
<1>9. QED
  BY <1>3, <1>5, <1>6, <1>7, <1>8 DEF Piece

\* A part is followed by coordinates that are set, then reset, and a wait.
Coords(call, coords, ms) == Each(call, coords) \o Display(ms)

LEMMA SetAndWait ==
    ASSUME NEW coords \in Seq(Places), NEW ms \in Nat \ {0}
    PROVE  Piece(Coords("set", coords, ms), Of(coords)) /\ Len(Coords("set", coords, ms)) # 0
<1> DEFINE e == Each("set", coords)
           d == Display(ms)
           u == e \o d
<1>1. Piece(e, Of(coords)) /\ Piece(d, {}) /\ Len(d) = 1
  BY EachSet, OneWait
<1> HIDE DEF e, d
<1>2. Piece(u, Of(coords))
  <2>1. {} \subseteq Of(coords) /\ \A c \in Of(coords) : c \in Of(coords) \/ Unsetting(d, c)
    OBVIOUS
  <2>2. QED
    BY ONLY <1>1, <2>1, Then
<1>3. Len(u) # 0
  <2>1. e \in Seq(Calls) /\ d \in Seq(Calls)
    BY <1>1 DEF Piece
  <2>2. Len(u) = Len(e) + Len(d) /\ Len(e) \in Nat
    BY ONLY <2>1, Joined
  <2>3. QED
    BY <2>2, <1>1
<1>4. QED
  BY <1>2, <1>3 DEF Coords, e, d, u

LEMMA ThenSet ==
    ASSUME NEW s, NEW a, NEW g, NEW coords \in Seq(Places), NEW ms \in Nat \ {0},
           Piece(s, a), a \cup Of(coords) \subseteq g
    PROVE  Piece(s \o Coords("set", coords, ms), g) /\ Len(s \o Coords("set", coords, ms)) # 0
<1> DEFINE u == Coords("set", coords, ms)
           w == s \o u
<1>1. Piece(u, Of(coords)) /\ Len(u) # 0
  BY SetAndWait
<1> HIDE DEF u
<1>2. Piece(w, g)
  <2>1. Of(coords) \subseteq g /\ \A c \in a : c \in g \/ Unsetting(u, c)
    OBVIOUS
  <2>2. QED
    BY ONLY <1>1, Piece(s, a), <2>1, Then
<1>3. Len(w) # 0
  <2>1. s \in Seq(Calls) /\ u \in Seq(Calls)
    BY <1>1 DEF Piece
  <2>2. Len(w) = Len(s) + Len(u) /\ Len(s) \in Nat /\ Len(u) \in Nat
    BY ONLY <2>1, Joined
  <2>3. QED
    BY <2>2, <1>1
<1>4. QED
  BY <1>2, <1>3 DEF u

LEMMA ThenReset ==
    ASSUME NEW s, NEW a, NEW g, NEW coords \in Seq(Places), NEW ms \in Nat \ {0},
           Piece(s, a), a \subseteq g \cup Of(coords)
    PROVE  Piece(s \o Coords("reset", coords, ms), g)
           /\ Len(s \o Coords("reset", coords, ms)) # 0
<1> DEFINE e == Each("reset", coords)
           d == Display(ms)
           u == e \o d
           w == s \o u
<1>1. /\ Piece(e, {}) /\ Piece(d, {}) /\ Len(d) = 1
      /\ \A c \in Of(coords) : Unsetting(e, c)
  BY EachReset, OneWait
<1> HIDE DEF e, d
<1>2. Piece(u, {})
  <2>1. \A c \in {} : c \in {} \/ Unsetting(d, c)
    OBVIOUS
  <2>2. QED
    BY ONLY <1>1, <2>1, Then, {} \subseteq {}
<1>3. e \in Seq(Calls) /\ d \in Seq(Calls)
  BY <1>1 DEF Piece
<1>4. /\ Len(u) = Len(e) + Len(d) /\ Len(e) \in Nat /\ Len(d) \in Nat
      /\ \A j \in 1 .. Len(e) : u[j] = e[j]
  BY ONLY <1>3, Joined
<1> HIDE DEF u
<1>5. \A c \in Of(coords) : Unsetting(u, c)
  <2> SUFFICES ASSUME NEW c \in Of(coords) PROVE Unsetting(u, c)
    OBVIOUS
  <2>1. PICK i \in 1 .. Len(e) : Unsets(e[i], c)
    BY <1>1 DEF Unsetting
  <2>2. Unsets(u[i], c) /\ i \in 1 .. Len(u)
    BY <2>1, <1>4
  <2>3. QED
    BY <2>2 DEF Unsetting
<1>6. Piece(w, g)
  <2>1. {} \subseteq g /\ \A c \in a : c \in g \/ Unsetting(u, c)
    BY <1>5
  <2>2. QED
    BY ONLY <1>2, Piece(s, a), <2>1, Then
<1>7. Len(w) # 0
  <2>1. s \in Seq(Calls) /\ u \in Seq(Calls)
    BY <1>2 DEF Piece
  <2>2. Len(w) = Len(s) + Len(u) /\ Len(s) \in Nat /\ Len(u) \in Nat
    BY ONLY <2>1, Joined
  <2>3. QED
    BY <2>2, <1>4, <1>1
<1>8. QED
  BY <1>6, <1>7 DEF Coords, e, d, u

LEMMA Repeats ==
    ASSUME NEW n \in Nat, NEW calls, NEW a, Piece(calls, a), Len(calls) # 0
    PROVE  Piece(Repeat(n, calls), a)
<1> DEFINE size == Len(calls)
           rounds == [k \in Int |-> calls]
           s == [i \in 1 .. (n * size) |-> rounds[((i - 1) \div size) + 1][((i - 1) % size) + 1]]
<1>1. size \in Nat \ {0}
  BY DEF Piece
<1>2. Repeat(n, calls) = s
  <2>1. ASSUME NEW i \in 1 .. (n * size) PROVE rounds[((i - 1) \div size) + 1] = calls
    <3> DEFINE y == i - 1
    <3>1. y \in Int
      BY <1>1
    <3> HIDE DEF y, size
    <3>2. y \div size \in Int
      BY <3>1, <1>1, Remainder
    <3>3. (y \div size) + 1 \in Int
      BY <3>2
    <3>4. QED
      BY <3>3 DEF y
  <2> HIDE DEF rounds
  <2>2. QED
    BY <2>1 DEF Repeat
<1>3. \A k \in 1 .. n : Piece(rounds[k], a) /\ Len(rounds[k]) = size
  OBVIOUS
<1> HIDE DEF size, rounds
<1>4. s = [i \in 1 .. (n * size) |-> rounds[((i - 1) \div size) + 1][((i - 1) % size) + 1]]
  OBVIOUS
<1> HIDE DEF s
<1>5. Piece(s, a)
  BY ONLY n \in Nat, <1>1, <1>3, <1>4, InRounds
<1>6. QED
  BY <1>2, <1>5

-----------------------------------------------------------------------------
(* The rings and the waves. *)

Loop(big, x) == IF big THEN Big(x) ELSE Small(x)
Ring(x, big) == Of(Loop(big, x))

LEMMA Circle ==
    ASSUME NEW x \in 0 .. 3, NEW big \in BOOLEAN
    PROVE  /\ Loop(big, x) \in Seq(Places)
           /\ \A call : circle(x, big, call) = Coords(call, Loop(big, x), 50)
<1>1. Big(x) \in Seq(Places)
  BY DEF Big, Places
<1>2. Small(x) \in Seq(Places)
  BY DEF Small, Places
<1>3. QED
  BY <1>1, <1>2 DEF Loop, circle, Coords

LEMMA CircleSet ==
    ASSUME NEW s, NEW a, NEW g, NEW x \in 0 .. 3, NEW big \in BOOLEAN,
           Piece(s, a), a \cup Ring(x, big) \subseteq g
    PROVE  Piece(s \o circle(x, big, "set"), g) /\ Len(s \o circle(x, big, "set")) # 0
<1> DEFINE coords == Loop(big, x)
<1>1. coords \in Seq(Places) /\ circle(x, big, "set") = Coords("set", coords, 50)
  BY Circle
<1>2. a \cup Of(coords) \subseteq g
  BY DEF Ring
<1> HIDE DEF coords
<1>3. 50 \in Nat \ {0}
  OBVIOUS
<1>4. QED
  BY ONLY <1>1, <1>2, <1>3, Piece(s, a), ThenSet

LEMMA CircleReset ==
    ASSUME NEW s, NEW a, NEW g, NEW x \in 0 .. 3, NEW big \in BOOLEAN,
           Piece(s, a), a \subseteq g \cup Ring(x, big)
    PROVE  Piece(s \o circle(x, big, "reset"), g) /\ Len(s \o circle(x, big, "reset")) # 0
<1> DEFINE coords == Loop(big, x)
<1>1. coords \in Seq(Places) /\ circle(x, big, "reset") = Coords("reset", coords, 50)
  BY Circle
<1>2. a \subseteq g \cup Of(coords)
  BY DEF Ring
<1> HIDE DEF coords
<1>3. 50 \in Nat \ {0}
  OBVIOUS
<1>4. QED
  BY ONLY <1>1, <1>2, <1>3, Piece(s, a), ThenReset

\* Every ring that is set is reset, but for the last one of the round.
LEMMA RingsTidy == ASSUME Rings \in Nat PROVE Piece(rings, {})
<1> DEFINE e1 == circle(0, TRUE, "set")
           e2 == e1 \o circle(0, FALSE, "reset")
           e3 == e2 \o circle(1, FALSE, "set")
           e4 == e3 \o circle(0, TRUE, "reset")
           e5 == e4 \o circle(2, TRUE, "set")
           e6 == e5 \o circle(1, FALSE, "reset")
           e7 == e6 \o circle(3, FALSE, "set")
           e8 == e7 \o circle(2, TRUE, "reset")
           e9 == e8 \o circle(3, TRUE, "set")
           e10 == e9 \o circle(3, FALSE, "reset")
           e11 == e10 \o circle(2, FALSE, "set")
           e12 == e11 \o circle(3, TRUE, "reset")
           e13 == e12 \o circle(1, TRUE, "set")
           e14 == e13 \o circle(2, FALSE, "reset")
           e15 == e14 \o circle(0, FALSE, "set")
           e16 == e15 \o circle(1, TRUE, "reset")
           last == Ring(0, FALSE)
<1>1. /\ 0 \in 0 .. 3 /\ 1 \in 0 .. 3 /\ 2 \in 0 .. 3 /\ 3 \in 0 .. 3
      /\ TRUE \in BOOLEAN /\ FALSE \in BOOLEAN /\ 50 \in Nat \ {0}
  OBVIOUS
<1>2. Piece(e1, Ring(0, TRUE)) /\ Len(e1) # 0
  <2>1. Loop(TRUE, 0) \in Seq(Places) /\ e1 = Coords("set", Loop(TRUE, 0), 50)
    BY <1>1, Circle, ZenonT(60)
  <2> HIDE DEF e1
  <2>2. QED
    BY <1>1, <2>1, SetAndWait, ZenonT(60) DEF Ring
<1>3. Piece(e2, Ring(0, TRUE)) /\ Len(e2) # 0
  <2> HIDE DEF e1
  <2>1. Ring(0, TRUE) \subseteq (Ring(0, TRUE)) \cup Ring(0, FALSE)
    OBVIOUS
  <2>2. QED
    BY ONLY <1>1, <1>2, <2>1, CircleReset DEF e2
<1>4. Piece(e3, Ring(0, TRUE) \cup Ring(1, FALSE)) /\ Len(e3) # 0
  <2> HIDE DEF e2
  <2>1. (Ring(0, TRUE)) \cup Ring(1, FALSE) \subseteq Ring(0, TRUE) \cup Ring(1, FALSE)
    OBVIOUS
  <2>2. QED
    BY ONLY <1>1, <1>3, <2>1, CircleSet DEF e3
<1>5. Piece(e4, Ring(1, FALSE)) /\ Len(e4) # 0
  <2> HIDE DEF e3
  <2>1. Ring(0, TRUE) \cup Ring(1, FALSE) \subseteq (Ring(1, FALSE)) \cup Ring(0, TRUE)
    OBVIOUS
  <2>2. QED
    BY ONLY <1>1, <1>4, <2>1, CircleReset DEF e4
<1>6. Piece(e5, Ring(1, FALSE) \cup Ring(2, TRUE)) /\ Len(e5) # 0
  <2> HIDE DEF e4
  <2>1. (Ring(1, FALSE)) \cup Ring(2, TRUE) \subseteq Ring(1, FALSE) \cup Ring(2, TRUE)
    OBVIOUS
  <2>2. QED
    BY ONLY <1>1, <1>5, <2>1, CircleSet DEF e5
<1>7. Piece(e6, Ring(2, TRUE)) /\ Len(e6) # 0
  <2> HIDE DEF e5
  <2>1. Ring(1, FALSE) \cup Ring(2, TRUE) \subseteq (Ring(2, TRUE)) \cup Ring(1, FALSE)
    OBVIOUS
  <2>2. QED
    BY ONLY <1>1, <1>6, <2>1, CircleReset DEF e6
<1>8. Piece(e7, Ring(2, TRUE) \cup Ring(3, FALSE)) /\ Len(e7) # 0
  <2> HIDE DEF e6
  <2>1. (Ring(2, TRUE)) \cup Ring(3, FALSE) \subseteq Ring(2, TRUE) \cup Ring(3, FALSE)
    OBVIOUS
  <2>2. QED
    BY ONLY <1>1, <1>7, <2>1, CircleSet DEF e7
<1>9. Piece(e8, Ring(3, FALSE)) /\ Len(e8) # 0
  <2> HIDE DEF e7
  <2>1. Ring(2, TRUE) \cup Ring(3, FALSE) \subseteq (Ring(3, FALSE)) \cup Ring(2, TRUE)
    OBVIOUS
  <2>2. QED
    BY ONLY <1>1, <1>8, <2>1, CircleReset DEF e8
<1>10. Piece(e9, Ring(3, FALSE) \cup Ring(3, TRUE)) /\ Len(e9) # 0
  <2> HIDE DEF e8
  <2>1. (Ring(3, FALSE)) \cup Ring(3, TRUE) \subseteq Ring(3, FALSE) \cup Ring(3, TRUE)
    OBVIOUS
  <2>2. QED
    BY ONLY <1>1, <1>9, <2>1, CircleSet DEF e9
<1>11. Piece(e10, Ring(3, TRUE)) /\ Len(e10) # 0
  <2> HIDE DEF e9
  <2>1. Ring(3, FALSE) \cup Ring(3, TRUE) \subseteq (Ring(3, TRUE)) \cup Ring(3, FALSE)
    OBVIOUS
  <2>2. QED
    BY ONLY <1>1, <1>10, <2>1, CircleReset DEF e10
<1>12. Piece(e11, Ring(3, TRUE) \cup Ring(2, FALSE)) /\ Len(e11) # 0
  <2> HIDE DEF e10
  <2>1. (Ring(3, TRUE)) \cup Ring(2, FALSE) \subseteq Ring(3, TRUE) \cup Ring(2, FALSE)
    OBVIOUS
  <2>2. QED
    BY ONLY <1>1, <1>11, <2>1, CircleSet DEF e11
<1>13. Piece(e12, Ring(2, FALSE)) /\ Len(e12) # 0
  <2> HIDE DEF e11
  <2>1. Ring(3, TRUE) \cup Ring(2, FALSE) \subseteq (Ring(2, FALSE)) \cup Ring(3, TRUE)
    OBVIOUS
  <2>2. QED
    BY ONLY <1>1, <1>12, <2>1, CircleReset DEF e12
<1>14. Piece(e13, Ring(2, FALSE) \cup Ring(1, TRUE)) /\ Len(e13) # 0
  <2> HIDE DEF e12
  <2>1. (Ring(2, FALSE)) \cup Ring(1, TRUE) \subseteq Ring(2, FALSE) \cup Ring(1, TRUE)
    OBVIOUS
  <2>2. QED
    BY ONLY <1>1, <1>13, <2>1, CircleSet DEF e13
<1>15. Piece(e14, Ring(1, TRUE)) /\ Len(e14) # 0
  <2> HIDE DEF e13
  <2>1. Ring(2, FALSE) \cup Ring(1, TRUE) \subseteq (Ring(1, TRUE)) \cup Ring(2, FALSE)
    OBVIOUS
  <2>2. QED
    BY ONLY <1>1, <1>14, <2>1, CircleReset DEF e14
<1>16. Piece(e15, Ring(1, TRUE) \cup Ring(0, FALSE)) /\ Len(e15) # 0
  <2> HIDE DEF e14
  <2>1. (Ring(1, TRUE)) \cup Ring(0, FALSE) \subseteq Ring(1, TRUE) \cup Ring(0, FALSE)
    OBVIOUS
  <2>2. QED
    BY ONLY <1>1, <1>15, <2>1, CircleSet DEF e15
<1>17. Piece(e16, Ring(0, FALSE)) /\ Len(e16) # 0
  <2> HIDE DEF e15
  <2>1. Ring(1, TRUE) \cup Ring(0, FALSE) \subseteq (Ring(0, FALSE)) \cup Ring(1, TRUE)
    OBVIOUS
  <2>2. QED
    BY ONLY <1>1, <1>16, <2>1, CircleReset DEF e16
<1> DEFINE round == Repeat(Rings, e16)
<1>18. rings = round \o circle(0, FALSE, "reset")
  BY DEF rings
<1> HIDE DEF e16
<1>19. Piece(round, last)
  BY ONLY Rings \in Nat, <1>17, Repeats DEF last
<1> HIDE DEF round
<1>20. last \subseteq {} \cup Ring(0, FALSE)
  OBVIOUS
<1>21. Piece(round \o circle(0, FALSE, "reset"), {})
  BY ONLY <1>1, <1>19, <1>20, CircleReset
<1>22. QED
  BY <1>18, <1>21

PlaneSet(y) == Of(Plane(y))

LEMMA XzPlane ==
    ASSUME NEW y \in 0 .. 3
    PROVE  /\ Plane(y) \in Seq(Places)
           /\ \A call : xz_plane(y, call) = Coords(call, Plane(y), 125)
<1>1. \A i \in 1 .. 16 : (i - 1) \div 4 \in 0 .. 3 /\ (i - 1) % 4 \in 0 .. 3
  OBVIOUS
<1>2. \A i \in 1 .. 16 : <<(i - 1) \div 4, y, (i - 1) % 4>> \in Places
  BY <1>1 DEF Places
<1>3. Plane(y) \in [1 .. 16 -> Places]
  BY <1>2 DEF Plane
<1>4. 16 \in Nat
  OBVIOUS
<1>5. Plane(y) \in Seq(Places)
  BY ONLY <1>3, <1>4, Sequences
<1>6. QED
  BY <1>5 DEF xz_plane, Coords

LEMMA XzPlaneSet ==
    ASSUME NEW s, NEW a, NEW g, NEW y \in 0 .. 3,
           Piece(s, a), a \cup PlaneSet(y) \subseteq g
    PROVE  Piece(s \o xz_plane(y, "set"), g) /\ Len(s \o xz_plane(y, "set")) # 0
<1> DEFINE coords == Plane(y)
<1>1. coords \in Seq(Places) /\ xz_plane(y, "set") = Coords("set", coords, 125)
  BY XzPlane
<1>2. a \cup Of(coords) \subseteq g
  BY DEF PlaneSet
<1> HIDE DEF coords
<1>3. 125 \in Nat \ {0}
  OBVIOUS
<1>4. QED
  BY ONLY <1>1, <1>2, <1>3, Piece(s, a), ThenSet

LEMMA XzPlaneReset ==
    ASSUME NEW s, NEW a, NEW g, NEW y \in 0 .. 3,
           Piece(s, a), a \subseteq g \cup PlaneSet(y)
    PROVE  Piece(s \o xz_plane(y, "reset"), g) /\ Len(s \o xz_plane(y, "reset")) # 0
<1> DEFINE coords == Plane(y)
<1>1. coords \in Seq(Places) /\ xz_plane(y, "reset") = Coords("reset", coords, 125)
  BY XzPlane
<1>2. a \subseteq g \cup Of(coords)
  BY DEF PlaneSet
<1> HIDE DEF coords
<1>3. 125 \in Nat \ {0}
  OBVIOUS
<1>4. QED
  BY ONLY <1>1, <1>2, <1>3, Piece(s, a), ThenReset

\* Every plane that is set is reset, but for the last one of the round.
LEMMA WavesTidy == ASSUME Waves \in Nat PROVE Piece(waves, {})
<1> DEFINE e1 == xz_plane(0, "set")
           e2 == e1 \o xz_plane(3, "reset")
           e3 == e2 \o xz_plane(1, "set")
           e4 == e3 \o xz_plane(0, "reset")
           e5 == e4 \o xz_plane(2, "set")
           e6 == e5 \o xz_plane(1, "reset")
           e7 == e6 \o xz_plane(3, "set")
           e8 == e7 \o xz_plane(2, "reset")
<1>1. 0 \in 0 .. 3 /\ 1 \in 0 .. 3 /\ 2 \in 0 .. 3 /\ 3 \in 0 .. 3 /\ 125 \in Nat \ {0}
  OBVIOUS
<1>2. Piece(e1, PlaneSet(0)) /\ Len(e1) # 0
  BY <1>1, XzPlane, SetAndWait DEF PlaneSet
<1>3. Piece(e2, PlaneSet(0)) /\ Len(e2) # 0
  <2> HIDE DEF e1
  <2>1. PlaneSet(0) \subseteq (PlaneSet(0)) \cup PlaneSet(3)
    OBVIOUS
  <2>2. QED
    BY ONLY <1>1, <1>2, <2>1, XzPlaneReset DEF e2
<1>4. Piece(e3, PlaneSet(0) \cup PlaneSet(1)) /\ Len(e3) # 0
  <2> HIDE DEF e2
  <2>1. (PlaneSet(0)) \cup PlaneSet(1) \subseteq PlaneSet(0) \cup PlaneSet(1)
    OBVIOUS
  <2>2. QED
    BY ONLY <1>1, <1>3, <2>1, XzPlaneSet DEF e3
<1>5. Piece(e4, PlaneSet(1)) /\ Len(e4) # 0
  <2> HIDE DEF e3
  <2>1. PlaneSet(0) \cup PlaneSet(1) \subseteq (PlaneSet(1)) \cup PlaneSet(0)
    OBVIOUS
  <2>2. QED
    BY ONLY <1>1, <1>4, <2>1, XzPlaneReset DEF e4
<1>6. Piece(e5, PlaneSet(1) \cup PlaneSet(2)) /\ Len(e5) # 0
  <2> HIDE DEF e4
  <2>1. (PlaneSet(1)) \cup PlaneSet(2) \subseteq PlaneSet(1) \cup PlaneSet(2)
    OBVIOUS
  <2>2. QED
    BY ONLY <1>1, <1>5, <2>1, XzPlaneSet DEF e5
<1>7. Piece(e6, PlaneSet(2)) /\ Len(e6) # 0
  <2> HIDE DEF e5
  <2>1. PlaneSet(1) \cup PlaneSet(2) \subseteq (PlaneSet(2)) \cup PlaneSet(1)
    OBVIOUS
  <2>2. QED
    BY ONLY <1>1, <1>6, <2>1, XzPlaneReset DEF e6
<1>8. Piece(e7, PlaneSet(2) \cup PlaneSet(3)) /\ Len(e7) # 0
  <2> HIDE DEF e6
  <2>1. (PlaneSet(2)) \cup PlaneSet(3) \subseteq PlaneSet(2) \cup PlaneSet(3)
    OBVIOUS
  <2>2. QED
    BY ONLY <1>1, <1>7, <2>1, XzPlaneSet DEF e7
<1>9. Piece(e8, PlaneSet(3)) /\ Len(e8) # 0
  <2> HIDE DEF e7
  <2>1. PlaneSet(2) \cup PlaneSet(3) \subseteq (PlaneSet(3)) \cup PlaneSet(2)
    OBVIOUS
  <2>2. QED
    BY ONLY <1>1, <1>8, <2>1, XzPlaneReset DEF e8
<1> DEFINE round == Repeat(Waves, e8)
<1>10. waves = round \o xz_plane(3, "reset")
  BY DEF waves
<1> HIDE DEF e8
<1>11. Piece(round, PlaneSet(3))
  BY ONLY Waves \in Nat, <1>9, Repeats
<1> HIDE DEF round
<1>12. PlaneSet(3) \subseteq {} \cup PlaneSet(3)
  OBVIOUS
<1>13. Piece(round \o xz_plane(3, "reset"), {})
  BY ONLY <1>1, <1>11, <1>12, XzPlaneReset
<1>14. QED
  BY <1>10, <1>13

-----------------------------------------------------------------------------
(* The pixels at random and one after the other. *)

LEMMA PixelsTidy == ASSUME Pixels \in Nat PROVE Piece(rand_pixel, {})
<1> DEFINE one == <<"rand">>
           all == <<"clear">>
           dis == Display(100)
           e1 == <<one>> \o dis
           e2 == Repeat(Pixels, e1)
           e3 == e2 \o <<all>>
           e4 == e3 \o dis
<1>1. one \in Calls /\ one[1] # "pause"
  BY DEF Calls
<1>2. all \in Calls /\ all[1] = "clear"
  BY DEF Calls
<1> HIDE DEF one, all
<1>3. Piece(<<one>>, Places) /\ Len(<<one>>) = 1
  BY <1>1, OneCall
<1>4. Piece(<<all>>, {}) /\ \A c \in Places : Unsetting(<<all>>, c)
  BY <1>2, OneCall
<1>5. Piece(dis, {}) /\ Len(dis) = 1
  BY OneWait, 100 \in Nat \ {0}
<1> HIDE DEF dis
<1>6. Piece(e1, Places)
  <2>1. {} \subseteq Places /\ \A c \in Places : c \in Places \/ Unsetting(dis, c)
    OBVIOUS
  <2>2. QED
    BY ONLY <1>3, <1>5, <2>1, Then
<1>7. Len(e1) # 0
  <2>1. <<one>> \in Seq(Calls) /\ dis \in Seq(Calls)
    BY <1>3, <1>5 DEF Piece
  <2>2. Len(e1) = Len(<<one>>) + Len(dis)
    BY ONLY <2>1, Joined
  <2>3. QED
    BY <2>2, <1>3, <1>5
<1> HIDE DEF e1
<1>8. Piece(e2, Places)
  BY ONLY Pixels \in Nat, <1>6, <1>7, Repeats
<1> HIDE DEF e2
<1>9. Piece(e3, {})
  <2>1. {} \subseteq {} /\ \A c \in Places : c \in {} \/ Unsetting(<<all>>, c)
    BY <1>4
  <2>2. QED
    BY ONLY <1>4, <1>8, <2>1, Then
<1> HIDE DEF e3
<1>10. Piece(e4, {})
  <2>1. {} \subseteq {} /\ \A c \in {} : c \in {} \/ Unsetting(dis, c)
    OBVIOUS
  <2>2. QED
    BY ONLY <1>9, <1>5, <2>1, Then
<1>11. rand_pixel = e4
  BY DEF rand_pixel, e1, e2, e3, dis, one, all
<1>12. QED
  BY <1>10, <1>11

LEMMA AllPlaces ==
    /\ \A i \in 1 .. 64 : Coordinates[i] \in Places
    /\ \A c \in Places : \E i \in 1 .. 64 : Coordinates[i] = c
<1>1. ASSUME NEW i \in 1 .. 64 PROVE Coordinates[i] \in Places
  <2>1. (i - 1) % 4 \in 0 .. 3 /\ ((i - 1) \div 4) % 4 \in 0 .. 3 /\ (i - 1) \div 16 \in 0 .. 3
    OBVIOUS
  <2>2. QED
    BY <2>1 DEF Coordinates, Places
<1>2. ASSUME NEW c \in Places PROVE \E i \in 1 .. 64 : Coordinates[i] = c
  <2>1. PICK x \in 0 .. 3, y \in 0 .. 3, z \in 0 .. 3 : c = <<x, y, z>>
    BY DEF Places
  <2> DEFINE i == x + 4 * y + 16 * z + 1
  <2>2. i \in 1 .. 64 /\ (i - 1) % 4 = x /\ ((i - 1) \div 4) % 4 = y /\ (i - 1) \div 16 = z
    OBVIOUS
  <2> HIDE DEF i
  <2>3. Coordinates[i] = c
    BY <2>1, <2>2 DEF Coordinates
  <2>4. QED
    BY <2>2, <2>3
<1>3. QED
  BY <1>1, <1>2

LEMMA PerCoordinateCalls ==
    ASSUME NEW call \in {"set", "reset"}, NEW ms \in Nat \ {0}
    PROVE  /\ Piece(PerCoordinate(call, ms), Places) /\ Len(PerCoordinate(call, ms)) = 128
           /\ call = "reset" =>
                /\ Piece(PerCoordinate(call, ms), {})
                /\ \A c \in Places : Unsetting(PerCoordinate(call, ms), c)
<1> DEFINE s == PerCoordinate(call, ms)
<1>1. \A i \in 1 .. 128 : s[i] = IF i % 2 = 1 THEN <<call, Coordinates[(i + 1) \div 2]>> ELSE <<"wait", ms>>
  BY DEF PerCoordinate
<1>2. DOMAIN s = 1 .. 128 /\ s = [i \in 1 .. 128 |-> s[i]]
  BY DEF PerCoordinate
<1> HIDE DEF s
<1>3. ASSUME NEW i \in 1 .. 128
      PROVE  s[i] \in Calls /\ s[i][1] \in {call, "wait"}
  <2>1. CASE i % 2 = 1
    <3> DEFINE c == Coordinates[(i + 1) \div 2]
    <3>1. (i + 1) \div 2 \in 1 .. 64
      BY <2>1
    <3>2. c \in Places
      BY <3>1, AllPlaces, SMTT(60)
    <3> HIDE DEF c
    <3>3. s[i] = <<call, c>>
      BY <1>1, <2>1 DEF c
    <3>4. <<call, c>> \in Calls
      <4>1. call = "set" \/ call = "reset"
        OBVIOUS
      <4>2. QED
        BY <3>2, <4>1, Setting
    <3>5. <<call, c>>[1] = call
      OBVIOUS
    <3>6. QED
      BY <3>3, <3>4, <3>5
  <2>2. CASE i % 2 # 1
    <3>1. s[i] = <<"wait", ms>> /\ <<"wait", ms>> \in Calls
      BY <1>1, <2>2, ZenonT(60) DEF Calls
    <3>2. QED
      BY <3>1, SMTT(60)
  <2>3. QED
    BY <2>1, <2>2
<1>4. s \in Seq(Calls) /\ Len(s) = 128
  <2>1. s \in [1 .. 128 -> Calls]
    BY <1>2, <1>3
  <2>2. 128 \in Nat
    OBVIOUS
  <2>3. QED
    BY ONLY <2>1, <2>2, Sequences, ZenonT(60)
<1>5. \A k \in 1 .. 128 : ~Pausing(s, k)
  BY <1>3 DEF Pausing
<1>6. Leaves(s, Places)
  BY DEF Leaves
<1>7. ASSUME call = "reset" PROVE Leaves(s, {})
  <2>1. \A j \in 1 .. 128 : \A c \in Places : ~Sets(s[j], c)
    BY <1>3, <1>7, ZenonT(60) DEF Sets
  <2>2. 1 .. Len(s) = 1 .. 128
    BY <1>4
  <2>3. \A j \in 1 .. Len(s) : \A c \in Places : ~Sets(s[j], c)
    BY <2>1, <2>2, ZenonT(60)
  <2>4. QED
    BY <2>3 DEF Leaves
<1>8. ASSUME call = "reset", NEW c \in Places PROVE Unsetting(s, c)
  <2>1. PICK i \in 1 .. 64 : Coordinates[i] = c
    BY AllPlaces
  <2>2. 2 * i - 1 \in 1 .. 128 /\ (2 * i - 1) % 2 = 1 /\ ((2 * i - 1) + 1) \div 2 = i
    BY SMTT(60)
  <2>3. s[2 * i - 1] = <<call, c>>
    BY <2>1, <2>2, <1>1
  <2>4. Unsets(s[2 * i - 1], c)
    BY <2>3, <1>8 DEF Unsets
  <2>5. QED
    BY <2>2, <2>4, <1>4, ZenonT(60) DEF Unsetting
<1>9. QED
  BY <1>4, <1>5, <1>6, <1>7, <1>8 DEF Piece, s

LEMMA OnOff ==
    ASSUME NEW s \in Nat \ {0}
    PROVE  Piece(on_off(s), {}) /\ Len(on_off(s)) = 256
<1> DEFINE ms == 4 * s
           e == PerCoordinate("set", ms)
           d == PerCoordinate("reset", ms)
<1>1. ms \in Nat \ {0}
  OBVIOUS
<1> HIDE DEF ms
<1>2. Piece(e, Places) /\ Len(e) = 128
  BY <1>1, PerCoordinateCalls
<1>3. Piece(d, {}) /\ Len(d) = 128 /\ \A c \in Places : Unsetting(d, c)
  BY <1>1, PerCoordinateCalls
<1> HIDE DEF e, d
<1>4. Piece(e \o d, {})
  <2>1. {} \subseteq {} /\ \A c \in Places : c \in {} \/ Unsetting(d, c)
    BY <1>3
  <2>2. QED
    BY ONLY <1>2, <1>3, <2>1, Then
<1>5. Len(e \o d) = 256
  <2>1. e \in Seq(Calls) /\ d \in Seq(Calls)
    BY <1>2, <1>3 DEF Piece
  <2>2. Len(e \o d) = Len(e) + Len(d)
    BY ONLY <2>1, Joined
  <2>3. QED
    BY <2>2, <1>2, <1>3
<1>6. QED
  BY <1>4, <1>5 DEF on_off, e, d, ms

LEMMA OnOffsTidy == ASSUME Speeds \in Nat PROVE Piece(on_offs, {})
<1> DEFINE rounds == [k \in Int |-> on_off(k)]
           s == on_offs
           size == 256
<1>1. \A k \in Int : rounds[k] = on_off(k)
  OBVIOUS
<1> HIDE DEF rounds
<1>2. \A k \in 1 .. Speeds : Piece(rounds[k], {}) /\ Len(rounds[k]) = size
  BY <1>1, OnOff
<1>3. s = [i \in 1 .. (Speeds * size) |-> rounds[((i - 1) \div size) + 1][((i - 1) % size) + 1]]
  <2>1. \A i \in 1 .. (Speeds * size) : rounds[((i - 1) \div 256) + 1] = on_off(((i - 1) \div 256) + 1)
    BY <1>1
  <2>2. QED
    BY <2>1 DEF on_offs
<1>4. size \in Nat \ {0}
  OBVIOUS
<1> HIDE DEF s, size
<1>5. Piece(s, {})
  BY ONLY Speeds \in Nat, <1>2, <1>3, <1>4, InRounds
<1>6. QED
  BY <1>5 DEF s

-----------------------------------------------------------------------------
(* The figures one after the other, each before a pause. *)

LEMMA FiguresJoined ==
    ASSUME NEW s, NEW u, Figures(s), Figures(u), Len(s) # 0
    PROVE  /\ Figures(s \o u) /\ Len(s \o u) = Len(s) + Len(u) /\ Len(s \o u) # 0
           /\ (s \o u)[1] = s[1]
<1> DEFINE w == s \o u
           m == Len(s)
           n == Len(u)
<1>1. s \in Seq(Calls) /\ u \in Seq(Calls)
  BY DEF Figures
<1>2. /\ w \in Seq(Calls) /\ Len(w) = m + n /\ m \in Nat /\ n \in Nat
      /\ \A j \in 1 .. m : w[j] = s[j]
      /\ \A j \in 1 .. n : w[m + j] = u[j]
      /\ \A j \in 1 .. Len(w) : j \in 1 .. m \/ \E i \in 1 .. n : j = m + i
  BY ONLY <1>1, Joined
<1>3. /\ \A j \in 1 .. m : \A c \in Places : Sets(s[j], c) => \E i \in (j + 1) .. m : Unsets(s[i], c)
      /\ \A j \in 1 .. n : \A c \in Places : Sets(u[j], c) => \E i \in (j + 1) .. n : Unsets(u[i], c)
      /\ m # 0
  BY DEF Figures, Leaves
<1>4. /\ \A k \in 1 .. m : Pausing(s, k) =>
            \A j \in 1 .. (k - 1) : \A c \in Places :
                Sets(s[j], c) => \E i \in (j + 1) .. (k - 1) : Unsets(s[i], c)
      /\ \A k \in 1 .. n : Pausing(u, k) =>
            \A j \in 1 .. (k - 1) : \A c \in Places :
                Sets(u[j], c) => \E i \in (j + 1) .. (k - 1) : Unsets(u[i], c)
  BY DEF Figures, Tidy
<1> HIDE DEF w, m, n
<1>5. ASSUME NEW j \in 1 .. m, NEW c \in Places, Sets(w[j], c)
      PROVE  \E i \in (j + 1) .. m : Unsets(w[i], c)
  <2>1. PICK i \in (j + 1) .. m : Unsets(s[i], c)
    BY <1>2, <1>3, <1>5
  <2>2. i \in 1 .. m
    BY <2>1, <1>2
  <2>3. QED
    BY <2>1, <2>2, <1>2
<1>6. ASSUME NEW h \in 1 .. n, NEW o \in 1 .. (n + 1), NEW c \in Places,
             \E i \in (h + 1) .. (o - 1) : Unsets(u[i], c)
      PROVE  \E i \in (m + h + 1) .. (m + o - 1) : Unsets(w[i], c)
  <2>1. PICK i \in (h + 1) .. (o - 1) : Unsets(u[i], c)
    BY <1>6
  <2>2. i \in 1 .. n /\ m + i \in (m + h + 1) .. (m + o - 1)
    BY <2>1, <1>2
  <2>3. QED
    BY <2>1, <2>2, <1>2
<1>7. Leaves(w, {})
  <2> SUFFICES ASSUME NEW j \in 1 .. Len(w), NEW c \in Places, Sets(w[j], c)
               PROVE  \E i \in (j + 1) .. Len(w) : Unsets(w[i], c)
    BY DEF Leaves
  <2>1. CASE j \in 1 .. m
    <3>1. PICK i \in (j + 1) .. m : Unsets(w[i], c)
      BY <2>1, <1>5
    <3>2. i \in (j + 1) .. Len(w)
      BY <3>1, <1>2
    <3>3. QED
      BY <3>1, <3>2
  <2>2. CASE \E i \in 1 .. n : j = m + i
    <3>1. PICK h \in 1 .. n : j = m + h
      BY <2>2
    <3>2. \E i \in (h + 1) .. n : Unsets(u[i], c)
      BY <3>1, <1>2, <1>3
    <3>3. n + 1 \in 1 .. (n + 1) /\ (n + 1) - 1 = n /\ m + (n + 1) - 1 = Len(w)
      BY <1>2
    <3>4. \E i \in (m + h + 1) .. (m + (n + 1) - 1) : Unsets(w[i], c)
      BY <3>2, <3>3, <1>6
    <3>5. QED
      BY <3>1, <3>3, <3>4
  <2>3. QED
    BY <2>1, <2>2, <1>2
<1>8. Tidy(w)
  <2> SUFFICES ASSUME NEW k \in 1 .. Len(w), Pausing(w, k), NEW j \in 1 .. (k - 1),
                      NEW c \in Places, Sets(w[j], c)
               PROVE  \E i \in (j + 1) .. (k - 1) : Unsets(w[i], c)
    BY DEF Tidy
  <2>1. k \in 1 .. (m + n) /\ j \in 1 .. Len(w)
    BY <1>2
  <2>2. CASE k \in 1 .. m
    <3>1. Pausing(s, k) /\ Sets(s[j], c)
      <4>1. j \in 1 .. m
        BY <2>2, <1>2
      <4>2. QED
        BY <4>1, <2>2, <1>2 DEF Pausing
    <3>2. PICK i \in (j + 1) .. (k - 1) : Unsets(s[i], c)
      BY <3>1, <2>2, <1>4
    <3>3. i \in 1 .. m
      BY <3>2, <2>2, <1>2
    <3>4. QED
      BY <3>2, <3>3, <1>2
  <2>3. CASE \E i \in 1 .. n : k = m + i
    <3>1. PICK o \in 1 .. n : k = m + o
      BY <2>3
    <3>2. CASE j \in 1 .. m
      <4>1. PICK i \in (j + 1) .. m : Unsets(w[i], c)
        BY <3>2, <1>5
      <4>2. i \in (j + 1) .. (k - 1)
        BY <4>1, <3>1, <1>2
      <4>3. QED
        BY <4>1, <4>2
    <3>3. CASE \E i \in 1 .. n : j = m + i
      <4>1. PICK h \in 1 .. n : j = m + h
        BY <3>3
      <4>2. h \in 1 .. (o - 1)
        BY <4>1, <3>1, <1>2
      <4>3. Pausing(u, o) /\ Sets(u[h], c)
        BY <3>1, <4>1, <1>2 DEF Pausing
      <4>4. \E i \in (h + 1) .. (o - 1) : Unsets(u[i], c)
        BY <4>2, <4>3, <1>4
      <4>5. o \in 1 .. (n + 1) /\ h \in 1 .. n /\ j = m + h /\ k - 1 = m + o - 1
        BY <4>1, <3>1, <1>2
      <4>6. \E i \in (m + h + 1) .. (m + o - 1) : Unsets(w[i], c)
        BY ONLY <4>4, <4>5, <1>6, c \in Places
      <4>7. QED
        BY <4>6, <4>5
    <3>4. QED
      BY <3>2, <3>3, <2>1, <1>2
  <2>4. QED
    BY <2>2, <2>3, <1>2
<1>9. Figures(w) /\ Len(w) = m + n /\ Len(w) # 0 /\ w[1] = s[1]
  BY <1>2, <1>3, <1>7, <1>8 DEF Figures
<1>10. QED
  BY <1>9 DEF w, m, n

LEMMA PieceIsFigure ==
    ASSUME NEW s, Piece(s, {})
    PROVE  Figures(s)
BY DEF Piece, Figures, Tidy

LEMMA PauseIsFigure == Figures(Pause) /\ Len(Pause) = 1 /\ Pause[1] = <<"pause", 1000>>
<1> DEFINE call == <<"pause", 1000>>
           s == <<call>>
<1>1. call \in Calls /\ call[1] = "pause"
  BY DEF Calls
<1> HIDE DEF call
<1>2. s \in Seq(Calls) /\ Len(s) = 1 /\ s[1] = call
  BY <1>1
<1> HIDE DEF s
<1>3. \A k \in 1 .. Len(s) : s[k] = call /\ 1 .. (k - 1) = {}
  BY <1>2
<1>4. Tidy(s) /\ Leaves(s, {})
  BY <1>1, <1>3 DEF Tidy, Leaves, Sets
<1>5. QED
  BY <1>2, <1>4 DEF Figures, Pause, s, call

\* The main program leaves nothing set before a pause.
LEMMA ProgramTidy ==
    /\ Figures(program) /\ Len(program) >= 2 /\ program[1] = <<"clear">>
    /\ program[Len(program)] = <<"pause", 1000>>
<1> DEFINE first == <<"clear">>
           e0 == <<first>>
           e1 == e0 \o on_offs
           e2 == e1 \o Pause
           e3 == e2 \o rand_pixel
           e4 == e3 \o Pause
           e5 == e4 \o rings
           e6 == e5 \o Pause
           e7 == e6 \o waves
           e8 == e7 \o Pause
<1>1. Speeds \in Nat /\ Pixels \in Nat /\ Rings \in Nat /\ Waves \in Nat
  BY FigureAssumption DEF FigureAssumption
<1>2. Figures(on_offs) /\ Figures(rand_pixel) /\ Figures(rings) /\ Figures(waves)
  BY <1>1, OnOffsTidy, PixelsTidy, RingsTidy, WavesTidy, PieceIsFigure
<1>3. Figures(Pause) /\ Len(Pause) = 1 /\ Pause[1] = <<"pause", 1000>>
  BY PauseIsFigure
<1>4. program = e8
  BY DEF program
<1>5. first \in Calls /\ first[1] = "clear"
  BY DEF Calls
<1>6. Piece(e0, {}) /\ Len(e0) = 1 /\ e0[1] = first
  <2> HIDE DEF first
  <2>1. QED
    BY <1>5, OneCall
<1>7. Figures(e0) /\ Len(e0) # 0 /\ e0[1] = first
  BY <1>6, PieceIsFigure
<1> HIDE DEF first, e0
<1>8. Figures(e1) /\ Len(e1) # 0 /\ e1[1] = first
  BY ONLY <1>7, <1>2, <1>3, FiguresJoined
<1> HIDE DEF e1
<1>9. Figures(e2) /\ Len(e2) # 0 /\ e2[1] = first
  BY ONLY <1>8, <1>2, <1>3, FiguresJoined
<1> HIDE DEF e2
<1>10. Figures(e3) /\ Len(e3) # 0 /\ e3[1] = first
  BY ONLY <1>9, <1>2, <1>3, FiguresJoined
<1> HIDE DEF e3
<1>11. Figures(e4) /\ Len(e4) # 0 /\ e4[1] = first
  BY ONLY <1>10, <1>2, <1>3, FiguresJoined
<1> HIDE DEF e4
<1>12. Figures(e5) /\ Len(e5) # 0 /\ e5[1] = first
  BY ONLY <1>11, <1>2, <1>3, FiguresJoined
<1> HIDE DEF e5
<1>13. Figures(e6) /\ Len(e6) # 0 /\ e6[1] = first
  BY ONLY <1>12, <1>2, <1>3, FiguresJoined
<1> HIDE DEF e6
<1>14. Figures(e7) /\ Len(e7) # 0 /\ e7[1] = first
  BY ONLY <1>13, <1>2, <1>3, FiguresJoined
<1> HIDE DEF e7
<1>15. Figures(e8) /\ Len(e8) = Len(e7) + Len(Pause) /\ e8[1] = first
  <2>1. Figures(e7) /\ Len(e7) # 0 /\ Figures(Pause) /\ e7[1] = first
    BY ONLY <1>14, <1>3
  <2>2. Figures(e8) /\ e8[1] = e7[1]
    BY ONLY <2>1, FiguresJoined
  <2>3. Len(e8) = Len(e7) + Len(Pause)
    BY ONLY <2>1, FiguresJoined
  <2>4. QED
    BY <2>1, <2>2, <2>3
<1>16. e7 \in Seq(Calls) /\ Pause \in Seq(Calls) /\ 1 \in 1 .. Len(Pause)
  BY <1>14, <1>3 DEF Figures
<1>17. e8[Len(e7) + 1] = Pause[1] /\ Len(e7) \in Nat
  BY ONLY <1>16, Joined
<1>18. Len(e8) = Len(e7) + 1 /\ Len(e8) >= 2
  BY <1>14, <1>15, <1>17, <1>3
<1>19. QED
  BY <1>3, <1>4, <1>15, <1>17, <1>18 DEF first

-----------------------------------------------------------------------------
(* The cube. *)

\* The coordinates were set by calls before the n-th and not unset since.
Held(n, cube) ==
    \A c \in cube : \E j \in 1 .. (n - 1) :
        Sets(program[j], c) /\ \A i \in (j + 1) .. (n - 1) : ~Unsets(program[i], c)

Layer(z) == {<<c[1], c[2]>> : c \in {d \in cube_zy : d[3] = z}}

AfterPause == at <= 2 \/ program[at - 1][1] = "pause"

CubeType ==
    /\ at \in 1 .. Len(program) /\ ticks \in Nat /\ cube_zy \subseteq Places
    /\ z_cur \in 0 .. 3 /\ calm \in 0 .. 4 /\ draw \in {"idle", "shift", "show"}

DarkWhileShifting == draw # "idle" => oe = 0

RowIsLayer ==
    draw = "show" =>
        \A x \in 0 .. 3 : \A y \in 0 .. 3 : (row[1 + x + (4 * y)] = 1) <=> (<<x, y, z_cur>> \in cube_zy)

SeenSinceCalm == \A k \in 1 .. calm : lit[(z_cur - k) % 4] = Layer((z_cur - k) % 4)

StillAfterPause ==
    AfterPause => cube_zy = {} /\ (calm + ticks >= 4 \/ \A z \in 0 .. 3 : lit[z] = {})

CubeInv ==
    /\ CubeType /\ DarkWhileShifting /\ RowIsLayer /\ SeenSinceCalm
    /\ Held(at, cube_zy) /\ StillAfterPause

LEMMA ProgramCalls ==
    /\ Len(program) \in Nat /\ Len(program) >= 2
    /\ \A n \in 1 .. Len(program) : program[n] \in Calls
BY ProgramTidy DEF Figures

LEMMA CallCases ==
    ASSUME NEW call \in Calls
    PROVE  /\ call[1] \in {"wait", "pause"} => call[2] \in Nat \ {0}
           /\ call[1] = "pause" => call[2] = 1000
           /\ call[1] \in {"set", "reset"} => call[2] \in Places
<1> HIDE DEF Places
<1>1. QED
  BY DEF Calls

LEMMA CubeStart ==
    ASSUME L!Init PROVE CubeInv
<1>1. /\ at = 1 /\ ticks = 0 /\ cube_zy = {} /\ z_cur = 0 /\ draw = "idle" /\ calm = 0 /\ oe = 0
      /\ lit = [z \in 0 .. 3 |-> {}]
  BY DEF L!Init, L!N
<1>2. CubeType
  BY <1>1, ProgramCalls DEF CubeType
<1>3. DarkWhileShifting /\ RowIsLayer /\ SeenSinceCalm /\ Held(at, cube_zy)
  BY <1>1 DEF DarkWhileShifting, RowIsLayer, SeenSinceCalm, Held
<1>4. StillAfterPause
  BY <1>1 DEF StillAfterPause
<1>5. QED
  BY <1>2, <1>3, <1>4 DEF CubeInv

\* What a call of the main program leaves of the coordinates.
After(call, cube) ==
    \/ call[1] = "set" /\ cube = cube_zy \cup {call[2]}
    \/ call[1] = "reset" /\ cube = cube_zy \ {call[2]}
    \/ call[1] = "clear" /\ cube = {}
    \/ call[1] = "rand" /\ \E c \in Places : cube = cube_zy \cup {c}
    \/ call[1] \in {"wait", "pause"} /\ cube = cube_zy

LEMMA MainCalls ==
    ASSUME CubeType, L!Main
    PROVE  /\ After(program[at], cube_zy')
           /\ at' = IF at = Len(program) THEN 2 ELSE at + 1
           /\ draw = "idle" /\ ticks = 0
           /\ UNCHANGED <<z_cur, draw, row, port_z, oe, lit>>
           /\ calm' = IF cube_zy' = cube_zy THEN calm ELSE 0
           /\ ticks' = IF program[at][1] \in {"wait", "pause"} THEN L!Interrupts(program[at][2]) ELSE 0
<1>1. draw = "idle" /\ ticks = 0 /\ UNCHANGED <<z_cur, draw, row, port_z, oe, lit>>
  BY DEF L!Main
<1>2. ASSUME NEW cube, L!Change(cube)
      PROVE  /\ cube_zy' = cube /\ at' = IF at = Len(program) THEN 2 ELSE at + 1
             /\ calm' = (IF cube_zy' = cube_zy THEN calm ELSE 0) /\ ticks' = ticks
  BY <1>2 DEF L!Change, L!Advance
<1>3. CASE program[at][1] = "set" /\ L!Change(cube_zy \cup {program[at][2]})
  <2>1. /\ cube_zy' = cube_zy \cup {program[at][2]} /\ at' = IF at = Len(program) THEN 2 ELSE at + 1
        /\ calm' = (IF cube_zy' = cube_zy THEN calm ELSE 0) /\ ticks' = ticks
    BY <1>2, <1>3
  <2>2. QED
    BY <2>1, <1>1, <1>3 DEF After
<1>4. CASE program[at][1] = "reset" /\ L!Change(cube_zy \ {program[at][2]})
  <2>1. /\ cube_zy' = cube_zy \ {program[at][2]} /\ at' = IF at = Len(program) THEN 2 ELSE at + 1
        /\ calm' = (IF cube_zy' = cube_zy THEN calm ELSE 0) /\ ticks' = ticks
    BY <1>2, <1>4
  <2>2. QED
    BY <2>1, <1>1, <1>4 DEF After
<1>5. CASE program[at][1] = "clear" /\ L!Change({})
  <2>1. /\ cube_zy' = {} /\ at' = IF at = Len(program) THEN 2 ELSE at + 1
        /\ calm' = (IF cube_zy' = cube_zy THEN calm ELSE 0) /\ ticks' = ticks
    BY <1>2, <1>5
  <2>2. QED
    BY <2>1, <1>1, <1>5 DEF After
<1>6. CASE program[at][1] = "rand" /\ \E c \in Places : L!Change(cube_zy \cup {c})
  <2>1. PICK c \in Places : L!Change(cube_zy \cup {c})
    BY <1>6
  <2>2. /\ cube_zy' = cube_zy \cup {c} /\ at' = IF at = Len(program) THEN 2 ELSE at + 1
        /\ calm' = (IF cube_zy' = cube_zy THEN calm ELSE 0) /\ ticks' = ticks
    BY <1>2, <2>1
  <2>3. QED
    BY <2>2, <1>1, <1>6 DEF After
<1>7. CASE L!Delay
  BY <1>1, <1>7 DEF L!Delay, L!Call, L!Advance, After
<1>8. QED
  BY <1>3, <1>4, <1>5, <1>6, <1>7 DEF L!Main, L!Call, L!N, Places

\* A call keeps record of what it sets and unsets.
LEMMA HeldOn ==
    ASSUME NEW n \in 1 .. Len(program), NEW cube, Held(n, cube_zy), After(program[n], cube),
           cube \subseteq Places
    PROVE  Held(n + 1, cube)
<1>1. n \in Nat /\ (n + 1) - 1 = n /\ n \in 1 .. n
  BY ProgramCalls
<1> SUFFICES ASSUME NEW c \in cube
             PROVE  \E j \in 1 .. n : Sets(program[j], c) /\ \A i \in (j + 1) .. n : ~Unsets(program[i], c)
  BY <1>1 DEF Held
<1>2. CASE c \in cube_zy /\ ~Unsets(program[n], c)
  <2>1. PICK j \in 1 .. (n - 1) :
            Sets(program[j], c) /\ \A i \in (j + 1) .. (n - 1) : ~Unsets(program[i], c)
    BY <1>2 DEF Held
  <2>2. \A i \in (j + 1) .. n : i \in (j + 1) .. (n - 1) \/ i = n
    BY <1>1
  <2>3. j \in 1 .. n
    BY <1>1
  <2>4. QED
    BY <2>1, <2>2, <2>3, <1>2
<1>3. CASE Sets(program[n], c)
  <2>1. (n + 1) .. n = {}
    BY <1>1
  <2>2. QED
    BY <2>1, <1>1, <1>3
<1>4. \/ c \in cube_zy /\ ~Unsets(program[n], c)
      \/ Sets(program[n], c)
  BY DEF After, Sets, Unsets
<1>5. QED
  BY <1>2, <1>3, <1>4

LEMMA PauseEmpties ==
    ASSUME NEW n \in 1 .. Len(program), NEW cube, Held(n, cube), cube \subseteq Places,
           program[n][1] = "pause"
    PROVE  cube = {}
<1> SUFFICES ASSUME NEW c \in cube PROVE FALSE
  OBVIOUS
<1>1. c \in Places
  OBVIOUS
<1>2. PICK j \in 1 .. (n - 1) :
          Sets(program[j], c) /\ \A i \in (j + 1) .. (n - 1) : ~Unsets(program[i], c)
  BY DEF Held
<1>3. Tidy(program)
  BY ProgramTidy DEF Figures
<1>4. QED
  BY <1>1, <1>2, <1>3 DEF Tidy, Pausing

LEMMA CubeMain ==
    ASSUME CubeInv, L!Main PROVE CubeInv'
<1>1. /\ After(program[at], cube_zy')
      /\ at' = IF at = Len(program) THEN 2 ELSE at + 1
      /\ draw = "idle" /\ ticks = 0
      /\ UNCHANGED <<z_cur, draw, row, port_z, oe, lit>>
      /\ calm' = IF cube_zy' = cube_zy THEN calm ELSE 0
      /\ ticks' = IF program[at][1] \in {"wait", "pause"} THEN L!Interrupts(program[at][2]) ELSE 0
  BY MainCalls DEF CubeInv
<1>2. CubeType /\ Len(program) \in Nat /\ Len(program) >= 2 /\ program[at] \in Calls
  BY ProgramCalls DEF CubeInv, CubeType
<1>3. cube_zy' \subseteq Places
  BY <1>1, <1>2, CallCases DEF After, CubeType
<1>4. ticks' \in Nat /\ (program[at][1] = "pause" => ticks' >= 4)
  <2>1. MaxTicks \in Nat /\ MaxTicks >= 4
    BY FigureAssumption DEF FigureAssumption
  <2> DEFINE ms == program[at][2]
  <2>2. program[at][1] \in {"wait", "pause"} => ms \in Nat \ {0} /\ ticks' = L!Interrupts(ms)
    BY <1>1, <1>2, CallCases
  <2>3. program[at][1] = "pause" => ms = 1000
    BY <1>2, CallCases
  <2> HIDE DEF ms
  <2>4. CASE program[at][1] \in {"wait", "pause"}
    <3>1. ms \in Nat \ {0} /\ ticks' = IF ms - 1 > MaxTicks THEN MaxTicks ELSE ms - 1
      BY <2>2, <2>4 DEF L!Interrupts
    <3>2. QED
      BY <3>1, <2>1, <2>3
  <2>5. CASE program[at][1] \notin {"wait", "pause"}
    <3>1. ticks' = 0
      BY <1>1, <2>5, Zenon
    <3>2. program[at][1] # "pause"
      BY <2>5
    <3>3. QED
      BY <3>1, <3>2
  <2>6. QED
    BY <2>4, <2>5
<1>5. CubeType'
  BY <1>1, <1>2, <1>3, <1>4 DEF CubeType
<1>6. DarkWhileShifting' /\ RowIsLayer'
  BY <1>1 DEF DarkWhileShifting, RowIsLayer
<1>7. SeenSinceCalm'
  <2>1. CASE cube_zy' = cube_zy
    BY <2>1, <1>1 DEF CubeInv, SeenSinceCalm, Layer
  <2>2. CASE cube_zy' # cube_zy
    BY <2>2, <1>1 DEF SeenSinceCalm
  <2>3. QED
    BY <2>1, <2>2
<1>8. Held(at + 1, cube_zy')
  BY <1>1, <1>2, <1>3, HeldOn DEF CubeInv, CubeType
<1>9. program[at][1] = "pause" => cube_zy' = {}
  <2>1. program[at][1] = "pause" => cube_zy = {}
    BY <1>2, PauseEmpties DEF CubeInv, CubeType
  <2>2. QED
    BY <2>1, <1>1 DEF After
<1>10. Held(at, cube_zy)'
  <2>1. CASE at = Len(program)
    <3>1. program[at][1] = "pause"
      BY <2>1, ProgramTidy
    <3>2. cube_zy' = {}
      BY <3>1, <1>9
    <3>3. QED
      BY <3>2 DEF Held
  <2>2. CASE at # Len(program)
    BY <2>2, <1>1, <1>8
  <2>3. QED
    BY <2>1, <2>2
<1>11. StillAfterPause'
  <2>1. CASE program[at][1] = "pause"
    <3>1. calm' \in Nat
      BY <1>5 DEF CubeType
    <3>2. cube_zy' = {} /\ ticks' \in Nat /\ ticks' >= 4
      BY <2>1, <1>4, <1>9
    <3> DEFINE p == calm'
               q == ticks'
    <3>3. p \in Nat /\ q \in Nat /\ q >= 4
      BY <3>1, <3>2
    <3> HIDE DEF p, q
    <3>4. p + q >= 4
      BY ONLY <3>3
    <3>5. calm' + ticks' >= 4
      BY <3>4 DEF p, q
    <3>6. QED
      BY <3>2, <3>5 DEF StillAfterPause
  <2>2. CASE program[at][1] # "pause"
    <3>1. at # Len(program)
      BY <2>2, ProgramTidy
    <3>2. at' = at + 1 /\ at \in Nat
      BY <3>1, <1>1, <1>2 DEF CubeType
    <3>3. CASE at = 1
      <4>1. program[at] = <<"clear">>
        BY <3>3, ProgramTidy
      <4>2. program[at][1] = "clear"
        BY <4>1
      <4>3. cube_zy' = {}
        BY <4>2, <1>1 DEF After
      <4>4. cube_zy = {} /\ (calm + ticks >= 4 \/ \A z \in 0 .. 3 : lit[z] = {})
        BY <3>3 DEF CubeInv, StillAfterPause, AfterPause
      <4>5. calm' = calm /\ ticks' = ticks /\ lit' = lit
        BY <1>1, <4>2, <4>3, <4>4
      <4>6. QED
        BY <4>3, <4>4, <4>5 DEF StillAfterPause
    <3>4. CASE at # 1
      <4>1. ~(at' <= 2) /\ at' - 1 = at
        BY <3>2, <3>4, <1>2 DEF CubeType
      <4>2. ~AfterPause'
        BY <4>1, <2>2 DEF AfterPause
      <4>3. QED
        BY <4>2 DEF StillAfterPause
    <3>5. QED
      BY <3>3, <3>4
  <2>3. QED
    BY <2>1, <2>2
<1>12. QED
  BY <1>5, <1>6, <1>7, <1>10, <1>11 DEF CubeInv

LEMMA CubeInterrupt ==
    ASSUME CubeInv, L!Interrupt PROVE CubeInv'
<1>1. /\ draw' = "shift" /\ oe' = 0
      /\ UNCHANGED <<at, ticks, cube_zy, z_cur, row, port_z, lit, calm>>
  BY DEF L!Interrupt
<1>2. CubeType' /\ DarkWhileShifting' /\ RowIsLayer'
  BY <1>1 DEF CubeInv, CubeType, DarkWhileShifting, RowIsLayer
<1>3. SeenSinceCalm' /\ StillAfterPause' /\ Held(at, cube_zy)'
  BY <1>1 DEF CubeInv, SeenSinceCalm, Layer, StillAfterPause, AfterPause, Held
<1>4. QED
  BY <1>2, <1>3 DEF CubeInv

\* The last bit shifted in is at Q1: y and x fall from 3 as it comes.
LEMMA ShiftedLayer ==
    ASSUME CubeType, NEW x \in 0 .. 3, NEW y \in 0 .. 3
    PROVE  (L!Shifted(row, L!Bits)[1 + x + (4 * y)] = 1) <=> (<<x, y, z_cur>> \in cube_zy)
<1> DEFINE i == 1 + x + (4 * y)
           k == 17 - i
           bits == L!Bits
<1>1. i \in 1 .. 16 /\ k \in 1 .. 16 /\ 16 + 1 - i = k
  OBVIOUS
<1>2. 3 - ((k - 1) % 4) = x /\ 3 - ((k - 1) \div 4) = y
  OBVIOUS
<1>3. /\ bits \in [1 .. 16 -> {0, 1}]
      /\ bits[k] = IF <<3 - ((k - 1) % 4), 3 - ((k - 1) \div 4), z_cur>> \in cube_zy THEN 1 ELSE 0
  <2> HIDE DEF k
  <2>1. QED
    BY <1>1 DEF L!Bits
<1> HIDE DEF bits, k, i
<1>4. Len(bits) = 16
  BY <1>3
<1>5. L!Shifted(row, bits)[i] = bits[k]
  BY <1>1, <1>4 DEF L!Shifted
<1>6. (L!Shifted(row, bits)[i] = 1) <=> (<<x, y, z_cur>> \in cube_zy)
  BY <1>2, <1>3, <1>5
<1>7. QED
  BY <1>6 DEF bits, i

LEMMA CubeShift ==
    ASSUME CubeInv, L!Shift PROVE CubeInv'
<1>1. /\ draw = "shift" /\ draw' = "show" /\ row' = L!Shifted(row, L!Bits)
      /\ UNCHANGED <<at, ticks, cube_zy, z_cur, port_z, oe, calm>>
      /\ lit' = IF oe = 1 THEN L!Seen(row', port_z) ELSE lit
  BY DEF L!Shift
<1>2. oe = 0 /\ lit' = lit /\ CubeType
  <2>1. oe = 0 /\ CubeType
    BY <1>1 DEF CubeInv, DarkWhileShifting
  <2>2. oe # 1
    BY <2>1
  <2>3. QED
    BY <2>1, <2>2, <1>1
<1>3. CubeType' /\ DarkWhileShifting'
  BY <1>1, <1>2 DEF CubeType, DarkWhileShifting
<1>4. RowIsLayer'
  <2> SUFFICES ASSUME NEW x \in 0 .. 3, NEW y \in 0 .. 3
               PROVE  (row'[1 + x + (4 * y)] = 1) <=> (<<x, y, z_cur'>> \in cube_zy')
    BY DEF RowIsLayer
  <2>1. QED
    BY <1>1, <1>2, ShiftedLayer
<1>5. SeenSinceCalm' /\ StillAfterPause' /\ Held(at, cube_zy)'
  BY <1>1, <1>2 DEF CubeInv, SeenSinceCalm, Layer, StillAfterPause, AfterPause, Held
<1>6. QED
  BY <1>3, <1>4, <1>5 DEF CubeInv

\* One pin, one layer.
LEMMA ShownLayer ==
    ASSUME CubeType, RowIsLayer, draw = "show",
           NEW z \in 0 .. 3
    PROVE  L!Seen(row, L!z_mask[z_cur + 1])[z] = IF z = z_cur THEN Layer(z) ELSE lit[z]
<1> DEFINE port == L!z_mask[z_cur + 1]
           mask == L!z_mask[z + 1]
           seen == {c \in L!N \X L!N : row[1 + c[1] + (4 * c[2])] = 1}
<1>1. z_cur \in {0, 1, 2, 3} /\ z \in {0, 1, 2, 3}
  BY DEF CubeType
<1>2. ((port \div mask) % 2 = 1) <=> (z = z_cur)
  <2>1. L!z_mask[1] = 1 /\ L!z_mask[2] = 2 /\ L!z_mask[3] = 64 /\ L!z_mask[4] = 128
    BY DEF L!z_mask
  <2>2. /\ port = CASE z_cur = 0 -> 1 [] z_cur = 1 -> 2 [] z_cur = 2 -> 64 [] z_cur = 3 -> 128
        /\ mask = CASE z = 0 -> 1 [] z = 1 -> 2 [] z = 2 -> 64 [] z = 3 -> 128
    BY <1>1, <2>1
  <2> HIDE DEF port, mask
  <2>3. /\ (1 \div 1) % 2 = 1 /\ (1 \div 2) % 2 = 0 /\ (1 \div 64) % 2 = 0 /\ (1 \div 128) % 2 = 0
        /\ (2 \div 1) % 2 = 0 /\ (2 \div 2) % 2 = 1 /\ (2 \div 64) % 2 = 0 /\ (2 \div 128) % 2 = 0
        /\ (64 \div 1) % 2 = 0 /\ (64 \div 2) % 2 = 0 /\ (64 \div 64) % 2 = 1 /\ (64 \div 128) % 2 = 0
        /\ (128 \div 1) % 2 = 0 /\ (128 \div 2) % 2 = 0 /\ (128 \div 64) % 2 = 0 /\ (128 \div 128) % 2 = 1
    OBVIOUS
  <2>4. QED
    BY <1>1, <2>2, <2>3
<1>3. seen = Layer(z_cur)
  <2>1. ASSUME NEW c \in seen PROVE c \in Layer(z_cur)
    <3>1. PICK x \in 0 .. 3, y \in 0 .. 3 : c = <<x, y>>
      BY DEF L!N
    <3>2. row[1 + x + (4 * y)] = 1
      BY <3>1
    <3>3. <<x, y, z_cur>> \in cube_zy
      BY <3>2 DEF RowIsLayer
    <3> DEFINE d == <<x, y, z_cur>>
    <3>4. d[1] = x /\ d[2] = y /\ d[3] = z_cur /\ d \in cube_zy
      BY <3>3
    <3> HIDE DEF d
    <3>5. c = <<d[1], d[2]>>
      BY <3>1, <3>4
    <3>6. QED
      BY <3>4, <3>5 DEF Layer
  <2>2. ASSUME NEW c \in Layer(z_cur) PROVE c \in seen
    <3>1. PICK d \in cube_zy : d[3] = z_cur /\ c = <<d[1], d[2]>>
      BY DEF Layer
    <3>2. d \in Places
      BY DEF CubeType
    <3>3. PICK x \in 0 .. 3, y \in 0 .. 3 : d = <<x, y, z_cur>>
      BY <3>1, <3>2 DEF Places
    <3>4. c = <<x, y>> /\ <<x, y, z_cur>> \in cube_zy
      BY <3>1, <3>3
    <3>5. row[1 + x + (4 * y)] = 1
      BY <3>4 DEF RowIsLayer
    <3>6. QED
      BY <3>4, <3>5 DEF L!N
  <2>3. QED
    BY <2>1, <2>2
<1>4. L!Seen(row, port)[z] = IF (port \div mask) % 2 = 1 THEN seen ELSE lit[z]
  <2> HIDE DEF port
  <2>1. z \in L!N
    BY DEF L!N
  <2>2. QED
    BY <2>1 DEF L!Seen
<1> HIDE DEF seen, mask
<1>5. QED
  BY <1>2, <1>3, <1>4

LEMMA CubeShow ==
    ASSUME CubeInv, L!Show PROVE CubeInv'
<1>1. /\ draw = "show" /\ draw' = "idle" /\ lit' = L!Seen(row, L!z_mask[z_cur + 1])
      /\ z_cur' = (IF z_cur = 3 THEN 0 ELSE z_cur + 1)
      /\ ticks' = (IF ticks = 0 THEN 0 ELSE ticks - 1)
      /\ calm' = (IF calm = 4 THEN 4 ELSE calm + 1)
      /\ UNCHANGED <<at, cube_zy, row>>
  BY DEF L!Show, L!NextLayer
<1>2. CubeType /\ RowIsLayer
  BY DEF CubeInv
<1>3. \A z \in 0 .. 3 : lit'[z] = IF z = z_cur THEN Layer(z) ELSE lit[z]
  BY <1>1, <1>2, ShownLayer
<1>4. CubeType' /\ DarkWhileShifting' /\ RowIsLayer' /\ Held(at, cube_zy)'
  BY <1>1, <1>2, SMTT(60) DEF CubeInv, CubeType, DarkWhileShifting, RowIsLayer, Held
<1>5. \A z : Layer(z)' = Layer(z)
  BY <1>1 DEF Layer
<1>6. SeenSinceCalm'
  <2> SUFFICES ASSUME NEW k \in 1 .. calm'
               PROVE  lit'[(z_cur' - k) % 4] = Layer((z_cur' - k) % 4)
    BY <1>5 DEF SeenSinceCalm
  <2> DEFINE z == (z_cur' - k) % 4
  <2>1. z_cur \in 0 .. 3 /\ calm \in 0 .. 4 /\ k \in 1 .. 4 /\ (k > 1 => k - 1 \in 1 .. calm)
    BY <1>1, <1>2 DEF CubeType
  <2>2. /\ z \in 0 .. 3 /\ (k = 1 => z = z_cur)
        /\ k > 1 => z = (z_cur - (k - 1)) % 4 /\ z # z_cur
    BY <2>1, <1>1
  <2> HIDE DEF z
  <2>3. CASE k = 1
    BY <2>2, <2>3, <1>3 DEF z
  <2>4. CASE k > 1
    <3>1. lit[z] = Layer(z)
      BY <2>1, <2>2, <2>4 DEF CubeInv, SeenSinceCalm
    <3>2. lit'[z] = Layer(z)
      BY <3>1, <2>2, <2>4, <1>3
    <3>3. QED
      BY <3>2 DEF z
  <2>5. QED
    BY <2>1, <2>3, <2>4
<1>7. StillAfterPause'
  <2> SUFFICES ASSUME AfterPause
               PROVE  cube_zy = {} /\ (calm' + ticks' >= 4 \/ \A z \in 0 .. 3 : lit'[z] = {})
    BY <1>1 DEF StillAfterPause, AfterPause
  <2>1. cube_zy = {} /\ (calm + ticks >= 4 \/ \A z \in 0 .. 3 : lit[z] = {})
    BY DEF CubeInv, StillAfterPause
  <2>2. \A z \in 0 .. 3 : Layer(z) = {}
    BY <2>1 DEF Layer
  <2>3. CASE calm + ticks >= 4
    BY <2>1, <2>3, <1>1, <1>2 DEF CubeType
  <2>4. CASE \A z \in 0 .. 3 : lit[z] = {}
    BY <2>1, <2>2, <2>4, <1>3
  <2>5. QED
    BY <2>1, <2>3, <2>4
<1>8. QED
  BY <1>4, <1>6, <1>7 DEF CubeInv

LEMMA CubeStays ==
    ASSUME CubeInv, [L!Next]_(L!vars) PROVE CubeInv'
<1>1. CASE UNCHANGED L!vars
  BY <1>1 DEF L!vars, CubeInv, CubeType, DarkWhileShifting, RowIsLayer, SeenSinceCalm, Layer, Held,
              StillAfterPause, AfterPause
<1>2. QED
  BY <1>1, CubeMain, CubeInterrupt, CubeShift, CubeShow DEF L!Next

LEMMA CubeImplies ==
    ASSUME CubeInv PROVE L!CubeShown /\ L!DarkBetween
<1>1. ASSUME calm = 4, NEW z \in 0 .. 3 PROVE lit[z] = Layer(z)
  <2> DEFINE k == ((z_cur - z + 3) % 4) + 1
  <2>1. z_cur \in 0 .. 3
    BY DEF CubeInv, CubeType
  <2>2. k \in 1 .. 4 /\ (z_cur - k) % 4 = z
    BY <2>1
  <2> HIDE DEF k
  <2>3. QED
    BY <2>2, <1>1 DEF CubeInv, SeenSinceCalm
<1>2. L!CubeShown
  BY <1>1 DEF L!CubeShown, L!N, Layer
<1>3. ASSUME at = 2 \/ (at > 2 /\ program[at - 1][1] = "pause"), ticks = 0, draw = "idle", NEW z \in 0 .. 3
      PROVE  lit[z] = {}
  <2>1. AfterPause /\ calm \in 0 .. 4
    BY <1>3 DEF AfterPause, CubeInv, CubeType
  <2>2. cube_zy = {} /\ (calm + ticks >= 4 \/ \A y \in 0 .. 3 : lit[y] = {})
    BY <2>1 DEF CubeInv, StillAfterPause
  <2>3. CASE calm = 4
    <3>1. lit[z] = Layer(z)
      BY <2>3, <1>1
    <3>2. QED
      BY <3>1, <2>2 DEF Layer
  <2>4. CASE calm # 4
    BY <2>1, <2>2, <2>4, <1>3
  <2>5. QED
    BY <2>3, <2>4
<1>4. L!DarkBetween
  BY <1>3 DEF L!DarkBetween, L!N
<1>5. QED
  BY <1>2, <1>4

-----------------------------------------------------------------------------
(* The waves. *)

\* The place of the walk in the period of the sine.
Place(m, q) ==
    \/ cycle = 0 /\ index \in 0 .. q /\ m = index
    \/ cycle = 1 /\ index \in 0 .. (q - 1) /\ m = 2 * q - index
    \/ cycle = 2 /\ index \in 1 .. q /\ m = 2 * q + index
    \/ cycle = 3 /\ index \in 0 .. (q - 1) /\ m = IF index = 0 THEN 0 ELSE 4 * q - index

WaveInv ==
    /\ time \in 0 .. (W!Ticks - 1) /\ hus_cnt = time % CYCLE
    /\ Place(time % (4 * W!Quarter), W!Quarter)
    /\ W!WavesInShape

LEMMA WaveConstants ==
    /\ CYCLE \in Nat \ {0} /\ W!Quarter \in Nat \ {0} /\ W!Ticks \in Nat \ {0}
    /\ W!Ticks = (4 * W!Quarter) * CYCLE /\ W!Ticks = CYCLE * (4 * W!Quarter)
    /\ 4 * W!Quarter \in Nat \ {0}
    /\ AMPLIFICATION \in Nat /\ sine[1] = 0
    /\ \A i \in 0 .. W!Quarter : sine[i + 1] \in Nat /\ AMPLIFICATION * sine[i + 1] <= 127
<1>1. /\ sine \in Seq(Nat) /\ Len(sine) > 1 /\ sine[1] = 0 /\ AMPLIFICATION \in Nat /\ CYCLE \in Nat \ {0}
      /\ \A i \in 1 .. Len(sine) : AMPLIFICATION * sine[i] <= 127
  BY FigureAssumption DEF FigureAssumption
<1>2. Len(sine) \in Nat /\ \A i \in 1 .. Len(sine) : sine[i] \in Nat
  BY <1>1
<1> DEFINE q == W!Quarter
           p == 4 * q
<1>3. q = Len(sine) - 1
  BY DEF W!Quarter
<1>4. W!Ticks = p * CYCLE
  BY DEF W!Ticks
<1> HIDE DEF q
<1>5. q \in Nat \ {0} /\ p \in Nat \ {0}
  BY <1>1, <1>2, <1>3, SMTT(60)
<1>6. p * CYCLE \in Nat \ {0} /\ p * CYCLE = CYCLE * p
  <2> HIDE DEF p
  <2>1. QED
    BY <1>1, <1>5
<1>7. ASSUME NEW i \in 0 .. q PROVE sine[i + 1] \in Nat /\ AMPLIFICATION * sine[i + 1] <= 127
  <2>1. i + 1 \in 1 .. Len(sine)
    BY <1>2, <1>3
  <2>2. QED
    BY <2>1, <1>1, <1>2
<1>8. QED
  BY <1>1, <1>4, <1>5, <1>6, <1>7 DEF q

\* A count modulo a multiple of n counts modulo n.
Counts(n, total, a) ==
    /\ ((a + 1) % total) % n = (IF a % n = n - 1 THEN 0 ELSE (a % n) + 1)
    /\ (a + 1) % total \in 0 .. (total - 1)
    /\ (((a + 1) % total) + total - 1) % total = a

LEMMA Counting ==
    ASSUME NEW n \in Nat \ {0}, NEW k \in Nat \ {0}, NEW total \in Nat \ {0}, total = n * k,
           NEW a \in 0 .. (total - 1)
    PROVE  Counts(n, total, a)
<1> DEFINE q == a \div n
           r == a % n
<1>1. q \in Int /\ r \in 0 .. (n - 1) /\ a = n * q + r
  BY Remainder
<1> HIDE DEF q, r
<1>2. r # n - 1 => (a + 1) % n = r + 1
  <2> SUFFICES ASSUME r # n - 1 PROVE (a + 1) % n = r + 1
    OBVIOUS
  <2>1. r + 1 \in 0 .. (n - 1)
    BY <1>1
  <2> DEFINE x == n * q
  <2>2. (x + (r + 1)) % n = r + 1
    BY <2>1, <1>1, Quotient
  <2>3. x \in Int /\ a = x + r
    BY <1>1
  <2> HIDE DEF x
  <2>4. a + 1 = x + (r + 1)
    BY <2>3, <1>1
  <2>5. QED
    BY <2>2, <2>4
<1>3. r = n - 1 => (a + 1) % n = 0
  <2> SUFFICES ASSUME r = n - 1 PROVE (a + 1) % n = 0
    OBVIOUS
  <2> DEFINE b == q + 1
  <2>1. b \in Int /\ 0 \in 0 .. (n - 1)
    BY <1>1
  <2>2. n * b = n * q + n
    BY <1>1
  <2>3. (n * b + 0) % n = 0
    <3> HIDE DEF b
    <3>1. QED
      BY <2>1, Quotient
  <2> DEFINE x == n * q
             y == n * b
  <2>4. x \in Int /\ y \in Int /\ y = x + n /\ a = x + r
    BY <1>1, <2>2, <2>1
  <2>5. (y + 0) % n = 0
    BY <2>3
  <2> HIDE DEF x, y
  <2>6. a + 1 = y + 0
    BY <2>4
  <2>7. QED
    BY <2>5, <2>6
<1>4. CASE a + 1 # total
  <2>1. (a + 1) % total = a + 1
    BY <1>4
  <2>2. (a + 1) + total - 1 = total * 1 + a
    OBVIOUS
  <2>3. (total * 1 + a) % total = a
    BY Quotient
  <2>4. QED
    BY <2>1, <2>2, <2>3, <1>2, <1>3, <1>4 DEF r, Counts
<1>5. CASE a + 1 = total
  <2>1. (a + 1) % total = 0 /\ 0 % n = 0
    BY <1>5
  <2>2. r = n - 1
    <3> DEFINE b == k - 1
    <3>1. n * b = n * k - n /\ b \in Int
      OBVIOUS
    <3>2. (n * b + (n - 1)) % n = n - 1
      <4> HIDE DEF b
      <4>1. n - 1 \in 0 .. (n - 1)
        OBVIOUS
      <4>2. QED
        BY <3>1, <4>1, Quotient
    <3>3. a = n * b + (n - 1)
      <4> DEFINE x == n * b
      <4>1. x = total - n
        BY <3>1
      <4> HIDE DEF x
      <4>2. a = x + (n - 1)
        BY <4>1, <1>5
      <4>3. QED
        BY <4>2 DEF x
    <3>4. QED
      BY <3>2, <3>3 DEF r
  <2>3. (0 + total - 1) % total = a
    BY <1>5
  <2>4. QED
    BY <2>1, <2>2, <2>3, <1>5 DEF r, Counts
<1>6. QED
  BY <1>4, <1>5

LEMMA WaveStart ==
    ASSUME W!Init PROVE WaveInv
<1>1. hus_cnt = 0 /\ cycle = 0 /\ index = 0 /\ OCR2 = 0 /\ time = 0
  BY DEF W!Init
<1> DEFINE q == W!Quarter
           p == 4 * q
           total == W!Ticks
<1>2. CYCLE \in Nat \ {0} /\ q \in Nat \ {0} /\ p \in Nat \ {0} /\ total \in Nat \ {0}
  BY WaveConstants
<1> HIDE DEF q, p, total
<1>3. 0 % CYCLE = 0 /\ 0 % p = 0 /\ 0 \in 0 .. (total - 1) /\ 0 \in 0 .. q
  BY <1>2
<1>4. W!WavesInShape
  BY <1>1 DEF W!WavesInShape
<1>5. Place(time % p, q)
  BY <1>1, <1>3 DEF Place
<1>6. QED
  BY <1>1, <1>3, <1>4, <1>5 DEF WaveInv, q, p, total

LEMMA Walks ==
    ASSUME NEW q \in Nat \ {0}, q = W!Quarter, NEW m, Place(m, q),
           W!Walk(IF cycle % 2 = 0 THEN W!Quarter ELSE 0)
    PROVE  Place(IF m = 4 * q - 1 THEN 0 ELSE m + 1, q)'
<1>1. CASE cycle = 0 /\ index \in 0 .. q /\ m = index
  <2>1. cycle % 2 = 0
    BY <1>1
  <2>2. /\ index = q => cycle' = 1 /\ index' = q - 1
        /\ index # q => cycle' = 0 /\ index' = index + 1
    BY <1>1, <2>1 DEF W!Walk
  <2>3. QED
    BY <1>1, <2>2 DEF Place
<1>2. CASE cycle = 1 /\ index \in 0 .. (q - 1) /\ m = 2 * q - index
  <2>1. cycle % 2 # 0
    BY <1>2
  <2>2. /\ index = 0 => cycle' = 2 /\ index' = 1
        /\ index # 0 => cycle' = 1 /\ index' = index - 1
    BY <1>2, <2>1 DEF W!Walk
  <2>3. QED
    BY <1>2, <2>2 DEF Place
<1>3. CASE cycle = 2 /\ index \in 1 .. q /\ m = 2 * q + index
  <2>1. cycle % 2 = 0
    BY <1>3
  <2>2. /\ index = q => cycle' = 3 /\ index' = q - 1
        /\ index # q => cycle' = 2 /\ index' = index + 1
    BY <1>3, <2>1 DEF W!Walk
  <2>3. QED
    BY <1>3, <2>2 DEF Place
<1>4. CASE cycle = 3 /\ index \in 0 .. (q - 1) /\ m = IF index = 0 THEN 0 ELSE 4 * q - index
  <2>1. cycle % 2 # 0
    BY <1>4
  <2>2. /\ index = 0 => cycle' = 0 /\ index' = 1
        /\ index # 0 => cycle' = 3 /\ index' = index - 1
    BY <1>4, <2>1 DEF W!Walk
  <2>3. QED
    BY <1>4, <2>2 DEF Place
<1>5. QED
  BY <1>1, <1>2, <1>3, <1>4 DEF Place

\* The quarter and the place in it, from the place in the period.
LEMMA InQuarter ==
    ASSUME NEW q \in Nat \ {0}, NEW n \in Nat, NEW b \in 0 .. 3, NEW r \in 0 .. (q - 1),
           n % (4 * q) = q * b + r
    PROVE  (n \div q) % 4 = b /\ n % q = r
<1> DEFINE p == 4 * q
           a == n \div p
           g == 4 * a + b
<1>1. p \in Nat \ {0}
  OBVIOUS
<1>2. a \in Int /\ n = p * a + (n % p)
  <2> HIDE DEF p
  <2>1. QED
    BY <1>1, Remainder
<1> HIDE DEF a
<1>3. g \in Int /\ g % 4 = b
  <2>1. (4 * a + b) % 4 = b
    BY <1>2, Quotient
  <2>2. QED
    BY <2>1, <1>2
<1>4. n = q * g + r
  <2>1. q * g = q * (4 * a) + q * b
    BY <1>2
  <2>2. q * (4 * a) = p * a
    BY <1>2
  <2> DEFINE x == p * a
             y == q * b
  <2>3. x \in Int /\ y \in Int /\ n = x + (y + r)
    BY <1>2
  <2>4. q * g = x + y
    BY <2>1, <2>2
  <2> DEFINE z == q * g
  <2> HIDE DEF x, y, z
  <2>5. n = z + r
    BY <2>3, <2>4 DEF z
  <2>6. QED
    BY <2>5 DEF z
<1> HIDE DEF g
<1>5. (q * g + r) \div q = g /\ (q * g + r) % q = r
  BY <1>3, Quotient
<1> DEFINE z == q * g + r
<1>6. n = z /\ z \div q = g /\ z % q = r
  BY <1>4, <1>5
<1> HIDE DEF z
<1>7. n \div q = g /\ n % q = r
  BY <1>6, Zenon
<1> DEFINE w == n \div q
<1>8. w = g
  BY <1>7
<1> HIDE DEF w
<1>9. w % 4 = b
  BY <1>3, <1>8
<1>10. QED
  BY <1>7, <1>9 DEF w

LEMMA Sampled ==
    ASSUME NEW q \in Nat \ {0}, q = W!Quarter, NEW n \in Nat, Place(n % (4 * q), q)
    PROVE  /\ index \in 0 .. q
           /\ W!SineAt(n) = IF cycle < 2 THEN sine[index + 1] ELSE -sine[index + 1]
<1> DEFINE m == n % (4 * q)
<1>1. sine[1] = 0
  BY WaveConstants
<1>2. ASSUME NEW b \in 0 .. 3, NEW r \in 0 .. (q - 1), m = q * b + r
      PROVE  W!SineAt(n) = CASE b = 0 -> sine[r + 1] [] b = 1 -> sine[q - r + 1]
                             [] b = 2 -> -sine[r + 1] [] OTHER -> -sine[q - r + 1]
  <2>1. n % (4 * q) = q * b + r /\ q \in Nat \ {0} /\ n \in Nat /\ b \in 0 .. 3 /\ r \in 0 .. (q - 1)
    BY <1>2
  <2>2. (n \div q) % 4 = b /\ n % q = r
    BY ONLY <2>1, InQuarter, Zenon
  <2>3. QED
    BY <2>2 DEF W!SineAt
<1>3. CASE cycle = 0 /\ index \in 0 .. q /\ m = index
  <2> HIDE DEF m
  <2>1. CASE index # q
    <3>1. index \in 0 .. (q - 1) /\ m = q * 0 + index /\ 0 \in 0 .. 3
      BY <1>3, <2>1
    <3>2. W!SineAt(n) = sine[index + 1]
      BY <3>1, <1>2
    <3>3. QED
      BY <3>2, <1>3
  <2>2. CASE index = q
    <3>1. 0 \in 0 .. (q - 1) /\ m = q * 1 + 0 /\ 1 \in 0 .. 3 /\ q - 0 + 1 = index + 1
      BY <1>3, <2>2
    <3>2. W!SineAt(n) = sine[q - 0 + 1]
      BY <3>1, <1>2
    <3>3. QED
      BY <3>1, <3>2, <1>3
  <2>3. QED
    BY <2>1, <2>2
<1>4. CASE cycle = 1 /\ index \in 0 .. (q - 1) /\ m = 2 * q - index
  <2> HIDE DEF m
  <2>1. CASE index # 0
    <3> DEFINE r == q - index
    <3>1. r \in 0 .. (q - 1) /\ m = q * 1 + r /\ 1 \in 0 .. 3 /\ q - r + 1 = index + 1
      BY <1>4, <2>1
    <3> HIDE DEF r
    <3>2. W!SineAt(n) = sine[q - r + 1]
      BY <3>1, <1>2
    <3>3. QED
      BY <3>1, <3>2, <1>4
  <2>2. CASE index = 0
    <3>1. 0 \in 0 .. (q - 1) /\ m = q * 2 + 0 /\ 2 \in 0 .. 3 /\ 0 + 1 = 1
      BY <1>4, <2>2
    <3>2. W!SineAt(n) = -sine[0 + 1]
      BY <3>1, <1>2
    <3>3. QED
      BY <3>1, <3>2, <1>1, <1>4, <2>2
  <2>3. QED
    BY <2>1, <2>2
<1>5. CASE cycle = 2 /\ index \in 1 .. q /\ m = 2 * q + index
  <2> HIDE DEF m
  <2>1. CASE index # q
    <3>1. index \in 0 .. (q - 1) /\ m = q * 2 + index /\ 2 \in 0 .. 3
      BY <1>5, <2>1
    <3>2. W!SineAt(n) = -sine[index + 1]
      BY <3>1, <1>2
    <3>3. QED
      BY <3>2, <1>5
  <2>2. CASE index = q
    <3>1. 0 \in 0 .. (q - 1) /\ m = q * 3 + 0 /\ 3 \in 0 .. 3 /\ q - 0 + 1 = index + 1
      BY <1>5, <2>2
    <3>2. W!SineAt(n) = -sine[q - 0 + 1]
      BY <3>1, <1>2
    <3>3. QED
      BY <3>1, <3>2, <1>5
  <2>3. QED
    BY <2>1, <2>2
<1>6. CASE cycle = 3 /\ index \in 0 .. (q - 1) /\ m = IF index = 0 THEN 0 ELSE 4 * q - index
  <2> HIDE DEF m
  <2>1. CASE index # 0
    <3> DEFINE r == q - index
    <3>1. r \in 0 .. (q - 1) /\ m = q * 3 + r /\ 3 \in 0 .. 3 /\ q - r + 1 = index + 1
      BY <1>6, <2>1
    <3> HIDE DEF r
    <3>2. W!SineAt(n) = -sine[q - r + 1]
      BY <3>1, <1>2
    <3>3. QED
      BY <3>1, <3>2, <1>6
  <2>2. CASE index = 0
    <3>1. 0 \in 0 .. (q - 1) /\ m = q * 0 + 0 /\ 0 \in 0 .. 3 /\ 0 + 1 = 1
      BY <1>6, <2>2
    <3>2. W!SineAt(n) = sine[0 + 1]
      BY <3>1, <1>2
    <3>3. QED
      BY <3>1, <3>2, <1>1, <1>6, <2>2
  <2>3. QED
    BY <2>1, <2>2
<1>7. QED
  BY <1>3, <1>4, <1>5, <1>6 DEF Place

LEMMA WaveStays ==
    ASSUME WaveInv, [W!Next]_(W!vars) PROVE WaveInv'
<1> DEFINE q == W!Quarter
           p == 4 * q
           total == W!Ticks
<1>1. /\ CYCLE \in Nat \ {0} /\ q \in Nat \ {0} /\ p \in Nat \ {0} /\ total \in Nat \ {0}
      /\ total = p * CYCLE /\ total = CYCLE * p
      /\ AMPLIFICATION \in Nat
      /\ \A i \in 0 .. q : sine[i + 1] \in Nat /\ AMPLIFICATION * sine[i + 1] <= 127
  BY WaveConstants
<1>2. time \in 0 .. (total - 1) /\ hus_cnt = time % CYCLE /\ Place(time % p, q)
  BY DEF WaveInv
<1>3. CASE UNCHANGED W!vars
  BY <1>3 DEF W!vars, WaveInv, Place, W!WavesInShape
<1>4. CASE W!Timer
  <2>1. /\ square' = [k \in 1 .. 4 |-> IF hus_cnt < W!period[k] THEN 1 ELSE 0]
        /\ W!Walk(IF cycle % 2 = 0 THEN W!Quarter ELSE 0)
        /\ OCR2' = (127 + AMPLIFICATION * (IF cycle < 2 THEN sine[index + 1] ELSE -sine[index + 1])) % 256
        /\ hus_cnt' = (hus_cnt + 1) % CYCLE /\ time' = (time + 1) % total
    BY <1>4 DEF W!Timer, W!generate_square_waves, W!generate_amp_based_symmetric_wave,
                W!set_amplitude_centred, W!DC_OFF
  <2> DEFINE m == time % p
             amp == IF cycle < 2 THEN sine[index + 1] ELSE -sine[index + 1]
  <2>2. PICK was : was = m
    OBVIOUS
  <2>3. Place(IF was = 4 * q - 1 THEN 0 ELSE was + 1, q)'
    <3>1. Place(was, q)
      BY <1>2, <2>2
    <3>2. QED
      BY <3>1, <2>1, <1>1, Walks
  <2>4. index \in 0 .. q /\ W!SineAt(time) = amp
    <3>1. time \in Nat
      BY <1>1, <1>2
    <3>2. QED
      BY <3>1, <1>1, <1>2, Sampled
  <2> HIDE DEF q, p, total
  <2>5. /\ time' \in 0 .. (total - 1) /\ (time' + total - 1) % total = time
        /\ time' % p = (IF m = p - 1 THEN 0 ELSE m + 1)
        /\ time' % CYCLE = (IF time % CYCLE = CYCLE - 1 THEN 0 ELSE (time % CYCLE) + 1)
    <3>1. Counts(p, total, time) /\ Counts(CYCLE, total, time)
      BY ONLY <1>1, <1>2, Counting
    <3>2. QED
      BY <2>1, <3>1, Zenon DEF Counts
  <2>6. hus_cnt' = time' % CYCLE
    <3> DEFINE h == time % CYCLE
    <3>1. h \in 0 .. (CYCLE - 1)
      <4>1. time \in Int
        BY <1>1, <1>2
      <4>2. QED
        BY <4>1, <1>1, Remainder
    <3> HIDE DEF h
    <3>2. (h + 1) % CYCLE = IF h = CYCLE - 1 THEN 0 ELSE h + 1
      BY <3>1, <1>1
    <3>3. QED
      BY <3>2, <2>1, <2>5, <1>2 DEF h
  <2>7. Place(time % p, q)'
    <3>1. time' % p = IF was = 4 * q - 1 THEN 0 ELSE was + 1
      BY <2>2, <2>5 DEF p
    <3>2. QED
      BY <3>1, <2>3 DEF Place, p, q
  <2>8. OCR2' = 127 + AMPLIFICATION * amp
    <3> DEFINE s == sine[index + 1]
               x == AMPLIFICATION * s
    <3>1. s \in Nat /\ x \in Nat /\ x <= 127
      BY <1>1, <2>4
    <3>2. AMPLIFICATION * (-s) = -x
      BY <3>1, <1>1
    <3>3. AMPLIFICATION * amp = IF cycle < 2 THEN x ELSE -x
      BY <3>2
    <3> DEFINE y == AMPLIFICATION * amp
    <3>4. OCR2' = (127 + y) % 256
      BY <2>1
    <3> HIDE DEF s, x, y
    <3>5. y \in -127 .. 127
      BY <3>1, <3>3 DEF y
    <3>6. OCR2' = 127 + y
      BY <3>4, <3>5
    <3>7. QED
      BY <3>6 DEF y
  <2>9. W!WavesInShape'
    <3>1. /\ OCR2' = W!DC_OFF + (AMPLIFICATION * W!SineAt(time))
          /\ \A k \in 1 .. 4 : (square'[k] = 1) <=> (time % CYCLE < W!period[k])
      <4>1. OCR2' = W!DC_OFF + (AMPLIFICATION * W!SineAt(time))
        BY <2>4, <2>8 DEF W!DC_OFF
      <4>2. \A k \in 1 .. 4 : square'[k] = IF time % CYCLE < W!period[k] THEN 1 ELSE 0
        BY <2>1, <1>2
      <4>3. QED
        BY <4>1, <4>2
    <3> DEFINE n == (time' + total - 1) % total
    <3>2. n = time
      BY <2>5
    <3>3. /\ OCR2' = W!DC_OFF + (AMPLIFICATION * W!SineAt(n))
          /\ \A k \in 1 .. 4 : (square'[k] = 1) = (n % CYCLE < W!period[k])
      <4> HIDE DEF n
      <4>1. /\ OCR2' = W!DC_OFF + (AMPLIFICATION * W!SineAt(n))
            /\ \A i \in 1 .. 4 : (square'[i] = 1) <=> (n % CYCLE < W!period[i])
        BY <3>1, <3>2, Zenon
      <4>2. ASSUME NEW i \in 1 .. 4 PROVE (square'[i] = 1) = (n % CYCLE < W!period[i])
        <5>1. (square'[i] = 1) <=> (n % CYCLE < W!period[i])
          BY <4>1
        <5> DEFINE u == square'[i] = 1
                   v == n % CYCLE < W!period[i]
        <5>2. u \in BOOLEAN /\ v \in BOOLEAN
          OBVIOUS
        <5>3. u <=> v
          BY <5>1
        <5> HIDE DEF u, v
        <5>4. u = v
          BY <5>2, <5>3
        <5>5. QED
          BY <5>4 DEF u, v
      <4>3. QED
        BY <4>1, <4>2
    <3>4. QED
      BY <3>3 DEF W!WavesInShape, W!SineAt, total
  <2>10. QED
    BY <2>5, <2>6, <2>7, <2>9 DEF WaveInv, q, p, total
<1>5. QED
  BY <1>3, <1>4 DEF W!Next

-----------------------------------------------------------------------------
(* The menu. *)

MenuType ==
    /\ menu_mode \in {"display", "set_fruit", "set_day"}
    /\ fruit_i \in 0 .. (M!CNT("fruit") - 1) /\ day_i \in 0 .. (M!CNT("day") - 1)
    /\ poll \in {"draw", "button", "download", "scrolled"}

NothingElseLeft ==
    /\ poll \in {"draw", "download"} => cell \in {M!Blank, M!Drawn(M!Blank)}
    /\ poll = "button" => menu_mode # "display"
    /\ poll = "button" \/ (poll = "download" /\ menu_mode = "display") => cell = M!Drawn(M!Blank)
    /\ poll # "scrolled" => shift = 0

MenuInv == MenuType /\ NothingElseLeft

LEMMA Counted ==
    /\ M!CNT("fruit") \in Nat \ {0} /\ M!CNT("day") \in Nat \ {0}
    /\ M!CNT("fruit") = Len(Length["fruit"]) /\ M!CNT("day") = Len(Length["day"])
<1> DEFINE s == Length["fruit"]
           u == Length["day"]
<1>1. s \in Seq(Nat) /\ s # <<>> /\ u \in Seq(Nat) /\ u # <<>>
  BY MenuAssumption DEF MenuAssumption
<1> HIDE DEF s, u
<1>2. Len(s) \in Nat \ {0} /\ Len(u) \in Nat \ {0}
  BY <1>1
<1>3. QED
  BY <1>2 DEF M!CNT, s, u

LEMMA Fits ==
    /\ \A l \in 1 .. 3 : Length["label"][l] \in Nat
    /\ \A i \in 0 .. (M!CNT("fruit") - 1) : Length["fruit"][i + 1] \in Nat
    /\ \A i \in 0 .. (M!CNT("day") - 1) : Length["day"][i + 1] \in Nat
    /\ \A l \in {1, 3} : \A i \in 0 .. (M!CNT("fruit") - 1) : Length["label"][l] + Length["fruit"][i + 1] <= 16
    /\ \A l \in {2, 3} : \A i \in 0 .. (M!CNT("day") - 1) : Length["label"][l] + Length["day"][i + 1] <= 16
<1> DEFINE s == Length["fruit"]
           u == Length["day"]
           w == Length["label"]
           n == Len(s)
           m == Len(u)
<1>1. /\ s \in Seq(Nat) /\ u \in Seq(Nat) /\ w \in Seq(Nat) /\ Len(w) = 3
      /\ \A l \in {1, 3} : \A v \in 1 .. n : w[l] + s[v] <= 16
      /\ \A l \in {2, 3} : \A v \in 1 .. m : w[l] + u[v] <= 16
  BY MenuAssumption DEF MenuAssumption
<1>2. n = M!CNT("fruit") /\ m = M!CNT("day") /\ n \in Nat /\ m \in Nat
  BY Counted
<1>3. /\ \A v \in 1 .. n : s[v] \in Nat
      /\ \A v \in 1 .. m : u[v] \in Nat
      /\ \A l \in 1 .. 3 : w[l] \in Nat
  <2> HIDE DEF s, u, w
  <2>1. s \in Seq(Nat) /\ u \in Seq(Nat) /\ w \in Seq(Nat)
    BY <1>1
  <2>2. \A v \in 1 .. Len(s) : s[v] \in Nat
    BY ONLY <2>1
  <2>3. \A v \in 1 .. Len(u) : u[v] \in Nat
    BY ONLY <2>1
  <2>4. \A v \in 1 .. Len(w) : w[v] \in Nat
    BY ONLY <2>1
  <2>5. QED
    BY <1>1, <2>2, <2>3, <2>4
<1> HIDE DEF s, u, w, n, m
<1>4. (\A i \in 0 .. (n - 1) : i + 1 \in 1 .. n) /\ (\A i \in 0 .. (m - 1) : i + 1 \in 1 .. m)
  BY <1>2
<1>5. /\ \A l \in 1 .. 3 : w[l] \in Nat
      /\ \A i \in 0 .. (n - 1) : s[i + 1] \in Nat
      /\ \A i \in 0 .. (m - 1) : u[i + 1] \in Nat
      /\ \A l \in {1, 3} : \A i \in 0 .. (n - 1) : w[l] + s[i + 1] <= 16
      /\ \A l \in {2, 3} : \A i \in 0 .. (m - 1) : w[l] + u[i + 1] <= 16
  BY <1>1, <1>3, <1>4
<1>6. QED
  BY <1>2, <1>5 DEF s, u, w

LEMMA FollowingInRange ==
    /\ \A i \in 0 .. (M!CNT("fruit") - 1) : M!Following("fruit", i) \in 0 .. (M!CNT("fruit") - 1)
    /\ \A i \in 0 .. (M!CNT("day") - 1) : M!Following("day", i) \in 0 .. (M!CNT("day") - 1)
<1> DEFINE n == M!CNT("fruit")
           m == M!CNT("day")
<1>1. n \in Nat \ {0} /\ m \in Nat \ {0}
  BY Counted
<1>2. /\ \A i : M!Following("fruit", i) = IF i + 1 = n THEN 0 ELSE i + 1
      /\ \A i : M!Following("day", i) = IF i + 1 = m THEN 0 ELSE i + 1
  BY DEF M!Following
<1> HIDE DEF n, m
<1>3. /\ \A i \in 0 .. (n - 1) : M!Following("fruit", i) \in 0 .. (n - 1)
      /\ \A i \in 0 .. (m - 1) : M!Following("day", i) \in 0 .. (m - 1)
  BY <1>1, <1>2
<1>4. QED
  BY <1>3 DEF n, m

-----------------------------------------------------------------------------
(* The text of a line. *)

TextLength(text) == Length[text[1]][text[2]]

TwoLines(cells, l1, v1, l2, v2) == M!Line(M!Line(cells, 0, l1, v1), 16, l2, v2)

\* The screen that is drawn.
LEMMA DrawnCases ==
    ASSUME NEW cells
    PROVE  /\ menu_mode = "display" =>
                M!Drawn(cells) = TwoLines(cells, M!Fruit, M!Value("fruit", fruit_i), M!Day, M!Value("day", day_i))
           /\ menu_mode = "set_fruit" =>
                M!Drawn(cells) = TwoLines(cells, M!Fruit, M!Value("fruit", fruit_i),
                                         M!NextIs, M!Value("fruit", M!Following("fruit", fruit_i)))
           /\ menu_mode = "set_day" =>
                M!Drawn(cells) = TwoLines(cells, M!Day, M!Value("day", day_i),
                                         M!NextIs, M!Value("day", M!Following("day", day_i)))
BY DEF M!Drawn, TwoLines

\* TwoLines once more, a screen stays.
LEMMA TwoLinesTwice ==
    ASSUME NEW cells, NEW l1, NEW v1, NEW l2, NEW v2
    PROVE  TwoLines(TwoLines(cells, l1, v1, l2, v2), l1, v1, l2, v2) = TwoLines(cells, l1, v1, l2, v2)
<1> DEFINE first(k) == M!Before(k, 0) < Len(M!Chars(l1) \o M!Chars(v1))
           second(k) == M!Before(k, 16) < Len(M!Chars(l2) \o M!Chars(v2))
           char1(k) == (M!Chars(l1) \o M!Chars(v1))[M!Before(k, 0) + 1]
           char2(k) == (M!Chars(l2) \o M!Chars(v2))[M!Before(k, 16) + 1]
<1>1. ASSUME NEW c
      PROVE  /\ M!Line(c, 0, l1, v1) = [k \in 0 .. 31 |-> IF first(k) THEN char1(k) ELSE c[k]]
             /\ M!Line(c, 16, l2, v2) = [k \in 0 .. 31 |-> IF second(k) THEN char2(k) ELSE c[k]]
  BY DEF M!Line
<1> HIDE DEF first, second, char1, char2
<1>2. ASSUME NEW c
      PROVE  TwoLines(c, l1, v1, l2, v2)
               = [k \in 0 .. 31 |-> IF second(k) THEN char2(k) ELSE IF first(k) THEN char1(k) ELSE c[k]]
  <2> DEFINE b == M!Line(c, 0, l1, v1)
  <2>1. \A k \in 0 .. 31 : b[k] = IF first(k) THEN char1(k) ELSE c[k]
    BY <1>1, ZenonT(60)
  <2>2. TwoLines(c, l1, v1, l2, v2) = M!Line(b, 16, l2, v2)
    BY DEF TwoLines
  <2> HIDE DEF b
  <2>3. M!Line(b, 16, l2, v2) = [k \in 0 .. 31 |-> IF second(k) THEN char2(k) ELSE b[k]]
    BY <1>1
  <2>4. QED
    BY <2>1, <2>2, <2>3
<1> DEFINE a == TwoLines(cells, l1, v1, l2, v2)
<1>3. \A k \in 0 .. 31 : a[k] = IF second(k) THEN char2(k) ELSE IF first(k) THEN char1(k) ELSE cells[k]
  BY <1>2
<1>4. a = [k \in 0 .. 31 |-> IF second(k) THEN char2(k) ELSE IF first(k) THEN char1(k) ELSE cells[k]]
  BY <1>2
<1> HIDE DEF a
<1>5. TwoLines(a, l1, v1, l2, v2)
        = [k \in 0 .. 31 |-> IF second(k) THEN char2(k) ELSE IF first(k) THEN char1(k) ELSE a[k]]
  BY <1>2
<1>6. TwoLines(a, l1, v1, l2, v2) = a
  BY <1>3, <1>4, <1>5
<1>7. QED
  BY <1>6 DEF a

LEMMA DrawnTwice ==
    ASSUME MenuType, NEW cells PROVE M!Drawn(M!Drawn(cells)) = M!Drawn(cells)
<1>1. CASE menu_mode = "display"
  BY <1>1, DrawnCases, TwoLinesTwice
<1>2. CASE menu_mode = "set_fruit"
  BY <1>2, DrawnCases, TwoLinesTwice
<1>3. CASE menu_mode = "set_day"
  BY <1>3, DrawnCases, TwoLinesTwice
<1>4. QED
  BY <1>1, <1>2, <1>3 DEF MenuType

LEMMA CharsJoined ==
    ASSUME NEW l, NEW v, TextLength(l) \in Nat, TextLength(v) \in Nat
    PROVE  /\ Len(M!Chars(l) \o M!Chars(v)) = TextLength(l) + TextLength(v)
           /\ Len(M!Chars(v)) = TextLength(v)
           /\ \A k \in 1 .. TextLength(v) : (M!Chars(l) \o M!Chars(v))[TextLength(l) + k] = M!Chars(v)[k]
<1> DEFINE n == TextLength(l)
           m == TextLength(v)
           s == M!Chars(l)
           u == M!Chars(v)
           V == {<<l[1], l[2], k>> : k \in Nat} \cup {<<v[1], v[2], k>> : k \in Nat}
<1>1. s = [k \in 1 .. n |-> <<l[1], l[2], k>>] /\ u = [k \in 1 .. m |-> <<v[1], v[2], k>>]
  BY DEF M!Chars, TextLength
<1>2. n \in Nat /\ m \in Nat
  OBVIOUS
<1> HIDE DEF n, m, s, u
<1>3. (\A k \in 1 .. n : <<l[1], l[2], k>> \in V) /\ (\A k \in 1 .. m : <<v[1], v[2], k>> \in V)
  OBVIOUS
<1> HIDE DEF V
<1>4. s \in [1 .. n -> V] /\ u \in [1 .. m -> V]
  BY <1>1, <1>3
<1>5. s \in Seq(V) /\ Len(s) = n /\ u \in Seq(V) /\ Len(u) = m
  BY ONLY <1>2, <1>4, Sequences
<1>6. Len(s \o u) = n + m /\ \A k \in 1 .. m : (s \o u)[n + k] = u[k]
  BY <1>5, <1>2, SMTT(60)
<1>7. QED
  BY <1>5, <1>6 DEF n, m, s, u

WholeIn(screen, word) ==
    \E p \in 0 .. 31 : \A k \in 1 .. Len(word) :
        p + k - 1 < 16 * ((p \div 16) + 1) /\ screen[p + k - 1] = word[k]

\* Each value stands whole on its line.
LEMMA ValuesWhole ==
    ASSUME NEW cells, NEW l1, NEW v1, NEW l2, NEW v2,
           TextLength(l1) \in Nat, TextLength(v1) \in Nat, TextLength(l2) \in Nat, TextLength(v2) \in Nat,
           TextLength(l1) + TextLength(v1) <= 16, TextLength(l2) + TextLength(v2) <= 16
    PROVE  /\ WholeIn(TwoLines(cells, l1, v1, l2, v2), M!Chars(v1))
           /\ WholeIn(TwoLines(cells, l1, v1, l2, v2), M!Chars(v2))
<1> DEFINE n1 == TextLength(l1)
           m1 == TextLength(v1)
           n2 == TextLength(l2)
           m2 == TextLength(v2)
           s1 == M!Chars(l1) \o M!Chars(v1)
           s2 == M!Chars(l2) \o M!Chars(v2)
           screen == TwoLines(cells, l1, v1, l2, v2)
           u1 == M!Chars(v1)
           u2 == M!Chars(v2)
<1>1. /\ n1 \in Nat /\ m1 \in Nat /\ n2 \in Nat /\ m2 \in Nat /\ n1 + m1 <= 16 /\ n2 + m2 <= 16
  OBVIOUS
<1>2. /\ Len(s1) = n1 + m1 /\ Len(u1) = m1 /\ \A k \in 1 .. m1 : s1[n1 + k] = u1[k]
      /\ Len(s2) = n2 + m2 /\ Len(u2) = m2 /\ \A k \in 1 .. m2 : s2[n2 + k] = u2[k]
  BY CharsJoined, ZenonT(60)
<1>3. ASSUME NEW x \in 0 .. 31
      PROVE  screen[x] = IF (x - 16) % 32 < Len(s2) THEN s2[((x - 16) % 32) + 1]
                         ELSE IF (x - 0) % 32 < Len(s1) THEN s1[((x - 0) % 32) + 1] ELSE cells[x]
  BY DEF TwoLines, M!Line, M!Before
<1> HIDE DEF n1, m1, n2, m2, s1, s2, screen, u1, u2
<1>4. ASSUME NEW k \in 1 .. m1
      PROVE  n1 + k - 1 < 16 /\ screen[n1 + k - 1] = u1[k]
  <2> DEFINE x == n1 + k - 1
  <2>1. x \in 0 .. 15 /\ x + 1 = n1 + k /\ x < n1 + m1
    BY <1>1
  <2> HIDE DEF x
  <2>2. (x - 16) % 32 = x + 16 /\ (x - 0) % 32 = x /\ x \in 0 .. 31
    BY <2>1
  <2>3. ~((x - 16) % 32 < Len(s2)) /\ (x - 0) % 32 < Len(s1)
    BY <2>1, <2>2, <1>1, <1>2, SMTT(60)
  <2>4. screen[x] = s1[((x - 0) % 32) + 1]
    BY <2>2, <2>3, <1>3, Zenon
  <2>5. screen[x] = s1[n1 + k]
    BY <2>1, <2>2, <2>4
  <2>6. x < 16 /\ screen[x] = u1[k]
    BY <2>1, <2>5, <1>2
  <2>7. QED
    BY <2>6 DEF x
<1>5. ASSUME NEW k \in 1 .. m2
      PROVE  16 + n2 + k - 1 < 32 /\ screen[16 + n2 + k - 1] = u2[k]
  <2> DEFINE x == 16 + n2 + k - 1
  <2>1. x \in 16 .. 31 /\ (x - 16) + 1 = n2 + k /\ x - 16 < n2 + m2
    BY <1>1
  <2> HIDE DEF x
  <2>2. (x - 16) % 32 = x - 16 /\ x \in 0 .. 31
    BY <2>1
  <2>3. (x - 16) % 32 < Len(s2)
    BY <2>1, <2>2, <1>1, <1>2
  <2>4. screen[x] = s2[((x - 16) % 32) + 1]
    BY <2>2, <2>3, <1>3, Zenon
  <2>5. screen[x] = s2[n2 + k]
    BY <2>1, <2>2, <2>4
  <2>6. x < 32 /\ screen[x] = u2[k]
    BY <2>1, <2>5, <1>2
  <2>7. QED
    BY <2>6 DEF x
<1>6. WholeIn(screen, u1)
  <2> DEFINE p == IF m1 = 0 THEN 0 ELSE n1
  <2>1. p \in 0 .. 15 /\ p \div 16 = 0
    BY <1>1
  <2>2. m1 # 0 => p = n1
    OBVIOUS
  <2> HIDE DEF p
  <2>3. ASSUME NEW k \in 1 .. Len(u1)
        PROVE  p + k - 1 < 16 * ((p \div 16) + 1) /\ screen[p + k - 1] = u1[k]
    <3>1. k \in 1 .. m1 /\ p = n1
      BY <1>1, <1>2, <2>2
    <3>2. QED
      BY <3>1, <2>1, <1>4
  <2>4. p \in 0 .. 31
    BY <2>1
  <2>5. QED
    BY <2>3, <2>4 DEF WholeIn
<1>7. WholeIn(screen, u2)
  <2> DEFINE p == IF m2 = 0 THEN 16 ELSE 16 + n2
  <2>1. p \in 16 .. 31 /\ p \div 16 = 1
    BY <1>1
  <2>2. m2 # 0 => p = 16 + n2
    OBVIOUS
  <2> HIDE DEF p
  <2>3. ASSUME NEW k \in 1 .. Len(u2)
        PROVE  p + k - 1 < 16 * ((p \div 16) + 1) /\ screen[p + k - 1] = u2[k]
    <3>1. k \in 1 .. m2 /\ p = 16 + n2
      BY <1>1, <1>2, <2>2
    <3>2. QED
      BY <3>1, <2>1, <1>5
  <2>4. p \in 0 .. 31
    BY <2>1
  <2>5. QED
    BY <2>3, <2>4 DEF WholeIn
<1>8. QED
  BY <1>6, <1>7 DEF screen, u1, u2

-----------------------------------------------------------------------------
LEMMA MenuStart ==
    ASSUME M!Init PROVE MenuInv
<1>1. /\ menu_mode = "display" /\ fruit_i = 0 /\ day_i = 0
      /\ cell = M!Blank /\ shift = 0 /\ poll = "draw"
  BY DEF M!Init
<1>2. 0 \in 0 .. (M!CNT("fruit") - 1) /\ 0 \in 0 .. (M!CNT("day") - 1)
  BY Counted
<1>3. QED
  BY <1>1, <1>2 DEF MenuInv, MenuType, NothingElseLeft

LEMMA MenuDraw ==
    ASSUME MenuInv, M!Draw PROVE MenuInv'
<1>1. /\ poll = "draw" /\ cell' = M!Drawn(cell)
      /\ poll' = (IF menu_mode = "display" THEN "download" ELSE "button")
      /\ UNCHANGED <<menu_mode, fruit_i, day_i, shift>>
  BY DEF M!Draw
<1>2. MenuType /\ cell \in {M!Blank, M!Drawn(M!Blank)} /\ shift = 0
  BY <1>1 DEF MenuInv, NothingElseLeft
<1>3. cell' = M!Drawn(M!Blank)
  BY <1>1, <1>2, DrawnTwice
<1>4. M!Drawn(M!Blank)' = M!Drawn(M!Blank)
  BY <1>1 DEF M!Drawn, M!Blank
<1>5. MenuType'
  BY <1>1, <1>2 DEF MenuType
<1>6. NothingElseLeft'
  BY <1>1, <1>2, <1>3, <1>4 DEF NothingElseLeft
<1>7. QED
  BY <1>5, <1>6 DEF MenuInv

\* No button pressed: the screen stays.
LEMMA MenuUnpressed ==
    ASSUME MenuInv, M!Released \/ M!NotDownload PROVE MenuInv'
<1>1. /\ \/ poll = "button" /\ poll' = "download"
         \/ poll = "download" /\ poll' = "draw"
      /\ UNCHANGED <<menu_mode, fruit_i, day_i, cell, shift>>
  BY DEF M!Released, M!NotDownload
<1>2. M!Drawn(M!Blank)' = M!Drawn(M!Blank) /\ M!Blank' = M!Blank
  BY <1>1 DEF M!Drawn, M!Blank
<1>3. MenuType'
  BY <1>1 DEF MenuInv, MenuType
<1>4. NothingElseLeft'
  BY <1>1, <1>2 DEF MenuInv, NothingElseLeft
<1>5. QED
  BY <1>3, <1>4 DEF MenuInv

LEMMA MenuPressed ==
    ASSUME MenuInv, M!Pressed PROVE MenuInv'
<1>1. /\ poll = "button" /\ poll' = "download" /\ cell' = M!Blank /\ shift' = 0 /\ menu_mode' = menu_mode
      /\ \/ fruit_i' = M!Following("fruit", fruit_i) /\ day_i' = day_i
         \/ day_i' = M!Following("day", day_i) /\ fruit_i' = fruit_i
  BY DEF M!Pressed, M!cls
<1>2. menu_mode # "display" /\ MenuType
  BY <1>1 DEF MenuInv, NothingElseLeft
<1>3. MenuType'
  BY <1>1, <1>2, FollowingInRange DEF MenuType
<1>4. M!Blank' = M!Blank
  BY DEF M!Blank
<1>5. NothingElseLeft'
  BY <1>1, <1>2, <1>4 DEF NothingElseLeft
<1>6. QED
  BY <1>3, <1>5 DEF MenuInv

LEMMA MenuScroll ==
    ASSUME MenuInv, M!Scroll PROVE MenuInv'
<1> DEFINE m == CHOOSE i \in 1 .. 3 : M!Modes[i] = menu_mode
<1>1. /\ poll' = "scrolled" /\ menu_mode' = M!Modes[(m % 3) + 1]
      /\ UNCHANGED <<fruit_i, day_i, cell>>
  BY DEF M!Scroll
<1>2. m \in 1 .. 3
  <2>1. \E i \in 1 .. 3 : M!Modes[i] = menu_mode
    <3>1. /\ M!Modes[1] = "display" /\ M!Modes[2] = "set_fruit" /\ M!Modes[3] = "set_day"
          /\ 1 \in 1 .. 3 /\ 2 \in 1 .. 3 /\ 3 \in 1 .. 3
      BY DEF M!Modes
    <3>2. QED
      BY <3>1 DEF MenuInv, MenuType
  <2>2. QED
    BY <2>1
<1> HIDE DEF m
<1>3. (m % 3) + 1 \in 1 .. 3
  BY <1>2
<1>4. \A i \in 1 .. 3 : M!Modes[i] \in {"display", "set_fruit", "set_day"}
  BY DEF M!Modes
<1>5. MenuType'
  BY <1>1, <1>3, <1>4 DEF MenuInv, MenuType
<1>6. NothingElseLeft'
  BY <1>1 DEF NothingElseLeft
<1>7. QED
  BY <1>5, <1>6 DEF MenuInv

LEMMA MenuCleared ==
    ASSUME MenuInv, M!Cleared PROVE MenuInv'
<1>1. /\ poll' = "draw" /\ cell' = M!Blank /\ shift' = 0 /\ UNCHANGED <<menu_mode, fruit_i, day_i>>
  BY DEF M!Cleared, M!cls
<1>2. M!Blank' = M!Blank
  BY DEF M!Blank
<1>3. MenuType'
  BY <1>1 DEF MenuInv, MenuType
<1>4. NothingElseLeft'
  BY <1>1, <1>2 DEF NothingElseLeft
<1>5. QED
  BY <1>3, <1>4 DEF MenuInv

LEMMA MenuStays ==
    ASSUME MenuInv, [M!Next]_(M!vars) PROVE MenuInv'
<1>1. CASE UNCHANGED M!vars
  BY <1>1 DEF M!vars, MenuInv, MenuType, NothingElseLeft, M!Drawn, M!Blank
<1>2. QED
  BY <1>1, MenuDraw, MenuUnpressed, MenuPressed, MenuScroll, MenuCleared DEF M!Next

LEMMA MenuImplies ==
    ASSUME MenuInv PROVE M!ScreenTrue
<1> SUFFICES ASSUME poll = "button" \/ (poll = "download" /\ menu_mode = "display")
             PROVE  /\ cell = M!Drawn(M!Blank) /\ shift = 0
                    /\ menu_mode # "set_day" => M!Whole(M!Chars(M!Value("fruit", fruit_i)))
                    /\ menu_mode # "set_fruit" => M!Whole(M!Chars(M!Value("day", day_i)))
  BY DEF M!ScreenTrue
<1>1. MenuType /\ cell = M!Drawn(M!Blank) /\ shift = 0
  BY DEF MenuInv, NothingElseLeft
<1> DEFINE fi == fruit_i
           di == day_i
           nf == M!Following("fruit", fruit_i)
           nd == M!Following("day", day_i)
           tf == M!Value("fruit", fi)
           td == M!Value("day", di)
           ef == M!Value("fruit", nf)
           ed == M!Value("day", nd)
<1>2. /\ fi \in 0 .. (M!CNT("fruit") - 1) /\ di \in 0 .. (M!CNT("day") - 1)
      /\ nf \in 0 .. (M!CNT("fruit") - 1) /\ nd \in 0 .. (M!CNT("day") - 1)
  BY <1>1, FollowingInRange DEF MenuType
<1>3. /\ TextLength(M!Fruit) = Length["label"][1] /\ TextLength(M!Day) = Length["label"][2]
      /\ TextLength(M!NextIs) = Length["label"][3]
      /\ TextLength(tf) = Length["fruit"][fi + 1] /\ TextLength(ef) = Length["fruit"][nf + 1]
      /\ TextLength(td) = Length["day"][di + 1] /\ TextLength(ed) = Length["day"][nd + 1]
  BY DEF TextLength, M!Fruit, M!Day, M!NextIs, M!Value
<1>4. /\ menu_mode = "display" => cell = TwoLines(M!Blank, M!Fruit, tf, M!Day, td)
      /\ menu_mode = "set_fruit" => cell = TwoLines(M!Blank, M!Fruit, tf, M!NextIs, ef)
      /\ menu_mode = "set_day" => cell = TwoLines(M!Blank, M!Day, td, M!NextIs, ed)
  BY <1>1, DrawnCases
<1>5. \A word : WholeIn(cell, word) => M!Whole(word)
  BY DEF WholeIn, M!Whole
<1> HIDE DEF fi, di, nf, nd, tf, td, ef, ed
<1>6. /\ TextLength(M!Fruit) \in Nat /\ TextLength(M!Day) \in Nat /\ TextLength(M!NextIs) \in Nat
      /\ TextLength(tf) \in Nat /\ TextLength(td) \in Nat /\ TextLength(ef) \in Nat /\ TextLength(ed) \in Nat
      /\ TextLength(M!Fruit) + TextLength(tf) <= 16 /\ TextLength(M!NextIs) + TextLength(ef) <= 16
      /\ TextLength(M!Day) + TextLength(td) <= 16 /\ TextLength(M!NextIs) + TextLength(ed) <= 16
  <2>1. 1 \in 1 .. 3 /\ 2 \in 1 .. 3 /\ 3 \in 1 .. 3
    OBVIOUS
  <2>2. QED
    BY <1>2, <1>3, <2>1, Fits
<1>7. CASE menu_mode = "display"
  <2>1. WholeIn(cell, M!Chars(tf)) /\ WholeIn(cell, M!Chars(td))
    BY <1>4, <1>6, <1>7, ValuesWhole
  <2>2. QED
    BY <2>1, <1>1, <1>5 DEF tf, td, fi, di
<1>8. CASE menu_mode = "set_fruit"
  <2>1. WholeIn(cell, M!Chars(tf))
    BY <1>4, <1>6, <1>8, ValuesWhole
  <2>2. QED
    BY <2>1, <1>1, <1>5, <1>8 DEF tf, fi
<1>9. CASE menu_mode = "set_day"
  <2>1. WholeIn(cell, M!Chars(td))
    BY <1>4, <1>6, <1>9, ValuesWhole
  <2>2. QED
    BY <2>1, <1>1, <1>5, <1>9 DEF td, di
<1>10. QED
  BY <1>1, <1>7, <1>8, <1>9 DEF MenuType

-----------------------------------------------------------------------------
(* The board. *)

\* A step of the board is one of the application burnt in, or changes nothing of it.
LEMMA OutputOrStutter ==
    ASSUME [Next]_vars
    PROVE  /\ app' = app
           /\ app = "cube" => [L!Next]_(L!vars)
           /\ app = "wave" => [W!Next]_(W!vars)
           /\ app = "menu" => [M!Next]_(M!vars)
<1>1. CASE Next
  BY <1>1 DEF Next, Demo, Clock, Remote, Radio, Pager, Console, Flash, Cube, Wave, Menu
<1>2. CASE UNCHANGED vars
  BY <1>2 DEF vars, small, cubeVars, waveVars, menuVars, L!vars, W!vars, M!vars
<1>3. QED
  BY <1>1, <1>2

OutputInv ==
    /\ app = "cube" => CubeInv
    /\ app = "wave" => WaveInv
    /\ app = "menu" => MenuInv

LEMMA OutputStart == Init => OutputInv
<1> SUFFICES ASSUME Init PROVE OutputInv
  OBVIOUS
<1>1. /\ app = "cube" => L!Init
      /\ app = "wave" => W!Init
      /\ app = "menu" => M!Init
  BY DEF Init
<1>2. QED
  BY <1>1, CubeStart, WaveStart, MenuStart DEF OutputInv

LEMMA OutputStep ==
    ASSUME OutputInv, [Next]_vars PROVE OutputInv'
<1>1. /\ app' = app
      /\ app = "cube" => [L!Next]_(L!vars)
      /\ app = "wave" => [W!Next]_(W!vars)
      /\ app = "menu" => [M!Next]_(M!vars)
  BY OutputOrStutter
<1>2. CASE app = "cube"
  <2>1. CubeInv'
    BY <1>1, <1>2, CubeStays DEF OutputInv
  <2>2. QED
    BY <2>1, <1>1, <1>2 DEF OutputInv
<1>3. CASE app = "wave"
  <2>1. WaveInv'
    BY <1>1, <1>3, WaveStays DEF OutputInv
  <2>2. QED
    BY <2>1, <1>1, <1>3 DEF OutputInv
<1>4. CASE app = "menu"
  <2>1. MenuInv'
    BY <1>1, <1>4, MenuStays DEF OutputInv
  <2>2. QED
    BY <2>1, <1>1, <1>4 DEF OutputInv
<1>5. CASE app \notin {"cube", "wave", "menu"}
  BY <1>1, <1>5 DEF OutputInv
<1>6. QED
  BY <1>2, <1>3, <1>4, <1>5

LEMMA OutputAlways == FairSpec => []OutputInv
<1>1. Init => OutputInv
  BY OutputStart
<1>2. OutputInv /\ [Next]_vars => OutputInv'
  BY OutputStep
<1>3. QED
  BY <1>1, <1>2, PTL DEF FairSpec

\* Four interrupts after the last change the cube shows the coordinates that are set, and
\* none stays on between two figures, for any number of rounds of each; the walk up and
\* down a quarter of the sine neither repeats nor leaves out a sample, for any table and
\* any length of the square waves' period; a screen of the menu is that of its mode and
\* values, with nothing left of another, for any texts that fit in their lines.
THEOREM OutputsInShape == FairSpec => []OutputInShape
<1>1. OutputInv => OutputInShape
  <2>1. WaveInv => W!WavesInShape
    BY DEF WaveInv
  <2>2. QED
    BY <2>1, CubeImplies, MenuImplies DEF OutputInv, OutputInShape
<1>2. QED
  BY <1>1, OutputAlways, PTL
=============================================================================
