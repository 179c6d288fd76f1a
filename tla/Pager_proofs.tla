---------------------------- MODULE Pager_proofs ----------------------------
(***************************************************************************)
(* What the pager shows, whatever is lost on the air and whenever it is    *)
(* reset: the two nibbles of each byte meet on its display, which the main *)
(* loop and the receive interrupt both drive, and no packet made up of     *)
(* parts of two passes for one that was sent.                              *)
(***************************************************************************)
EXTENDS Board, TLAPS

\* A step of the board is one of the pager's if that is burnt in.
LEMMA PagerOrStutter ==
    ASSUME [Next]_vars
    PROVE  app' = app /\ (app = "pager" => [P!Next]_(P!vars))
<1>1. CASE Next
  BY <1>1 DEF Next, Demo, Clock, Remote, Radio, Pager, Console, Flash, Cube, Wave, Menu
<1>2. CASE UNCHANGED vars
  BY <1>2 DEF vars, pagerVars, P!vars, P!pins
<1>3. QED
  BY <1>1, <1>2

LEMMA SameSequence ==
    ASSUME NEW S, NEW T, NEW s, NEW u, s \in Seq(S), u \in Seq(T),
           Len(s) = Len(u), \A i \in 1 .. Len(u) : s[i] = u[i]
    PROVE  s = u
OBVIOUS

-----------------------------------------------------------------------------
(* The pager's display: what the calls of the library do to it. *)

\* The byte that a call sends, whether it is data, and the steps before it.
Value(k) == CASE k[1] = "move" -> P!ddram_addr(k[2]) [] k[1] = "cls" -> 1 [] OTHER -> k[2]
Kind(k) == IF k[1] = "data" THEN 1 ELSE 0
Lead(k) == IF k[1] = "move" THEN 1 ELSE 0

Commands == {51, 50, 40, 12, 6}
Shows == ({"data"} \X Byte) \cup ({"move"} \X (0 .. 31))
Plain == Shows \cup ({"tx"} \X Byte) \cup {<<"sei">>}
Writes == Shows \cup ({"cmd"} \X Commands) \cup {<<"cls">>}    \* these send a byte
AllCalls == Plain \cup Writes

Size(k) ==
    CASE k[1] = "cmd" -> 8
      [] k[1] \in {"data", "cls"} -> 10
      [] k[1] = "move" -> 9
      [] OTHER -> 1

\* Two nibbles, one after the other.
LEMMA Eight ==
  ASSUME NEW a, NEW b, NEW c, NEW d, NEW e, NEW f, NEW g, NEW h 
  PROVE <<a,b,c,d>> \o <<e,f,g,h>> = <<a,b,c,d,e,f,g,h>>
<1> DEFINE S == {a,b,c,d,e,f,g,h}
           x == <<a,b,c,d>>
           y == <<e,f,g,h>>
           w == <<a,b,c,d,e,f,g,h>>
<1>1. x \in Seq(S) /\ y \in Seq(S) /\ w \in Seq(S) /\ Len(x) = 4 /\ Len(y) = 4 /\ Len(w) = 8
  OBVIOUS
<1>2. x[1] = a /\ x[2] = b /\ x[3] = c /\ x[4] = d /\ y[1] = e /\ y[2] = f /\ y[3] = g /\ y[4] = h
  OBVIOUS
<1>3. w[1] = a /\ w[2] = b /\ w[3] = c /\ w[4] = d /\ w[5] = e /\ w[6] = f /\ w[7] = g /\ w[8] = h
  OBVIOUS
<1> DEFINE z == x \o y
<1> HIDE DEF S, x, y, w
<1>4. x \in Seq(S) /\ y \in Seq(S)
  BY <1>1
<1>9. z \in Seq(S) /\ Len(z) = Len(x) + Len(y)
  BY <1>4
<1>10. /\ \A i \in 1 .. Len(x) : z[i] = x[i]
       /\ \A i \in 1 .. Len(y) : z[Len(x) + i] = y[i]
  BY <1>4
<1> HIDE DEF z
<1>6. \A i \in 1 .. 8 : z[i] = w[i]
  <2>1. z[1] = w[1] /\ z[2] = w[2] /\ z[3] = w[3] /\ z[4] = w[4]
    BY <1>1, <1>2, <1>3, <1>10
  <2>2. z[5] = w[5] /\ z[6] = w[6] /\ z[7] = w[7] /\ z[8] = w[8]
    BY <1>1, <1>2, <1>3, <1>10
  <2>3. QED
    BY <2>1, <2>2
<1>7. z = w
  <2>1. z \in Seq(S) /\ w \in Seq(S)
    BY <1>1, <1>9
  <2>2. Len(z) = 8 /\ Len(w) = 8
    BY <1>1, <1>9
  <2>3. Len(z) = Len(w) /\ \A i \in 1 .. Len(w) : z[i] = w[i]
    BY <1>6, <2>2
  <2>4. QED
    BY <2>1, <2>3, SameSequence
<1>8. QED
  BY <1>7 DEF x, y, z, w

LEMMA WriteIs ==
    ASSUME NEW type, NEW v
    PROVE  P!clcd_wr(type, v) = <<<<"rs", type>>, <<"bus", v \div 16>>, <<"up">>, <<"down">>,
                                  <<"rs", type>>, <<"bus", v % 16>>, <<"up">>, <<"down">>>>
BY Eight DEF P!clcd_wr, P!Nibble

LEMMA ValueIs ==
    ASSUME NEW k \in Writes
    PROVE  Value(k) \in Byte /\ Value(k) \div 16 \in 0 .. 15 /\ Value(k) % 16 \in 0 .. 15
<1>1. Value(k) \in Byte
  BY DEF Writes, Shows, Commands, Value, P!ddram_addr, Byte
<1>2. QED
  BY <1>1 DEF Byte

\* The steps of a call that sends a byte.
LEMMA OpsAre ==
    ASSUME NEW k \in Writes
    PROVE  LET o == P!Ops(k) IN
           /\ Len(o) = Size(k)
           /\ k[1] = "move" =>
                  /\ o[1] = <<"pos", k[2]>>
                  /\ o[2] = <<"rs", Kind(k)>> /\ o[3] = <<"bus", Value(k) \div 16>>
                  /\ o[4] = <<"up">> /\ o[5] = <<"down">>
                  /\ o[6] = <<"rs", Kind(k)>> /\ o[7] = <<"bus", Value(k) % 16>>
                  /\ o[8] = <<"up">> /\ o[9] = <<"down">>
           /\ k[1] # "move" =>
                  /\ o[1] = <<"rs", Kind(k)>> /\ o[2] = <<"bus", Value(k) \div 16>>
                  /\ o[3] = <<"up">> /\ o[4] = <<"down">>
                  /\ o[5] = <<"rs", Kind(k)>> /\ o[6] = <<"bus", Value(k) % 16>>
                  /\ o[7] = <<"up">> /\ o[8] = <<"down">>
           /\ k[1] = "data" => o[9] = <<"load">> /\ o[10] = <<"store">>
           /\ k[1] = "cls" => o[9] = <<"pos", 0>> /\ o[10] = <<"delay">>
<1> DEFINE v == Value(k)
           q == Kind(k)
           w == <<<<"rs", q>>, <<"bus", v \div 16>>, <<"up">>, <<"down">>,
                  <<"rs", q>>, <<"bus", v % 16>>, <<"up">>, <<"down">>>>
<1>1. P!clcd_wr(q, v) = w
  BY WriteIs
<1> HIDE DEF v, q
<1>2. CASE k[1] = "cmd"
  <2>1. P!Ops(k) = w
    BY <1>1, <1>2 DEF P!Ops, v, q, Value, Kind
  <2>2. QED
    BY <1>2, <2>1 DEF Lead, Size, v, q
<1>3. CASE k[1] = "data"
  <2>1. P!Ops(k) = w \o <<<<"load">>, <<"store">>>>
    BY <1>1, <1>3 DEF P!Ops, v, q, Value, Kind
  <2>2. QED
    BY <1>3, <2>1 DEF Lead, Size, v, q
<1>4. CASE k[1] = "move"
  <2>1. P!Ops(k) = <<<<"pos", k[2]>>>> \o w
    BY <1>1, <1>4 DEF P!Ops, v, q, Value, Kind
  <2>2. QED
    BY <1>4, <2>1 DEF Lead, Size, v, q
<1>5. CASE k[1] = "cls"
  <2>1. P!Ops(k) = w \o <<<<"pos", 0>>, <<"delay">>>>
    BY <1>1, <1>5 DEF P!Ops, v, q, Value, Kind
  <2>2. QED
    BY <1>5, <2>1 DEF Lead, Size, v, q
<1>6. k[1] \in {"cmd", "data", "move", "cls"}
  BY DEF Writes, Shows
<1>7. QED
  BY <1>2, <1>3, <1>4, <1>5, <1>6

CallOk(c) ==
    /\ DOMAIN c = {"todo", "step", "reg"} /\ c.todo \in Seq(AllCalls)
    /\ c.step \in 1 .. (IF c.todo = <<>> THEN 1 ELSE Size(Head(c.todo)))

LEMMA FirstCall ==
    ASSUME NEW s, NEW S, s \in Seq(S), s # <<>>
    PROVE  Head(s) \in S /\ Tail(s) \in Seq(S) /\ Len(s) \in Nat \ {0} /\ Head(s) = s[1]
OBVIOUS

LEMMA Single ==
    ASSUME NEW k \in AllCalls, k \notin Writes
    PROVE  P!Ops(k) = <<k>> /\ Size(k) = 1 /\ k[1] \in {"tx", "sei"}
<1>1. k \in {"tx"} \X Byte \/ k = <<"sei">>
  BY DEF AllCalls, Plain, Writes
<1>2. k[1] \in {"tx", "sei"}
  BY <1>1
<1>3. QED
  BY <1>2 DEF P!Ops, Size

\* Which step it is.
LEMMA OpIs ==
    ASSUME NEW c, CallOk(c), c.todo # <<>>,
           NEW k, k = Head(c.todo), NEW n, n = c.step - Lead(k), k \in Writes
    PROVE  /\ n \in 0 .. 10
           /\ n = 0 => P!Op(c) = <<"pos", k[2]>>
           /\ n \in {1, 5} => P!Op(c) = <<"rs", Kind(k)>>
           /\ n = 2 => P!Op(c) = <<"bus", Value(k) \div 16>>
           /\ n = 6 => P!Op(c) = <<"bus", Value(k) % 16>>
           /\ n \in {3, 7} => P!Op(c) = <<"up">>
           /\ n \in {4, 8} => P!Op(c) = <<"down">>
           /\ n = 9 => P!Op(c) \in {<<"load">>, <<"pos", 0>>} /\ k[1] \in {"data", "cls"}
           /\ n = 10 => P!Op(c) = (IF k[1] = "data" THEN <<"store">> ELSE <<"delay">>)
           /\ n = 10 => k[1] \in {"data", "cls"}
           /\ k[1] = "move" => Lead(k) = 1 /\ Size(k) = 9
           /\ k[1] = "cmd" => Lead(k) = 0 /\ Size(k) = 8
           /\ k[1] \in {"data", "cls"} => Lead(k) = 0 /\ Size(k) = 10
           /\ k[1] \in {"move", "cmd", "data", "cls"}
<1> DEFINE o == P!Ops(k)
           s == c.step
<1>1. P!Op(c) = o[s]
  BY DEF P!Op
<1>2. k[1] \in {"move", "cmd", "data", "cls"}
  BY DEF Writes, Shows
<1>3. s \in 1 .. Size(k)
  BY SMTT(60) DEF CallOk
<1> HIDE DEF o, s
<1>4. CASE k[1] = "move"
  <2>1. Lead(k) = 1 /\ Size(k) = 9
    BY <1>4 DEF Lead, Size
  <2>2. s \in 1 .. 9 /\ n = s - 1
    BY <1>3, <2>1 DEF s
  <2>3. n \in 0 .. 8 /\ s = n + 1
    BY <2>2
  <2>4. /\ o[1] = <<"pos", k[2]>>
        /\ o[2] = <<"rs", Kind(k)>> /\ o[6] = <<"rs", Kind(k)>>
        /\ o[3] = <<"bus", Value(k) \div 16>> /\ o[7] = <<"bus", Value(k) % 16>>
        /\ o[4] = <<"up">> /\ o[8] = <<"up">> /\ o[5] = <<"down">> /\ o[9] = <<"down">>
    BY <1>4, <2>1, OpsAre, ZenonT(60) DEF o
  <2>5. QED
    BY <1>1, <1>2, <1>4, <2>1, <2>3, <2>4, SMTT(60)
<1>5. CASE k[1] # "move"
  <2>1. Lead(k) = 0 /\ Size(k) \in {8, 10} /\ (k[1] = "cmd" <=> Size(k) = 8)
    BY <1>2, <1>5 DEF Lead, Size
  <2>2. s \in 1 .. 10 /\ n = s /\ (s > 8 => k[1] # "cmd")
    BY <1>3, <2>1 DEF s
  <2>3. /\ o[1] = <<"rs", Kind(k)>> /\ o[5] = <<"rs", Kind(k)>>
        /\ o[2] = <<"bus", Value(k) \div 16>> /\ o[6] = <<"bus", Value(k) % 16>>
        /\ o[3] = <<"up">> /\ o[7] = <<"up">> /\ o[4] = <<"down">> /\ o[8] = <<"down">>
        /\ k[1] = "data" => o[9] = <<"load">> /\ o[10] = <<"store">>
        /\ k[1] = "cls" => o[9] = <<"pos", 0>> /\ o[10] = <<"delay">>
    BY <1>5, OpsAre DEF o
  <2>4. P!Op(c) = o[n] /\ n \in 1 .. 10 /\ (n > 8 => k[1] \in {"data", "cls"})
    BY <1>1, <1>2, <1>5, <2>2
  <2>5. /\ n \in {1, 5} => P!Op(c) = <<"rs", Kind(k)>>
        /\ n = 2 => P!Op(c) = <<"bus", Value(k) \div 16>>
        /\ n = 6 => P!Op(c) = <<"bus", Value(k) % 16>>
        /\ n \in {3, 7} => P!Op(c) = <<"up">>
        /\ n \in {4, 8} => P!Op(c) = <<"down">>
    BY <2>3, <2>4
  <2>6. /\ n = 9 => P!Op(c) \in {<<"load">>, <<"pos", 0>>}
        /\ n = 10 => P!Op(c) = (IF k[1] = "data" THEN <<"store">> ELSE <<"delay">>)
    <3>1. n > 8 => k[1] = "data" \/ (k[1] = "cls" /\ k[1] # "data")
      BY <2>4
    <3>2. n = 9 => P!Op(c) = o[9]
      BY <2>4
    <3>3. n = 10 => P!Op(c) = o[10]
      BY <2>4
    <3>4. n = 9 \/ n = 10 => n > 8
      BY <2>4
    <3>5. QED
      BY Zenon, <2>3, <3>1, <3>2, <3>3, <3>4
  <2>7. QED
    BY <1>2, <1>5, <2>1, <2>4, <2>5, <2>6, SMTT(60)
<1>6. QED
  BY <1>4, <1>5

\* The next step is of the same call, of the next one, or moves to the next line.
LEMMA Advances ==
    ASSUME NEW c, CallOk(c), c.todo # <<>>, NEW k, k = Head(c.todo), NEW d, d = P!After(c)
    PROVE  /\ DOMAIN d = {"todo", "step", "reg"}
           /\ c.step < Size(k) => d.todo = c.todo /\ d.step = c.step + 1
           /\ ~(c.step < Size(k)) =>
                  /\ c.step = Size(k) /\ d.step = 1
                  /\ \/ d.todo = Tail(c.todo)
                     \/ k[1] = "data" /\ \E p \in {16, 32} : d.todo = <<P!MoveTo(p)>> \o Tail(c.todo)
<1> DEFINE more == IF c.step < Len(P!Ops(k)) THEN [c EXCEPT !.step = @ + 1] ELSE P!At(Tail(c.todo))
<1>1. k \in AllCalls /\ c.step \in 1 .. Size(k) /\ DOMAIN c = {"todo", "step", "reg"}
  BY FirstCall DEF CallOk
<1>2. Len(P!Ops(k)) = Size(k) /\ Size(k) \in {1, 8, 9, 10}
  <2>1. CASE k \in Writes
    BY <2>1, OpsAre DEF Size
  <2>2. CASE k \notin Writes
    BY <1>1, <2>2, Single
  <2>3. QED
    BY <2>1, <2>2
<1>3. /\ DOMAIN more = {"todo", "step", "reg"}
      /\ c.step < Size(k) => more.todo = c.todo /\ more.step = c.step + 1
      /\ ~(c.step < Size(k)) => c.step = Size(k) /\ more.step = 1 /\ more.todo = Tail(c.todo)
  BY <1>1, <1>2 DEF P!At
<1>4. P!Op(c)[1] = "store" => k[1] = "data" /\ c.step = Size(k)
  <2>1. CASE k \in Writes
    <3> DEFINE n == c.step - Lead(k)
    <3>1. n \in 0 .. 10
      BY <2>1, OpIs
    <3>2. n \in 0 .. 9 => P!Op(c)[1] # "store"
      <4>1. Lead(k) \in {0, 1} /\ n = c.step - Lead(k)
        BY DEF Lead
      <4> HIDE DEF n
      <4>2. n \in {0, 1, 2, 3, 4, 5, 6, 7, 8, 9} => P!Op(c)[1] \in {"pos", "rs", "bus", "up", "down", "load"}
        BY <2>1, <4>1, OpIs
      <4>3. QED
        BY <4>2
    <3>3. n = 10 => k[1] \in {"data", "cls"} /\ Lead(k) = 0 /\ Size(k) = 10
      BY <2>1, OpIs
    <3>4. (n = 10 /\ k[1] = "cls") => P!Op(c)[1] # "store"
      BY <2>1, OpIs
    <3>5. QED
      BY <1>1, <3>1, <3>2, <3>3, <3>4
  <2>2. CASE k \notin Writes
    <3>1. P!Op(c) = k /\ k[1] \in {"tx", "sei"}
      BY <1>1, <2>2, Single DEF P!Op
    <3>2. QED
      BY <3>1
  <2>3. QED
    BY <2>1, <2>2
<1>5. CASE P!Op(c)[1] = "load"
  <2>1. d = [more EXCEPT !.reg = clcd_pos]
    BY <1>5 DEF P!After
  <2> HIDE DEF more
  <2>2. QED
    BY <1>3, <2>1
<1>6. CASE P!Op(c)[1] = "store" /\ c.reg + 1 \in {16, 32}
  <2>1. d = P!At(<<P!MoveTo(c.reg + 1)>> \o Tail(c.todo))
    BY <1>6 DEF P!After
  <2>2. DOMAIN d = {"todo", "step", "reg"} /\ d.step = 1 /\ d.todo = <<P!MoveTo(c.reg + 1)>> \o Tail(c.todo)
    BY <2>1 DEF P!At
  <2>3. QED
    BY <1>1, <1>2, <1>4, <1>6, <2>2
<1>7. CASE P!Op(c)[1] # "load" /\ ~(P!Op(c)[1] = "store" /\ c.reg + 1 \in {16, 32})
  <2>1. d = more
    BY <1>7 DEF P!After
  <2>2. QED
    BY <1>3, <2>1
<1>8. QED
  BY <1>5, <1>6, <1>7

-----------------------------------------------------------------------------
(* The pager's invariant. *)

Panels == [dl : {4, 8}, half : -1 .. 15, lines : {1, 2}, on : BOOLEAN, busy : 0 .. 2]

\* The display before call j of init_io() (7: behind clcd_init()), and before its
\* second nibble.
Before(j, p) ==
    /\ p.busy = 0
    /\ j = 1 => p.half # 0
    /\ j = 2 => p.dl = 8 \/ p.half = 3
    /\ j >= 3 => p.dl = 4 /\ p.half = -1
    /\ j >= 4 => p.lines = 2
    /\ j >= 5 => p.on

Between(j, k, p) ==
    /\ p.busy = 0
    /\ j = 1 => p.half \in {-1, 3}
    /\ j = 2 => p.dl = 8
    /\ j >= 3 => p.dl = 4 /\ p.half = Value(k) \div 16
    /\ j >= 4 => p.lines = 2
    /\ j >= 5 => p.on

InitCalls == <<P!Cmd(51), P!Cmd(50), P!Cmd(40), P!Cmd(12), P!Cmd(6), P!Cls>>

\* What is left of init_io() from its call j on, or calls of any other part.
Left(todo, j) ==
    /\ todo \in Seq(AllCalls)
    /\ j \in 1 .. 7
    /\ j < 7 => /\ Len(todo) = Len(P!init_io) - j + 1
                /\ \A i \in 1 .. Len(todo) : todo[i] = P!init_io[j + i - 1]
    /\ j = 7 => todo \in Seq(Plain)

\* The wires and the display at step n of sending k.
Nibbles(j, k, n, p, r, e, b) ==
    /\ n <= 4 => Before(j, p)
    /\ n \in 5 .. 8 => Between(j, k, p)
    /\ n \in 9 .. 10 => Before(7, [p EXCEPT !.busy = 0]) /\ p.busy = (IF k[1] = "cls" THEN 1 ELSE 0)
    /\ n \in 2 .. 8 => r = Kind(k)
    /\ n \in 3 .. 4 => b = Value(k) \div 16
    /\ n \in 7 .. 8 => b = Value(k) % 16
    /\ n \in {4, 8} => e = 1

Doing(c, j, p, r, e, b) ==
    /\ (c.todo = <<>> \/ Head(c.todo) \notin Writes) => Before(7, p)
    /\ (c.todo # <<>> /\ Head(c.todo) \in Writes) =>
           LET k == Head(c.todo) IN Nibbles(j, k, c.step - Lead(k), p, r, e, b)

Letters == 65 .. 90
Sends == {e \in Byte \X Letters : e[1] \in {170, 68, e[2], 68 + e[2]}}
Heard == {170, 68} \cup Letters \cup (133 .. 158)

PagerType ==
    /\ panel \in Panels /\ rs \in {0, 1} /\ bus \in 0 .. 15
    /\ out \in 65 .. LastLetter /\ torn \in BOOLEAN
    /\ CallOk(main) /\ CallOk(isr) /\ isr.todo \in Seq(Shows)
    /\ fifo \in Seq(Sends) /\ got \in Seq(Heard) /\ Len(got) <= 3
    /\ peer[1] \in 65 .. (65 + MaxLetters) /\ peer[2] \in 1 .. 4

-----------------------------------------------------------------------------
(* The display takes a nibble. *)

Taken(p, type, n) == P!OneMs(P!Latched(p, type, n))

LEMMA OneMsIs ==
    ASSUME NEW p \in Panels
    PROVE  /\ P!OneMs(p) \in Panels
           /\ P!OneMs(p) = [p EXCEPT !.busy = IF p.busy = 0 THEN 0 ELSE p.busy - 1]
           /\ p.busy = 0 => P!OneMs(p) = p
BY DEF Panels, P!OneMs

Lit(p, on) == [p EXCEPT !.on = on]
Busy(p, ms) == [p EXCEPT !.busy = ms]

LEMMA CommandIs ==
    ASSUME NEW p \in Panels, NEW b \in Byte, NEW q, q = P!Command(p, b)
    PROVE  /\ q \in Panels /\ q.half = p.half
           /\ b \in 32 .. 63 => /\ q.dl = (IF b \div 16 = 3 THEN 8 ELSE 4)
                                /\ q.lines = (IF (b \div 8) % 2 = 1 THEN 2 ELSE 1)
                                /\ q.busy = p.busy /\ q.on = p.on
           /\ b \in 8 .. 15 => q = Lit(p, (b \div 4) % 2 = 1)
           /\ b \in 1 .. 3 => q = Busy(p, 2)
           /\ b \notin (1 .. 3) \cup (8 .. 15) \cup (32 .. 63) => q = p
<1>1. CASE b \in 32 .. 63
  <2>1. q = [p EXCEPT !.dl = IF b \div 16 = 3 THEN 8 ELSE 4,
                      !.lines = IF (b \div 8) % 2 = 1 THEN 2 ELSE 1]
    BY <1>1 DEF P!Command
  <2>2. /\ q \in Panels /\ q.half = p.half /\ q.busy = p.busy /\ q.on = p.on
        /\ q.dl = (IF b \div 16 = 3 THEN 8 ELSE 4)
        /\ q.lines = (IF (b \div 8) % 2 = 1 THEN 2 ELSE 1)
    BY <2>1, ZenonT(60) DEF Panels
  <2>3. b \notin 8 .. 15 /\ b \notin 1 .. 3
    BY <1>1
  <2>4. QED
    BY <1>1, <2>2, <2>3
<1>2. CASE b \in 8 .. 15
  <2>1. q = Lit(p, (b \div 4) % 2 = 1)
    BY <1>2 DEF P!Command, Lit
  <2>2. q \in Panels /\ q.half = p.half
    <3>1. ((b \div 4) % 2 = 1) \in BOOLEAN
      OBVIOUS
    <3>2. QED
      BY <2>1, <3>1 DEF Panels, Lit
  <2>3. b \notin 32 .. 63 /\ b \notin 1 .. 3
    BY <1>2
  <2>4. QED
    BY <1>2, <2>1, <2>2, <2>3
<1>3. CASE b \in 1 .. 3
  <2>1. q = Busy(p, 2)
    BY <1>3 DEF P!Command, Busy
  <2>2. q \in Panels /\ q.half = p.half
    BY <2>1 DEF Panels, Busy
  <2>3. b \notin 32 .. 63 /\ b \notin 8 .. 15
    BY <1>3
  <2>4. QED
    BY <1>3, <2>1, <2>2, <2>3
<1>4. CASE b \notin (1 .. 3) \cup (8 .. 15) \cup (32 .. 63)
  <2>1. q = p
    BY <1>4 DEF P!Command
  <2>2. QED
    BY <1>4, <2>1
<1>5. QED
  BY <1>1, <1>2, <1>3, <1>4

\* The byte that a nibble completes, if the display is not busy.
Halved(p, n) == [p EXCEPT !.half = n]
Whole(p, n) == IF p.dl = 8 THEN (n * 16) + 15 ELSE (p.half * 16) + n

LEMMA LatchedIs ==
    ASSUME NEW p \in Panels, NEW type \in {0, 1}, NEW n \in 0 .. 15, NEW q, q = P!Latched(p, type, n)
    PROVE  /\ q \in Panels
           /\ p.busy > 0 => q = p
           /\ (p.busy = 0 /\ p.dl = 4 /\ p.half = -1) => q = Halved(p, n)
           /\ (p.busy = 0 /\ ~(p.dl = 4 /\ p.half = -1)) =>
                  /\ Whole(p, n) \in Byte
                  /\ q = IF type = 0 THEN P!Command(Halved(p, -1), Whole(p, n))
                         ELSE Halved(p, -1)
<1>1. CASE p.busy > 0
  <2>1. q = p
    BY <1>1 DEF P!Latched
  <2>2. QED
    BY <1>1, <2>1
<1>2. CASE p.busy = 0 /\ p.dl = 4 /\ p.half = -1
  <2>1. q = Halved(p, n)
    BY <1>2 DEF P!Latched, Halved
  <2>2. QED
    BY <1>2, <2>1 DEF Panels, Halved
<1>3. CASE p.busy = 0 /\ ~(p.dl = 4 /\ p.half = -1)
  <2>1. Whole(p, n) \in Byte
    BY <1>3 DEF Panels, Whole, Byte
  <2>2. q = IF type = 0 THEN P!Command(Halved(p, -1), Whole(p, n)) ELSE Halved(p, -1)
    BY <1>3 DEF P!Latched, Halved, Whole
  <2>3. Halved(p, -1) \in Panels
    BY DEF Panels, Halved
  <2>4. QED
    BY <1>3, <2>1, <2>2, <2>3, CommandIs
<1>4. p.busy > 0 \/ p.busy = 0
  BY DEF Panels
<1>5. QED
  BY <1>1, <1>2, <1>3, <1>4

\* What is sent as call j: the calls of clcd_init(), or those behind them.
Fits(j, k) == k \in Writes /\ (IF j < 7 THEN k = InitCalls[j] ELSE k \in Shows)

\* The first nibble.
LEMMA FirstNibble ==
    ASSUME NEW j \in 1 .. 7, NEW k, Fits(j, k), NEW p \in Panels, Before(j, p),
           NEW q, q = Taken(p, Kind(k), Value(k) \div 16)
    PROVE  q \in Panels /\ Between(j, k, q)
<1> DEFINE n == Value(k) \div 16
           l == P!Latched(p, Kind(k), n)
           m == Halved(p, -1)
<1>1. Kind(k) \in {0, 1} /\ n \in 0 .. 15 /\ p.busy = 0
  BY ValueIs DEF Kind, Fits, Before
<1>2. l \in Panels /\ q = P!OneMs(l)
  BY <1>1, LatchedIs DEF Taken
<1>3. q \in Panels
  BY <1>2, OneMsIs
<1>4. CASE p.dl = 4 /\ p.half = -1
  <2> HIDE DEF n
  <2>1. l = [p EXCEPT !.half = n]
    <3>1. \A r : r = P!Latched(p, Kind(k), n) => r = Halved(p, n)
      BY <1>1, <1>4, LatchedIs
    <3>2. QED
      BY <3>1 DEF Halved
  <2>2. l.busy = 0 /\ l.half = n /\ l.dl = p.dl /\ l.lines = p.lines /\ l.on = p.on
    BY <1>1, <2>1 DEF Panels
  <2>3. q = l
    BY <1>2, <2>2, OneMsIs
  <2>4. j = 1 => n = 3
    BY DEF Fits, InitCalls, P!Cmd, Value, n
  <2>5. j # 2
    BY <1>4 DEF Before
  <2>6. QED
    BY <1>3, <1>4, <2>2, <2>3, <2>4, <2>5 DEF Before, Between, n
<1>5. CASE ~(p.dl = 4 /\ p.half = -1)
  <2>1. j \in {1, 2}
    BY <1>5 DEF Before
  <2>2. n = 3 /\ Kind(k) = 0
    BY <2>1 DEF Fits, InitCalls, P!Cmd, Value, Kind
  <2> HIDE DEF n
  <2> DEFINE b == Whole(p, n)
  <2>3. b \in Byte /\ l = P!Command(m, b) /\ m \in Panels
    <3>1. m \in Panels
      BY DEF Panels, Halved
    <3>2. QED
      BY <1>1, <1>5, <2>2, <3>1, LatchedIs
  <2>4. m.half = -1 /\ m.busy = 0 /\ m.dl = p.dl /\ m.lines = p.lines /\ m.on = p.on
    BY <1>1 DEF Panels, Halved
  <2>5. p.dl = 8 => b = 63
    BY <2>2 DEF Whole
  <2>6. p.dl # 8 => p.half \in 0 .. 15 /\ b = (p.half * 16) + 3
    BY <1>5, <2>2 DEF Whole, Panels
  <2>7. (j = 1 /\ p.dl # 8) => b >= 19
    BY <2>6 DEF Before
  <2>8. (j = 2 /\ p.dl # 8) => b = 51
    BY <2>6 DEF Before
  <2> HIDE DEF b, m, l
  <2>9. l.busy = 0 /\ l.half = -1
    <3>1. b >= 19
      BY <2>1, <2>5, <2>7, <2>8
    <3>2. b \in 32 .. 63 \/ b \notin (1 .. 3) \cup (8 .. 15) \cup (32 .. 63)
      BY <2>3, <3>1 DEF Byte
    <3>3. QED
      BY <2>3, <2>4, <3>2, CommandIs
  <2>10. (b = 63 \/ b = 51) => l.dl = 8
    <3>1. (b = 63 \/ b = 51) => b \in 32 .. 63 /\ b \div 16 = 3
      OBVIOUS
    <3>2. QED
      BY <2>3, <3>1, CommandIs
  <2>11. q = l
    BY <1>2, <2>9, OneMsIs
  <2>12. j = 2 => l.dl = 8
    BY <2>5, <2>8, <2>10
  <2>13. QED
    BY <1>3, <2>1, <2>9, <2>11, <2>12 DEF Between
<1>6. QED
  BY <1>4, <1>5

\* A whole byte, if the display takes the nibble for its second.
LEMMA Completes ==
    ASSUME NEW p \in Panels, NEW n \in 0 .. 15, NEW type \in {0, 1}, p.busy = 0,
           p.dl = 8 \/ p.half # -1,
           NEW m, m = Halved(p, -1), NEW l, l = IF type = 0 THEN P!Command(m, Whole(p, n)) ELSE m
    PROVE  /\ Taken(p, type, n) = P!OneMs(l) /\ l \in Panels /\ m \in Panels /\ Whole(p, n) \in Byte
           /\ m.half = -1 /\ m.busy = 0 /\ m.dl = p.dl /\ m.lines = p.lines /\ m.on = p.on
<1>1. ~(p.dl = 4 /\ p.half = -1)
  BY DEF Panels
<1>2. l = P!Latched(p, type, n) /\ Whole(p, n) \in Byte /\ l \in Panels
  BY <1>1, LatchedIs
<1>3. m.half = -1 /\ m.busy = 0 /\ m.dl = p.dl /\ m.lines = p.lines /\ m.on = p.on /\ m \in Panels
  BY DEF Panels, Halved
<1>4. QED
  BY <1>2, <1>3 DEF Taken

\* The second nibble.
LEMMA SecondNibble ==
    ASSUME NEW j \in 1 .. 7, NEW k, Fits(j, k), NEW p \in Panels, Between(j, k, p),
           NEW q, q = Taken(p, Kind(k), Value(k) % 16)
    PROVE  /\ q \in Panels
           /\ j \in 1 .. 5 => Before(j + 1, q)
           /\ j = 6 => Before(7, [q EXCEPT !.busy = 0]) /\ q.busy = 1
           /\ j = 7 => Before(7, q)
<1> DEFINE n == Value(k) % 16
           m == Halved(p, -1)
           b == Whole(p, n)
           l == IF Kind(k) = 0 THEN P!Command(m, b) ELSE m
<1>1. Kind(k) \in {0, 1} /\ n \in 0 .. 15 /\ p.busy = 0
  BY ValueIs DEF Kind, Fits, Between
<1>2. CASE j = 1 /\ p.dl = 4 /\ p.half = -1
  <2>1. n = 3
    BY <1>2 DEF Fits, InitCalls, P!Cmd, Value
  <2> DEFINE h == P!Latched(p, Kind(k), n)
  <2> HIDE DEF n
  <2>2. \A r : r = P!Latched(p, Kind(k), n) => r = Halved(p, n) /\ r \in Panels
    BY <1>1, <1>2, LatchedIs
  <2>3. h = Halved(p, n) /\ h \in Panels /\ q = P!OneMs(h)
    BY <2>2 DEF Taken, n
  <2> HIDE DEF h
  <2>4. h.half = 3 /\ h.busy = 0
    BY <1>1, <2>1, <2>3 DEF Halved, Panels
  <2>5. q = h
    BY <2>3, <2>4, OneMsIs
  <2>6. QED
    BY <1>2, <2>3, <2>4, <2>5 DEF Before
<1>3. CASE p.dl = 8 \/ p.half # -1
  <2> HIDE DEF n
  <2>1. /\ Taken(p, Kind(k), n) = P!OneMs(l) /\ l \in Panels /\ m \in Panels /\ b \in Byte
        /\ m.half = -1 /\ m.busy = 0 /\ m.dl = p.dl /\ m.lines = p.lines /\ m.on = p.on
    <3>1. \A x, y : (x = Halved(p, -1) /\ y = IF Kind(k) = 0 THEN P!Command(x, Whole(p, n)) ELSE x) =>
             /\ Taken(p, Kind(k), n) = P!OneMs(y) /\ y \in Panels /\ x \in Panels /\ Whole(p, n) \in Byte
             /\ x.half = -1 /\ x.busy = 0 /\ x.dl = p.dl /\ x.lines = p.lines /\ x.on = p.on
      BY <1>1, <1>3, Completes
    <3>2. QED
      BY <3>1
  <2>2. q = P!OneMs(l)
    BY <2>1 DEF n
  <2>3. l.busy = 0 => q = l
    BY <2>1, <2>2, OneMsIs
  <2>4. Kind(k) = 0 => l = P!Command(m, b)
    OBVIOUS
  <2>5. Kind(k) # 0 => l = m
    OBVIOUS
  <2> HIDE DEF l, m, b
  <2>6. (b = 63 \/ b = 51 \/ b = 47 \/ b = 40) => b \in 32 .. 63
    OBVIOUS
  <2>7. CASE j = 1
    <3>1. n = 3 /\ Kind(k) = 0
      BY <2>7 DEF Fits, InitCalls, P!Cmd, Value, Kind, n
    <3>2. b = 63 \/ b = 51
      BY <1>3, <2>7, <3>1 DEF Between, Whole, b
    <3>3. b \div 16 = 3
      BY <3>2
    <3>4. l.dl = 8 /\ l.busy = 0
      BY <2>1, <2>4, <2>6, <3>1, <3>2, <3>3, CommandIs
    <3>5. QED
      BY <2>1, <2>3, <2>7, <3>4 DEF Before
  <2>8. CASE j = 2
    <3>1. n = 2 /\ Kind(k) = 0
      BY <2>8 DEF Fits, InitCalls, P!Cmd, Value, Kind, n
    <3>2. b = 47
      BY <2>8, <3>1 DEF Between, Whole, b
    <3>3. b \div 16 = 2
      BY <3>2
    <3>4. l.dl = 4 /\ l.busy = 0 /\ l.half = -1
      BY <2>1, <2>4, <2>6, <3>1, <3>2, <3>3, CommandIs
    <3>5. QED
      BY <2>1, <2>3, <2>8, <3>4 DEF Before
  <2>9. CASE j >= 3
    <3>1. p.dl = 4 /\ p.half = Value(k) \div 16
      BY <2>9 DEF Between
    <3>2. b = Value(k)
      BY <3>1, ValueIs DEF Whole, b, n, Byte, Fits
    <3>3. j >= 4 => p.lines = 2
      BY DEF Between
    <3>4. j >= 5 => p.on
      BY DEF Between
    <3>5. CASE j = 3
      <4>1. b = 40 /\ Kind(k) = 0
        BY <3>2, <3>5 DEF Fits, InitCalls, P!Cmd, Value, Kind
      <4>2. b \div 16 = 2 /\ (b \div 8) % 2 = 1
        BY <4>1
      <4>3. l.dl = 4 /\ l.busy = 0 /\ l.half = -1 /\ l.lines = 2
        BY <2>1, <2>4, <2>6, <4>1, <4>2, CommandIs
      <4>4. QED
        BY <2>1, <2>3, <3>5, <4>3 DEF Before
    <3>6. CASE j = 4
      <4>1. b = 12 /\ Kind(k) = 0
        BY <3>2, <3>6 DEF Fits, InitCalls, P!Cmd, Value, Kind
      <4>2. b \in 8 .. 15 /\ (b \div 4) % 2 = 1
        BY <4>1
      <4>3. l = Lit(m, (b \div 4) % 2 = 1)
        BY <2>1, <2>4, <4>1, <4>2, CommandIs
      <4>4. l.dl = 4 /\ l.busy = 0 /\ l.half = -1 /\ l.lines = 2 /\ l.on
        BY <2>1, <3>1, <3>3, <3>6, <4>2, <4>3 DEF Lit, Panels
      <4>5. QED
        BY <2>1, <2>3, <3>6, <4>4 DEF Before
    <3>7. CASE j = 5
      <4>1. b = 6 /\ Kind(k) = 0
        BY <3>2, <3>7 DEF Fits, InitCalls, P!Cmd, Value, Kind
      <4>2. l = m
        BY <2>1, <2>4, <4>1, CommandIs
      <4>3. QED
        BY <2>1, <2>3, <3>1, <3>3, <3>4, <3>7, <4>2 DEF Before
    <3>8. CASE j = 6
      <4>1. b = 1 /\ Kind(k) = 0
        BY <3>2, <3>8 DEF Fits, InitCalls, P!Cls, Value, Kind
      <4>2. l = Busy(m, 2)
        BY <2>1, <2>4, <4>1, CommandIs
      <4>3. q = [l EXCEPT !.busy = 1] /\ q \in Panels
        <5>1. l.busy = 2
          BY <2>1, <4>2 DEF Busy, Panels
        <5>2. QED
          BY <2>1, <2>2, <5>1, OneMsIs
      <4>4. q.busy = 1 /\ q.dl = 4 /\ q.half = -1 /\ q.lines = 2 /\ q.on
        <5>1. m.dl = 4 /\ m.half = -1 /\ m.lines = 2 /\ m.on
          BY <2>1, <3>1, <3>3, <3>4, <3>8
        <5>2. l.dl = m.dl /\ l.half = m.half /\ l.lines = m.lines /\ l.on = m.on
          BY <2>1, <4>2 DEF Busy, Panels
        <5>3. /\ q.dl = l.dl /\ q.half = l.half /\ q.lines = l.lines /\ q.on = l.on
              /\ q.busy = 1
          BY <2>1, <4>3 DEF Panels
        <5>4. QED
          BY <5>1, <5>2, <5>3
      <4>5. QED
        BY <3>8, <4>3, <4>4 DEF Before, Panels
    <3>9. CASE j = 7
      <4>1. k \in Shows
        BY <3>9 DEF Fits
      <4>2. Kind(k) = 0 => b >= 128
        BY <3>2, <4>1 DEF Shows, Kind, Value, P!ddram_addr
      <4>3. Kind(k) = 0 => l = m
        BY <2>1, <2>4, <4>2, CommandIs
      <4>4. l = m
        BY <2>5, <4>3
      <4>5. QED
        BY <2>1, <2>3, <3>1, <3>3, <3>4, <3>9, <4>4 DEF Before
    <3>10. QED
      BY <2>9, <3>5, <3>6, <3>7, <3>8, <3>9
  <2>10. QED
    BY <2>7, <2>8, <2>9
<1>4. j # 1 => p.dl = 8 \/ p.half # -1
  BY <1>1, ValueIs DEF Between, Fits
<1>5. (j = 1 /\ ~(p.dl = 8 \/ p.half # -1)) => p.dl = 4 /\ p.half = -1
  BY DEF Panels
<1>6. QED
  BY <1>2, <1>3, <1>4, <1>5

-----------------------------------------------------------------------------
(* A step of a call. *)

LEMMA EffectIs ==
    ASSUME NEW o, P!Effect(o)
    PROVE  /\ o[1] = "rs" => rs' = o[2] /\ bus' = bus /\ en' = en /\ panel' = panel
           /\ o[1] = "bus" => rs' = rs /\ bus' = o[2] /\ en' = en /\ panel' = panel
           /\ o[1] = "up" => rs' = rs /\ bus' = bus /\ en' = 1 /\ panel' = panel
           /\ o[1] = "down" =>
                  /\ rs' = rs /\ bus' = bus
                  /\ panel' = IF en = 1 THEN Taken(panel, rs, bus) ELSE P!OneMs(panel)
           /\ o[1] = "delay" => rs' = rs /\ bus' = bus /\ panel' = P!OneMs(panel)
           /\ o[1] \in {"pos", "load", "store", "tx", "sei"} =>
                  rs' = rs /\ bus' = bus /\ en' = en /\ panel' = panel
BY DEF P!Effect, Taken

\* Every step but the last nibble's leaves types alone.
LEMMA OpForm ==
    ASSUME NEW c, CallOk(c), c.todo # <<>>, NEW o, o = P!Op(c)
    PROVE  /\ o[1] \in {"rs", "bus", "up", "down", "pos", "load", "store", "delay", "tx", "sei"}
           /\ o[1] = "rs" => o[2] \in {0, 1}
           /\ o[1] = "bus" => o[2] \in 0 .. 15
<1> DEFINE k == Head(c.todo)
           n == c.step - Lead(k)
<1>1. k \in AllCalls /\ c.step \in 1 .. Size(k)
  BY FirstCall DEF CallOk
<1>2. CASE k \notin Writes
  <2>1. P!Ops(k) = <<k>> /\ Size(k) = 1 /\ k[1] \in {"tx", "sei"}
    BY <1>1, <1>2, Single
  <2>2. o = k
    BY <1>1, <2>1 DEF P!Op
  <2>3. QED
    BY <2>1, <2>2
<1>3. CASE k \in Writes
  <2> HIDE DEF k
  <2>1. /\ n \in 0 .. 10
        /\ n = 0 => o = <<"pos", k[2]>>
        /\ n \in {1, 5} => o = <<"rs", Kind(k)>>
        /\ n = 2 => o = <<"bus", Value(k) \div 16>>
        /\ n = 6 => o = <<"bus", Value(k) % 16>>
        /\ n \in {3, 7} => o = <<"up">>
        /\ n \in {4, 8} => o = <<"down">>
        /\ n = 9 => o \in {<<"load">>, <<"pos", 0>>}
        /\ n = 10 => o = (IF k[1] = "data" THEN <<"store">> ELSE <<"delay">>)
    <3>1. k = Head(c.todo)
      BY DEF k
    <3>2. QED
      BY <1>3, <3>1, OpIs, SMTT(60)
  <2> HIDE DEF n
  <2>2. Kind(k) \in {0, 1} /\ Value(k) \div 16 \in 0 .. 15 /\ Value(k) % 16 \in 0 .. 15
    BY <1>3, ValueIs DEF Kind
  <2>3. CASE n \in {1, 5}
    BY <2>1, <2>2, <2>3
  <2>4. CASE n \in {2, 6}
    BY <2>1, <2>2, <2>4, SMTT(60)
  <2>5. CASE n \in {0, 3, 4, 7, 8}
    BY <2>1, <2>5
  <2>6. CASE n = 9
    BY <2>1, <2>6
  <2>7. CASE n = 10
    BY <2>1, <2>7
  <2>8. n \in {1, 5} \/ n \in {2, 6} \/ n \in {0, 3, 4, 7, 8} \/ n = 9 \/ n = 10
    BY <2>1
  <2>9. QED
    BY <2>3, <2>4, <2>5, <2>6, <2>7, <2>8
<1>4. QED
  BY <1>2, <1>3

LEMMA TypesStay ==
    ASSUME NEW c, CallOk(c), c.todo # <<>>, P!Effect(P!Op(c)),
           panel \in Panels, rs \in {0, 1}, bus \in 0 .. 15
    PROVE  panel' \in Panels /\ rs' \in {0, 1} /\ bus' \in 0 .. 15
<1> DEFINE o == P!Op(c)
<1>1. /\ o[1] \in {"rs", "bus", "up", "down", "pos", "load", "store", "delay", "tx", "sei"}
      /\ o[1] = "rs" => o[2] \in {0, 1}
      /\ o[1] = "bus" => o[2] \in 0 .. 15
  BY OpForm
<1>2. Taken(panel, rs, bus) \in Panels /\ P!OneMs(panel) \in Panels
  <2>1. P!Latched(panel, rs, bus) \in Panels
    BY LatchedIs
  <2>2. QED
    BY <2>1, OneMsIs DEF Taken
<1>3. P!Effect(o)
  OBVIOUS
<1> HIDE DEF o
<1>4. CASE o[1] \in {"rs", "bus", "up"}
  BY <1>1, <1>3, <1>4, EffectIs
<1>5. CASE o[1] \in {"down", "delay"}
  BY <1>2, <1>3, <1>5, EffectIs
<1>6. CASE o[1] \in {"pos", "load", "store", "tx", "sei"}
  BY <1>3, <1>6, EffectIs
<1>7. QED
  BY <1>1, <1>4, <1>5, <1>6

LEMMA NotBusy ==
    ASSUME NEW p \in Panels
    PROVE  Before(7, p) => Before(7, [p EXCEPT !.busy = 0]) /\ p.busy = 0
BY DEF Before, Panels

\* A step of sending a byte.
LEMMA NibbleStep ==
    ASSUME NEW c, CallOk(c), c.todo # <<>>, NEW k, k = Head(c.todo), NEW j \in 1 .. 7, Fits(j, k),
           NEW n, n = c.step - Lead(k), Nibbles(j, k, n, panel, rs, en, bus),
           panel \in Panels, rs \in {0, 1}, bus \in 0 .. 15, P!Effect(P!Op(c))
    PROVE  /\ c.step < Size(k) => Nibbles(j, k, n + 1, panel', rs', en', bus')
           /\ c.step = Size(k) => Before(IF j < 6 THEN j + 1 ELSE 7, panel')
<1> DEFINE o == P!Op(c)
<1>1. k \in Writes /\ P!Effect(o)
  BY DEF Fits
<1>2. /\ n \in 0 .. 10
      /\ n = 0 => o = <<"pos", k[2]>>
      /\ n \in {1, 5} => o = <<"rs", Kind(k)>>
      /\ n = 2 => o = <<"bus", Value(k) \div 16>>
      /\ n = 6 => o = <<"bus", Value(k) % 16>>
      /\ n \in {3, 7} => o = <<"up">>
      /\ n \in {4, 8} => o = <<"down">>
      /\ n = 9 => o \in {<<"load">>, <<"pos", 0>>}
      /\ n = 10 => o = (IF k[1] = "data" THEN <<"store">> ELSE <<"delay">>)
      /\ n \in {9, 10} => k[1] \in {"data", "cls"}
  BY <1>1, OpIs, SMTT(60)
<1>3. /\ k[1] = "move" => Lead(k) = 1 /\ Size(k) = 9
      /\ k[1] = "cmd" => Lead(k) = 0 /\ Size(k) = 8
      /\ k[1] \in {"data", "cls"} => Lead(k) = 0 /\ Size(k) = 10
      /\ k[1] \in {"move", "cmd", "data", "cls"}
  BY <1>1, OpIs
<1>4. c.step \in 1 .. Size(k)
  BY DEF CallOk
<1> DEFINE full == c.step = Size(k)
<1>5. /\ full <=> ((k[1] \in {"move", "cmd"} /\ n = 8) \/ (k[1] \in {"data", "cls"} /\ n = 10))
      /\ k[1] \in {"move", "cmd"} => n <= 8
  BY <1>3, <1>4, SMTT(60)
<1>6. /\ j = 7 <=> k \in Shows
      /\ j = 6 <=> k[1] = "cls"
      /\ j = 7 <=> k[1] \in {"move", "data"}
  <2>1. j = 6 => k = <<"cls">>
    BY DEF Fits, InitCalls, P!Cls
  <2>2. j < 6 => k[1] = "cmd"
    BY SMTT(60) DEF Fits, InitCalls, P!Cmd
  <2>3. j = 7 => k \in Shows
    BY DEF Fits
  <2>4. k \in Shows => k[1] \in {"move", "data"}
    BY DEF Shows
  <2>5. QED
    BY <2>1, <2>2, <2>3, <2>4
<1> HIDE DEF o, full
<1>7. CASE n \in {0, 1, 2, 3}
  <2>1. panel' = panel
    BY <1>1, <1>2, <1>7, EffectIs
  <2>2. Before(j, panel)
    BY <1>7 DEF Nibbles
  <2>3. CASE n = 0
    BY <1>2, <1>5, <2>1, <2>2, <2>3 DEF Nibbles, full
  <2>4. CASE n = 1
    <3>1. rs' = Kind(k)
      BY <1>1, <1>2, <2>4, EffectIs
    <3>2. QED
      BY <1>5, <2>1, <2>2, <2>4, <3>1 DEF Nibbles, full
  <2>5. CASE n = 2
    <3>1. rs' = Kind(k) /\ bus' = Value(k) \div 16
      <4>1. rs = Kind(k)
        BY <2>5 DEF Nibbles
      <4>2. QED
        BY <1>1, <1>2, <2>5, <4>1, EffectIs
    <3>2. QED
      BY <1>5, <2>1, <2>2, <2>5, <3>1 DEF Nibbles, full
  <2>6. CASE n = 3
    <3>1. rs' = Kind(k) /\ bus' = Value(k) \div 16 /\ en' = 1
      <4>1. rs = Kind(k) /\ bus = Value(k) \div 16
        BY <2>6, SMTT(60) DEF Nibbles
      <4>2. QED
        BY <1>1, <1>2, <2>6, <4>1, EffectIs
    <3>2. QED
      BY <1>5, <2>1, <2>2, <2>6, <3>1, SMTT(60) DEF Nibbles, full
  <2>7. QED
    BY <1>7, <2>3, <2>4, <2>5, <2>6
<1>8. CASE n = 4
  <2>1. rs = Kind(k) /\ bus = Value(k) \div 16 /\ en = 1 /\ Before(j, panel)
    BY <1>8, SMTT(60) DEF Nibbles
  <2>2. panel' = Taken(panel, Kind(k), Value(k) \div 16) /\ rs' = rs
    BY <1>1, <1>2, <1>8, <2>1, EffectIs
  <2>3. Between(j, k, panel')
    BY <2>1, <2>2, FirstNibble
  <2>4. QED
    BY <1>5, <1>8, <2>1, <2>2, <2>3 DEF Nibbles, full
<1>9. CASE n \in {5, 6, 7}
  <2>1. panel' = panel /\ Between(j, k, panel) /\ rs = Kind(k)
    BY <1>1, <1>2, <1>9, EffectIs DEF Nibbles
  <2>2. rs' = Kind(k)
    BY <1>1, <1>2, <1>9, <2>1, EffectIs
  <2>3. CASE n = 5
    BY <1>5, <2>1, <2>2, <2>3 DEF Nibbles, full
  <2>4. CASE n = 6
    <3>1. bus' = Value(k) % 16
      BY <1>1, <1>2, <2>4, EffectIs
    <3>2. QED
      BY <1>5, <2>1, <2>2, <2>4, <3>1 DEF Nibbles, full
  <2>5. CASE n = 7
    <3>1. bus' = Value(k) % 16 /\ en' = 1
      <4>1. bus = Value(k) % 16
        BY <2>5 DEF Nibbles
      <4>2. QED
        BY <1>1, <1>2, <2>5, <4>1, EffectIs
    <3>2. QED
      BY <1>5, <2>1, <2>2, <2>5, <3>1 DEF Nibbles, full
  <2>6. QED
    BY <1>9, <2>3, <2>4, <2>5
<1>10. CASE n = 8
  <2>1. rs = Kind(k) /\ bus = Value(k) % 16 /\ en = 1 /\ Between(j, k, panel)
    BY <1>10, SMTT(60) DEF Nibbles
  <2>2. panel' = Taken(panel, Kind(k), Value(k) % 16)
    BY <1>1, <1>2, <1>10, <2>1, EffectIs
  <2>3. /\ panel' \in Panels
        /\ j \in 1 .. 5 => Before(j + 1, panel')
        /\ j = 6 => Before(7, [panel' EXCEPT !.busy = 0]) /\ panel'.busy = 1
        /\ j = 7 => Before(7, panel')
    BY <2>1, <2>2, SecondNibble
  <2>4. j = 7 => Before(7, [panel' EXCEPT !.busy = 0]) /\ panel'.busy = 0
    BY <2>3, NotBusy
  <2>5. full => j # 6
    BY <1>5, <1>6, <1>10
  <2>6. ~full => j \in {6, 7}
    BY <1>3, <1>5, <1>6, <1>10
  <2>7. (j = 7 => k[1] # "cls") /\ (j = 6 => k[1] = "cls")
    BY <1>6
  <2>8. ~full => Nibbles(j, k, 9, panel', rs', en', bus')
    BY <2>3, <2>4, <2>6, <2>7 DEF Nibbles
  <2>9. QED
    <3>1. full <=> c.step = Size(k)
      BY DEF full
    <3>2. c.step < Size(k) => ~full
      BY <1>4, <3>1
    <3>3. n + 1 = 9
      BY <1>10
    <3>4. full => Before(IF j < 6 THEN j + 1 ELSE 7, panel')
      <4>1. CASE j \in 1 .. 5
        <5>1. (IF j < 6 THEN j + 1 ELSE 7) = j + 1
          BY <4>1
        <5>2. QED
          BY <2>3, <4>1, <5>1
      <4>2. CASE j = 7
        BY <2>3, <4>2
      <4>3. QED
        BY <2>5, <4>1, <4>2
    <3>5. QED
      BY <2>8, <3>1, <3>2, <3>3, <3>4
<1>11. CASE n \in {9, 10}
  <2>1. /\ Before(7, [panel EXCEPT !.busy = 0]) /\ panel.busy = (IF k[1] = "cls" THEN 1 ELSE 0)
        /\ k[1] \in {"data", "cls"} /\ j \in {6, 7}
    BY <1>2, <1>6, <1>11 DEF Nibbles
  <2>2. CASE n = 9
    <3>1. panel' = panel /\ rs' = rs
      BY <1>1, <1>2, <2>2, EffectIs
    <3>2. QED
      BY <1>5, <2>1, <2>2, <3>1 DEF Nibbles, full
  <2>3. CASE n = 10
    <3>1. Before(7, panel')
      <4>1. CASE k[1] = "data"
        <5>1. panel' = panel /\ panel.busy = 0
          BY <1>1, <1>2, <2>1, <2>3, <4>1, EffectIs
        <5>2. QED
          BY <2>1, <5>1 DEF Before, Panels
      <4>2. CASE k[1] = "cls"
        <5>1. panel' = P!OneMs(panel) /\ panel.busy = 1
          BY <1>1, <1>2, <2>1, <2>3, <4>2, EffectIs
        <5>2. panel' = [panel EXCEPT !.busy = 0]
          BY <5>1, OneMsIs
        <5>3. QED
          BY <2>1, <5>2
      <4>3. QED
        BY <2>1, <4>1, <4>2
    <3>2. QED
      <4>1. (IF j < 6 THEN j + 1 ELSE 7) = 7
        BY <2>1
      <4>2. ~(c.step < Size(k))
        <5>1. full
          BY <1>5, <2>1, <2>3
        <5>2. QED
          BY <1>4, <5>1 DEF full
      <4>3. QED
        BY <3>1, <4>1, <4>2
  <2>4. QED
    BY <1>11, <2>2, <2>3
<1>12. n \in {0, 1, 2, 3} \/ n = 4 \/ n \in {5, 6, 7} \/ n = 8 \/ n \in {9, 10}
  BY <1>2
<1>13. QED
  BY <1>7, <1>8, <1>9, <1>10, <1>11, <1>12

-----------------------------------------------------------------------------
(* From a call to the next. *)

LEMMA Printed ==
    ASSUME NEW s \in Seq(Byte)
    PROVE  P!PrintString(s) \in Seq(Shows) /\ Len(P!PrintString(s)) = Len(s)
<1>1. Len(s) \in Nat /\ \A i \in 1 .. Len(s) : P!Data(s[i]) \in Shows
  <2>1. Len(s) \in Nat /\ \A i \in 1 .. Len(s) : s[i] \in Byte
    OBVIOUS
  <2>2. \A d \in Byte : P!Data(d) \in Shows
    BY DEF P!Data, Shows
  <2>3. QED
    BY <2>1, <2>2
<1> DEFINE n == Len(s)
           f == [i \in 1 .. n |-> P!Data(s[i])]
<1>2. n \in Nat /\ f \in [1 .. n -> Shows]
  BY <1>1
<1>3. f \in Seq(Shows) /\ Len(f) = n
  <2> HIDE DEF f, n
  <2>1. DOMAIN f = 1 .. n
    BY <1>2
  <2>2. QED
    BY <1>2, <2>1
<1>4. QED
  BY <1>3 DEF P!PrintString

\* What init_io() does: the calls of clcd_init(), then plain ones, sei() the last.
LEMMA InitIs ==
    LET a == P!init_io IN
    /\ a \in Seq(AllCalls) /\ Len(a) >= 8
    /\ \A i \in 1 .. 6 : a[i] = InitCalls[i] /\ a[i] \in Writes
    /\ \A i \in 7 .. Len(a) : a[i] \in Plain
    /\ a[Len(a)] = <<"sei">>
<1> DEFINE x == P!clcd_init
           y == P!PrintString(Duniya)
           z == <<P!MoveTo(0), <<"sei">>>>
           a == P!init_io
<1>1. y \in Seq(Shows)
  BY Printed, BoardAssumption
<1>2. /\ x \in Seq(AllCalls) /\ Len(x) = 6
      /\ x[1] = InitCalls[1] /\ x[2] = InitCalls[2] /\ x[3] = InitCalls[3]
      /\ x[4] = InitCalls[4] /\ x[5] = InitCalls[5] /\ x[6] = InitCalls[6]
  <2>1. P!Cmd(51) \in AllCalls /\ P!Cmd(50) \in AllCalls /\ P!Cmd(40) \in AllCalls /\ P!Cmd(12) \in AllCalls
        /\ P!Cmd(6) \in AllCalls /\ P!Cls \in AllCalls
    BY DEF P!Cmd, P!Cls, AllCalls, Writes, Commands
  <2>2. QED
    BY <2>1 DEF P!clcd_init, InitCalls
<1>3. z \in Seq(Plain) /\ Len(z) = 2 /\ z[2] = <<"sei">>
  BY DEF P!MoveTo, Plain, Shows
<1>4. y \in Seq(AllCalls) /\ z \in Seq(AllCalls) /\ y \in Seq(Plain)
  <2>1. Shows \subseteq Plain /\ Plain \subseteq AllCalls /\ Shows \subseteq AllCalls
    BY DEF Plain, AllCalls
  <2>2. QED
    BY <1>1, <1>3, <2>1
<1>5. a = (x \o y) \o z
  BY DEF P!init_io
<1> HIDE DEF x, y, z, a
<1> DEFINE w == x \o y
<1>6. /\ w \in Seq(AllCalls) /\ Len(w) = Len(x) + Len(y)
      /\ \A i \in 1 .. Len(x) : w[i] = x[i]
      /\ \A i \in 1 .. Len(y) : w[Len(x) + i] = y[i]
  <2>1. x \in Seq(AllCalls) /\ y \in Seq(AllCalls)
    BY <1>2, <1>4
  <2>2. QED
    BY <2>1
<1> HIDE DEF w
<1>7. /\ w \o z \in Seq(AllCalls) /\ Len(w \o z) = Len(w) + Len(z)
      /\ \A i \in 1 .. Len(w) : (w \o z)[i] = w[i]
      /\ \A i \in 1 .. Len(z) : (w \o z)[Len(w) + i] = z[i]
  <2>1. w \in Seq(AllCalls) /\ z \in Seq(AllCalls)
    BY <1>4, <1>6
  <2>2. QED
    BY <2>1
<1>8. a = w \o z
  BY <1>5 DEF w
<1>9. /\ a \in Seq(AllCalls) /\ Len(a) = Len(w) + 2
      /\ \A i \in 1 .. Len(w) : a[i] = w[i]
      /\ \A i \in 1 .. 2 : a[Len(w) + i] = z[i]
  BY <1>3, <1>7, <1>8
<1>10. Len(y) \in Nat /\ \A i \in 1 .. Len(y) : y[i] \in Plain
  BY <1>4
<1>11. z[1] \in Plain /\ z[2] \in Plain
  BY <1>3
<1>12. \A i \in 1 .. 6 : InitCalls[i] \in Writes
  BY DEF InitCalls, P!Cmd, P!Cls, Writes, Commands
<1>13. \A i \in 1 .. 6 : a[i] = InitCalls[i]
  <2>1. \A i \in 1 .. 6 : a[i] = x[i]
    BY <1>2, <1>6, <1>9, <1>10, SMTT(60)
  <2>2. a[1] = InitCalls[1] /\ a[2] = InitCalls[2] /\ a[3] = InitCalls[3]
        /\ a[4] = InitCalls[4] /\ a[5] = InitCalls[5] /\ a[6] = InitCalls[6]
    BY <1>2, <2>1
  <2>3. QED
    BY <2>2
<1>14. \A i \in 7 .. Len(a) : a[i] \in Plain
  <2> SUFFICES ASSUME NEW i \in 7 .. Len(a) PROVE a[i] \in Plain
    OBVIOUS
  <2> DEFINE h == i - 6
  <2>1. Len(a) = 6 + Len(y) + 2 /\ Len(w) = 6 + Len(y) /\ i = 6 + h /\ h \in 1 .. (Len(y) + 2)
    BY <1>2, <1>6, <1>9, <1>10
  <2> HIDE DEF h
  <2>2. CASE h \in 1 .. Len(y)
    <3>1. w[6 + h] = y[h] /\ 6 + h \in 1 .. Len(w)
      BY <1>2, <1>6, <1>10, <2>1, <2>2
    <3>2. QED
      BY <1>9, <1>10, <2>1, <2>2, <3>1
  <2>3. CASE h = Len(y) + 1
    <3>1. a[Len(w) + 1] = z[1] /\ i = Len(w) + 1
      BY <1>9, <1>10, <2>1, <2>3
    <3>2. QED
      BY <1>11, <3>1
  <2>4. CASE h = Len(y) + 2
    <3>1. a[Len(w) + 2] = z[2] /\ i = Len(w) + 2
      BY <1>9, <1>10, <2>1, <2>4
    <3>2. QED
      BY <1>11, <3>1
  <2>5. QED
    BY <1>10, <2>1, <2>2, <2>3, <2>4
<1>15. Len(a) >= 8
  BY <1>2, <1>6, <1>9, <1>10
<1>16. a[Len(a)] = <<"sei">>
  BY <1>3, <1>9
<1>17. QED
  BY <1>9, <1>12, <1>13, <1>14, <1>15, <1>16 DEF a

\* Before sei() no interrupt is taken.
LEMMA NotYet ==
    ASSUME NEW j \in 1 .. 7, Left(main.todo, j), P!Receiving
    PROVE  j = 7
<1> SUFFICES ASSUME j < 7 PROVE FALSE
  OBVIOUS
<1> DEFINE m == main.todo
           a == P!init_io
           n == Len(a) - j + 1
<1>1. /\ Len(a) \in Nat /\ Len(a) >= 8 /\ a[Len(a)] = <<"sei">> /\ m \in Seq(AllCalls) /\ Len(m) = n
      /\ \A i \in 1 .. Len(m) : m[i] = a[j + i - 1]
  BY InitIs DEF Left
<1>2. m = <<>> \/ \A i \in 1 .. Len(m) : m[i] # <<"sei">>
  BY DEF P!Receiving
<1> HIDE DEF m, a
<1>3. n \in 1 .. Len(m) /\ j + n - 1 = Len(a) /\ m # <<>>
  BY <1>1, SMTT(60)
<1>4. QED
  BY <1>1, <1>2, <1>3

\* What a call that is due does.
LEMMA HeadFits ==
    ASSUME NEW j \in 1 .. 7, NEW s, Left(s, j), s # <<>>
    PROVE  /\ Head(s) \in AllCalls
           /\ j < 7 => Head(s) \in Writes
           /\ Head(s) \in Writes => Fits(j, Head(s))
<1>1. s \in Seq(AllCalls)
  BY DEF Left
<1>2. Head(s) = s[1] /\ Head(s) \in AllCalls /\ Len(s) \in Nat \ {0}
  BY <1>1, FirstCall
<1>3. CASE j < 7
  <2>1. s[1] = P!init_io[j]
    <3>1. 1 \in 1 .. Len(s) /\ j + 1 - 1 = j
      BY <1>2
    <3>2. QED
      BY <1>3, <3>1 DEF Left
  <2>2. j \in 1 .. 6
    BY <1>3
  <2>3. P!init_io[j] = InitCalls[j] /\ P!init_io[j] \in Writes
    BY <2>2, InitIs
  <2>4. QED
    BY <1>2, <1>3, <2>1, <2>3 DEF Fits
<1>4. CASE j = 7
  <2>1. s \in Seq(Plain)
    BY <1>4 DEF Left
  <2>2. Head(s) \in Plain
    BY <2>1, FirstCall
  <2>3. Head(s) \in Writes => Head(s) \in Shows
    BY <2>2 DEF Plain, Writes, Shows
  <2>4. QED
    BY <1>2, <1>4, <2>3 DEF Fits
<1>5. QED
  BY <1>3, <1>4

\* The calls behind the first.
LEMMA TailLeft ==
    ASSUME NEW j \in 1 .. 7, NEW s, Left(s, j), s # <<>>
    PROVE  Left(Tail(s), IF j < 6 THEN j + 1 ELSE 7)
<1> DEFINE u == Tail(s)
           a == P!init_io
<1>1. s \in Seq(AllCalls)
  BY DEF Left
<1>2. u \in Seq(AllCalls) /\ Len(u) = Len(s) - 1 /\ Len(s) \in Nat \ {0}
      /\ \A i \in 1 .. Len(u) : u[i] = s[i + 1]
  BY <1>1
<1>3. CASE j = 7
  <2>1. s \in Seq(Plain)
    BY <1>3 DEF Left
  <2>2. u \in Seq(Plain)
    BY <2>1
  <2>3. QED
    BY <1>2, <1>3, <2>2 DEF Left
<1>4. CASE j < 7
  <2> HIDE DEF a, u
  <2>1. Len(s) = Len(a) - j + 1 /\ \A i \in 1 .. Len(s) : s[i] = a[j + i - 1]
    BY <1>4 DEF Left, a
  <2>2. /\ Len(a) \in Nat /\ Len(a) >= 8
        /\ \A i \in 7 .. Len(a) : a[i] \in Plain
    BY InitIs DEF a
  <2>3. Len(u) = Len(a) - (j + 1) + 1
    BY <1>2, <2>1, <2>2
  <2>4. \A i \in 1 .. Len(u) : u[i] = a[(j + 1) + i - 1]
    <3> SUFFICES ASSUME NEW i \in 1 .. Len(u) PROVE u[i] = a[(j + 1) + i - 1]
      OBVIOUS
    <3>1. i + 1 \in 1 .. Len(s) /\ j + (i + 1) - 1 = (j + 1) + i - 1
      BY <1>2
    <3>2. s[i + 1] = a[j + (i + 1) - 1]
      BY <2>1, <3>1
    <3>3. QED
      BY <1>2, <3>1, <3>2
  <2>5. CASE j < 6
    <3>1. (IF j < 6 THEN j + 1 ELSE 7) = j + 1 /\ j + 1 \in 1 .. 7 /\ j + 1 < 7
      BY <2>5
    <3>2. Left(u, j + 1)
      BY <1>2, <2>3, <2>4, <3>1 DEF Left, a
    <3>3. QED
      BY <3>1, <3>2 DEF u
  <2>6. CASE j = 6
    <3>1. \A i \in 1 .. Len(u) : u[i] \in Plain
      <4> SUFFICES ASSUME NEW i \in 1 .. Len(u) PROVE u[i] \in Plain
        OBVIOUS
      <4>1. (j + 1) + i - 1 \in 7 .. Len(a)
        BY <1>2, <2>2, <2>3, <2>6
      <4>2. QED
        BY <2>2, <2>4, <4>1
    <3>2. u \in Seq(Plain)
      BY <1>2, <3>1
    <3>3. QED
      BY <1>2, <2>6, <3>2 DEF Left, u
  <2>7. QED
    BY <1>4, <2>5, <2>6
<1>5. QED
  BY <1>3, <1>4

\* A call begins.
LEMMA Begins ==
    ASSUME NEW d, d.step = 1, NEW j \in 1 .. 7, Left(d.todo, j), NEW p, Before(j, p), NEW r, NEW e, NEW b
    PROVE  Doing(d, j, p, r, e, b)
<1> DEFINE k == Head(d.todo)
<1>1. d.todo \in Seq(AllCalls)
  BY DEF Left
<1>2. CASE d.todo # <<>> /\ k \in Writes
  <2>1. Fits(j, k)
    BY <1>2, HeadFits
  <2>2. 1 - Lead(k) \in {0, 1}
    BY DEF Lead
  <2>3. Nibbles(j, k, d.step - Lead(k), p, r, e, b)
    BY <2>2 DEF Nibbles
  <2>4. QED
    BY <1>2, <2>3 DEF Doing
<1>3. CASE d.todo # <<>> /\ k \notin Writes
  BY <1>3, HeadFits DEF Doing
<1>4. CASE d.todo = <<>>
  <2>1. Len(d.todo) = 0
    BY <1>4
  <2>2. j = 7
    BY <2>1, InitIs DEF Left
  <2>3. QED
    BY <1>4, <2>2 DEF Doing
<1>5. QED
  BY <1>2, <1>3, <1>4

\* What is left when a call has taken its step.
LEMMA StepLeft ==
    ASSUME NEW c, CallOk(c), c.todo # <<>>, NEW j \in 1 .. 7, Left(c.todo, j), NEW d, d = P!After(c)
    PROVE  /\ CallOk(d)
           /\ c.step < Size(Head(c.todo)) => d.todo = c.todo /\ d.step = c.step + 1
           /\ ~(c.step < Size(Head(c.todo))) =>
                  d.step = 1 /\ c.step = Size(Head(c.todo)) /\ Left(d.todo, IF j < 6 THEN j + 1 ELSE 7)
           /\ c.todo \in Seq(Shows) => d.todo \in Seq(Shows)
<1> DEFINE k == Head(c.todo)
           i == IF j < 6 THEN j + 1 ELSE 7
           u == Tail(c.todo)
<1>1. /\ DOMAIN d = {"todo", "step", "reg"}
      /\ c.step < Size(k) => d.todo = c.todo /\ d.step = c.step + 1
      /\ ~(c.step < Size(k)) =>
             /\ c.step = Size(k) /\ d.step = 1
             /\ \/ d.todo = u
                \/ k[1] = "data" /\ \E p \in {16, 32} : d.todo = <<P!MoveTo(p)>> \o u
  BY Advances
<1>2. c.todo \in Seq(AllCalls) /\ c.step \in 1 .. Size(k)
  BY DEF CallOk
<1>3. CASE c.step < Size(k)
  <2>1. c.step + 1 \in 1 .. Size(k)
    <3>1. Size(k) \in Nat
      BY DEF Size
    <3>2. QED
      BY <1>2, <1>3, <3>1
  <2>2. QED
    BY <1>1, <1>2, <1>3, <2>1 DEF CallOk
<1>4. CASE ~(c.step < Size(k))
  <2>1. Left(u, i)
    BY TailLeft
  <2>2. u \in Seq(AllCalls) /\ (c.todo \in Seq(Shows) => u \in Seq(Shows))
    BY <1>2
  <2>3. Left(d.todo, i) /\ (c.todo \in Seq(Shows) => d.todo \in Seq(Shows))
    <3>1. CASE d.todo = u
      BY <2>1, <2>2, <3>1
    <3>2. CASE k[1] = "data" /\ \E p \in {16, 32} : d.todo = <<P!MoveTo(p)>> \o u
      <4>1. PICK p \in {16, 32} : d.todo = <<P!MoveTo(p)>> \o u
        BY <3>2
      <4> DEFINE g == P!MoveTo(p)
      <4>2. g \in Shows /\ g \in Plain /\ g \in AllCalls
        BY DEF P!MoveTo, Shows, Plain, AllCalls
      <4>3. j = 7
        <5>1. j < 7 => k \in Writes /\ Fits(j, k)
          BY HeadFits
        <5>2. j < 7 => k[1] \in {"cmd", "cls"}
          BY <5>1 DEF Fits, InitCalls, P!Cmd, P!Cls
        <5>3. QED
          BY <3>2, <5>2
      <4>4. u \in Seq(Plain)
        <5>1. i = 7
          BY <4>3
        <5>2. QED
          BY <2>1, <5>1 DEF Left
      <4> HIDE DEF g, u
      <4>5. <<g>> \in Seq(Plain) /\ <<g>> \in Seq(Shows) /\ <<g>> \in Seq(AllCalls)
        BY <4>2
      <4>6. <<g>> \o u \in Seq(Plain)
        BY <4>4, <4>5
      <4>7. <<g>> \o u \in Seq(AllCalls)
        BY <2>2, <4>5
      <4>8. c.todo \in Seq(Shows) => <<g>> \o u \in Seq(Shows)
        <5>1. c.todo \in Seq(Shows) => u \in Seq(Shows)
          BY <2>2
        <5>2. <<g>> \in Seq(Shows)
          BY <4>5
        <5>3. u \in Seq(Shows) => <<g>> \o u \in Seq(Shows)
          BY <5>2
        <5>4. QED
          BY <5>1, <5>3
      <4>9. d.todo = <<g>> \o u /\ i = 7
        BY <4>1, <4>3 DEF g, u
      <4>10. QED
        BY <4>6, <4>7, <4>8, <4>9 DEF Left
    <3>3. QED
      BY <1>1, <1>4, <3>1, <3>2
  <2>4. CallOk(d)
    <3>1. d.todo \in Seq(AllCalls) /\ d.step = 1 /\ DOMAIN d = {"todo", "step", "reg"}
      BY <1>1, <1>4, <2>3 DEF Left
    <3>2. Size(Head(d.todo)) \in {1, 8, 9, 10}
      BY DEF Size
    <3>3. QED
      BY <3>1, <3>2 DEF CallOk
  <2>5. QED
    BY <1>1, <1>4, <2>3, <2>4
<1>5. QED
  BY <1>3, <1>4

\* A step of the first call, and the display behind it.
LEMMA CallStep ==
    ASSUME NEW c, CallOk(c), c.todo # <<>>, NEW j \in 1 .. 7, Left(c.todo, j), NEW d, d = P!After(c),
           panel \in Panels, rs \in {0, 1}, bus \in 0 .. 15, P!Effect(P!Op(c))
    PROVE  \E i \in 1 .. 7 :
               /\ j = 7 => i = 7
               /\ Left(d.todo, i)
               /\ Doing(c, j, panel, rs, en, bus) => Doing(d, i, panel', rs', en', bus')
<1> DEFINE k == Head(c.todo)
           i == IF j < 6 THEN j + 1 ELSE 7
           n == c.step - Lead(k)
<1>1. /\ CallOk(d)
      /\ c.step < Size(k) => d.todo = c.todo /\ d.step = c.step + 1
      /\ ~(c.step < Size(k)) => d.step = 1 /\ c.step = Size(k) /\ Left(d.todo, i)
  BY StepLeft
<1>2. c.step \in 1 .. Size(k) /\ i \in 1 .. 7 /\ (j = 7 => i = 7)
  BY DEF CallOk
<1>3. k \in AllCalls /\ (j < 7 => k \in Writes) /\ (k \in Writes => Fits(j, k))
  BY HeadFits
<1>4. CASE k \in Writes
  <2>1. Fits(j, k)
    BY <1>3, <1>4
  <2>2. Doing(c, j, panel, rs, en, bus) => Nibbles(j, k, n, panel, rs, en, bus)
    BY <1>4 DEF Doing
  <2>3. Doing(c, j, panel, rs, en, bus) =>
            /\ c.step < Size(k) => Nibbles(j, k, n + 1, panel', rs', en', bus')
            /\ c.step = Size(k) => Before(i, panel')
    BY <2>1, <2>2, NibbleStep
  <2>4. CASE c.step < Size(k)
    <3>1. d.todo = c.todo /\ d.step - Lead(k) = n + 1
      <4>1. Lead(k) \in {0, 1}
        BY DEF Lead
      <4>2. QED
        BY <1>1, <1>2, <2>4, <4>1
    <3>2. Nibbles(j, k, n + 1, panel', rs', en', bus') => Doing(d, j, panel', rs', en', bus')
      BY <1>4, <3>1 DEF Doing
    <3>3. QED
      BY <2>3, <2>4, <3>1, <3>2
  <2>5. CASE ~(c.step < Size(k))
    <3>1. Left(d.todo, i) /\ d.step = 1 /\ c.step = Size(k)
      BY <1>1, <2>5
    <3>2. Before(i, panel') => Doing(d, i, panel', rs', en', bus')
      <4> HIDE DEF i
      <4>1. QED
        BY <1>2, <3>1, Begins
    <3>3. QED
      BY <1>2, <2>3, <3>1, <3>2
  <2>6. QED
    BY <2>4, <2>5
<1>5. CASE k \notin Writes
  <2>1. P!Ops(k) = <<k>> /\ Size(k) = 1 /\ k[1] \in {"tx", "sei"}
    BY <1>3, <1>5, Single
  <2>2. c.step = 1 /\ P!Op(c) = k
    BY <1>2, <2>1 DEF P!Op
  <2>3. panel' = panel
    BY <2>1, <2>2, EffectIs
  <2>4. j = 7 /\ i = 7
    <3>1. j = 7
      BY <1>3, <1>5
    <3>2. QED
      BY <3>1
  <2>5. Left(d.todo, 7) /\ d.step = 1
    BY <1>1, <2>1, <2>2, <2>4
  <2>6. Doing(c, j, panel, rs, en, bus) => Before(7, panel')
    BY <1>5, <2>3 DEF Doing
  <2>7. Before(7, panel') => Doing(d, 7, panel', rs', en', bus')
    BY <2>5, Begins
  <2>8. QED
    BY <2>4, <2>5, <2>6, <2>7
<1>6. QED
  BY <1>4, <1>5

-----------------------------------------------------------------------------
(* The pager's steps. *)

LEMMA Joined ==
    ASSUME NEW S, NEW s \in Seq(S), NEW u \in Seq(S)
    PROVE  s \o u \in Seq(S)
OBVIOUS

LEMMA Wider ==
    ASSUME NEW s \in Seq(Shows)
    PROVE  s \in Seq(Plain) /\ s \in Seq(AllCalls)
<1>1. Shows \subseteq Plain /\ Shows \subseteq AllCalls
  BY DEF Plain, AllCalls
<1>2. QED
  BY <1>1

LEMMA PacketIs ==
    ASSUME NEW c \in Letters, NEW i \in 1 .. 4
    PROVE  <<P!Packet(c)[i], c>> \in Sends /\ P!Packet(c)[i] \in Byte /\ P!Packet(c)[4] = 68 + c
<1>1. (P!RADD + c) % 256 = 68 + c
  BY DEF P!RADD, Letters
<1>2. P!Packet(c) = <<170, 68, c, 68 + c>>
  BY <1>1 DEF P!Packet, P!SYNC, P!RADD
<1>3. P!Packet(c)[i] \in {170, 68, c, 68 + c}
  BY <1>2
<1>4. P!Packet(c)[i] \in Byte
  BY <1>3 DEF Byte, Letters
<1>5. QED
  BY <1>2, <1>3, <1>4 DEF Sends

LEMMA LoopIs ==
    ASSUME NEW c \in Letters
    PROVE  P!Loop(c) \in Seq(Plain)
<1> DEFINE h == P!Packet(c)
           w == <<P!MoveTo(0)>>
           x == P!PrintString(Sending)
           y == <<P!Data(c)>>
           z == [i \in 1 .. 4 |-> <<"tx", h[i]>>]
<1>1. w \in Seq(Plain) /\ y \in Seq(Plain)
  <2>1. P!MoveTo(0) \in Shows /\ P!Data(c) \in Shows
    BY DEF P!MoveTo, P!Data, Shows, Letters, Byte
  <2>2. QED
    BY <2>1 DEF Plain
<1>2. x \in Seq(Plain)
  BY Printed, Wider, BoardAssumption
<1>3. z \in Seq(Plain)
  <2>1. \A i \in 1 .. 4 : h[i] \in Byte
    BY PacketIs
  <2> HIDE DEF h
  <2>2. \A i \in 1 .. 4 : <<"tx", h[i]>> \in Plain
    BY <2>1 DEF Plain
  <2>3. QED
    BY <2>2
<1>4. P!Loop(c) = ((w \o x) \o y) \o z
  BY DEF P!Loop
<1> HIDE DEF w, x, y, z
<1>5. w \o x \in Seq(Plain)
  BY <1>1, <1>2, Joined
<1>6. (w \o x) \o y \in Seq(Plain)
  BY <1>1, <1>5, Joined
<1>7. ((w \o x) \o y) \o z \in Seq(Plain)
  BY <1>3, <1>6, Joined
<1>8. QED
  BY <1>4, <1>7

LEMMA ShownIs ==
    ASSUME NEW p, p[3] \in Byte
    PROVE  P!Shown(p) \in Seq(Shows)
<1> DEFINE y == <<P!Data(p[3])>>
<1>1. /\ <<P!MoveTo(16)>> \in Seq(Shows) /\ <<P!MoveTo(12)>> \in Seq(Shows) /\ y \in Seq(Shows)
      /\ <<>> \in Seq(Shows)
  <2>1. P!MoveTo(16) \in Shows /\ P!MoveTo(12) \in Shows /\ P!Data(p[3]) \in Shows
    BY DEF P!MoveTo, P!Data, Shows
  <2>2. QED
    BY <2>1
<1>2. P!PrintString(Received) \in Seq(Shows) /\ P!PrintString(Error) \in Seq(Shows)
  BY Printed, BoardAssumption
<1>3. \/ P!Shown(p) = (<<P!MoveTo(16)>> \o P!PrintString(Received)) \o y
      \/ P!Shown(p) = (<<P!MoveTo(12)>> \o P!PrintString(Error)) \o y
      \/ P!Shown(p) = <<>>
  BY DEF P!Shown
<1> HIDE DEF y
<1>4. /\ <<P!MoveTo(16)>> \o P!PrintString(Received) \in Seq(Shows)
      /\ <<P!MoveTo(12)>> \o P!PrintString(Error) \in Seq(Shows)
  BY <1>1, <1>2, Joined
<1>5. /\ (<<P!MoveTo(16)>> \o P!PrintString(Received)) \o y \in Seq(Shows)
      /\ (<<P!MoveTo(12)>> \o P!PrintString(Error)) \o y \in Seq(Shows)
  BY <1>1, <1>4, Joined
<1>6. QED
  BY <1>1, <1>3, <1>5

\* A checksum is taken for the letter that it was sent with.
LEMMA Checked ==
    ASSUME NEW p, p[3] \in Heard, NEW c \in Letters, p[4] \in {170, 68, c, 68 + c}, P!Accepted(p)
    PROVE  p[3] = c
BY DEF P!Accepted, P!RADD, Heard, Letters

\* The calls of a part of the program that begins with them.
LEMMA AtIs ==
    ASSUME NEW s \in Seq(AllCalls)
    PROVE  CallOk(P!At(s)) /\ P!At(s).todo = s /\ P!At(s).step = 1 /\ ~P!InCall(P!At(s))
<1>1. Size(Head(s)) \in {1, 8, 9, 10}
  BY DEF Size
<1>2. QED
  BY <1>1 DEF P!At, P!InCall, CallOk

MainPart ==
    \E j \in 1 .. 7 :
        /\ Left(main.todo, j)
        /\ ~P!Idle => j = 7
        /\ (~torn /\ isr.todo = <<>>) => Doing(main, j, panel, rs, en, bus)

IsrPart ==
    /\ (~torn /\ ~P!Idle) => ~P!InCall(main)
    /\ (~torn /\ isr.todo # <<>>) => Doing(isr, 7, panel, rs, en, bus)

PagerInv == PagerType /\ MainPart /\ IsrPart /\ received[1] = received[2]

LEMMA PagerMain ==
    ASSUME PagerInv, P!Main
    PROVE  PagerInv'
<1>1. /\ P!Idle /\ main.todo # <<>> /\ main' = P!After(main)
      /\ P!Effect(P!Op(main))
      /\ UNCHANGED <<isr, out, got, fifo, peer, received, torn>>
  BY DEF P!Main, P!Step
<1>2. PICK j \in 1 .. 7 : Left(main.todo, j) /\ ((~torn /\ isr.todo = <<>>) => Doing(main, j, panel, rs, en, bus))
  BY DEF PagerInv, MainPart
<1>3. CallOk(main) /\ panel \in Panels /\ rs \in {0, 1} /\ bus \in 0 .. 15
  BY DEF PagerInv, PagerType
<1>4. panel' \in Panels /\ rs' \in {0, 1} /\ bus' \in 0 .. 15
  BY <1>1, <1>3, TypesStay
<1>5. CallOk(main')
  BY <1>1, <1>2, <1>3, StepLeft
<1>6. PICK i \in 1 .. 7 :
          /\ Left(main'.todo, i)
          /\ Doing(main, j, panel, rs, en, bus) => Doing(main', i, panel', rs', en', bus')
  BY <1>1, <1>2, <1>3, CallStep
<1>7. PagerType'
  BY <1>1, <1>4, <1>5 DEF PagerInv, PagerType
<1>8. isr.todo = <<>> /\ P!Idle'
  BY <1>1 DEF P!Idle
<1>9. MainPart'
  BY <1>1, <1>2, <1>6, <1>8 DEF MainPart
<1>10. IsrPart'
  BY <1>1, <1>8 DEF IsrPart
<1>11. QED
  BY <1>1, <1>7, <1>9, <1>10 DEF PagerInv

LEMMA PagerNextLetter ==
    ASSUME PagerInv, P!NextLetter
    PROVE  PagerInv'
<1>1. /\ P!Idle /\ main.todo = <<>> /\ main' = P!At(P!Loop(out)) /\ out' = P!Following(out)
      /\ UNCHANGED <<rs, en, bus, panel, isr, got, fifo, peer, received, torn>>
  BY DEF P!NextLetter, P!pins
<1>2. out \in 65 .. LastLetter /\ P!Loop(out) \in Seq(Plain) /\ P!Loop(out) \in Seq(AllCalls)
  <2>1. out \in 65 .. LastLetter
    BY DEF PagerInv, PagerType
  <2>2. P!Loop(out) \in Seq(Plain)
    <3>1. LastLetter \in 65 .. 90
      BY BoardAssumption
    <3>2. out \in Letters
      BY <2>1, <3>1 DEF Letters
    <3>3. QED
      BY <3>2, LoopIs
  <2>3. Plain \subseteq AllCalls
    BY DEF AllCalls
  <2>4. QED
    BY <2>1, <2>2, <2>3
<1>3. CallOk(main') /\ main'.todo = P!Loop(out) /\ main'.step = 1
  BY <1>1, <1>2, AtIs
<1>4. Left(main'.todo, 7)
  BY <1>2, <1>3 DEF Left
<1>5. out' \in 65 .. LastLetter
  <2>1. LastLetter \in 65 .. 90
    BY BoardAssumption
  <2>2. QED
    BY <1>1, <1>2, <2>1 DEF P!Following
<1>6. PagerType'
  BY <1>1, <1>3, <1>5 DEF PagerInv, PagerType
<1>7. (~torn /\ isr.todo = <<>>) => Before(7, panel)
  <2>1. PICK j \in 1 .. 7 : Left(main.todo, j) /\ ((~torn /\ isr.todo = <<>>) => Doing(main, j, panel, rs, en, bus))
    BY DEF PagerInv, MainPart
  <2>2. QED
    BY <1>1, <2>1 DEF Doing
<1>8. Before(7, panel) => Doing(main', 7, panel, rs, en, bus)
  BY <1>3, <1>4, Begins
<1>9. P!Idle'
  BY <1>1 DEF P!Idle
<1>10. MainPart'
  BY <1>1, <1>4, <1>7, <1>8 DEF MainPart
<1>11. IsrPart'
  BY <1>1, <1>9 DEF IsrPart, P!Idle
<1>12. QED
  BY <1>1, <1>6, <1>10, <1>11 DEF PagerInv

LEMMA PagerRead ==
    ASSUME PagerInv, P!Read
    PROVE  PagerInv'
<1> DEFINE e == Head(fifo)
           p == Append(got, e[1])
<1>1. /\ isr.todo = <<>> /\ fifo # <<>> /\ P!Receiving /\ fifo' = Tail(fifo)
      /\ torn' = (torn \/ (P!Idle /\ P!InCall(main)))
      /\ UNCHANGED <<rs, en, bus, panel, main, out, peer>>
  BY DEF P!Read, P!pins
<1>2. /\ Len(p) < 4 => got' = p /\ isr' = isr /\ received' = received
      /\ ~(Len(p) < 4) => /\ got' = <<>> /\ isr' = P!At(P!Shown(p))
                          /\ received' = IF P!Accepted(p) THEN <<p[3], e[2]>> ELSE received
  BY DEF P!Read
<1>3. /\ fifo \in Seq(Sends) /\ got \in Seq(Heard) /\ Len(got) <= 3 /\ torn \in BOOLEAN
      /\ CallOk(isr) /\ isr.todo \in Seq(Shows)
  BY DEF PagerInv, PagerType
<1>4. fifo' \in Seq(Sends) /\ e \in Sends
  BY <1>1, <1>3, FirstCall
<1>5. e[1] \in Heard /\ e[2] \in Letters /\ e[1] \in {170, 68, e[2], 68 + e[2]}
  <2> HIDE DEF e
  <2>1. e[2] \in Letters /\ e[1] \in {170, 68, e[2], 68 + e[2]}
    BY <1>4 DEF Sends
  <2>2. 68 + e[2] \in 133 .. 158
    BY <2>1 DEF Letters
  <2>3. QED
    BY <2>1, <2>2 DEF Heard
<1> HIDE DEF e
<1>6. /\ p \in Seq(Heard) /\ Len(p) = Len(got) + 1
      /\ \A i \in 1 .. Len(got) : p[i] = got[i]
      /\ p[Len(got) + 1] = e[1]
  <2>1. got \in Seq(Heard) /\ e[1] \in Heard
    BY <1>3, <1>5
  <2>2. QED
    BY <2>1
<1> HIDE DEF p
<1>7. ~(Len(p) < 4) => p[3] \in Heard /\ p[4] = e[1]
  <2>1. Len(got) \in Nat
    BY <1>3
  <2>2. \A i \in 1 .. Len(got) : got[i] \in Heard
    BY <1>3
  <2>3. Len(got) <= 3
    BY <1>3
  <2>4. Len(p) = Len(got) + 1
    BY <1>6
  <2> DEFINE n == Len(got)
             m == Len(p)
  <2> HIDE DEF n, m
  <2>5. ~(m < 4) => n = 3
    <3>1. n \in Nat /\ n <= 3 /\ m = n + 1
      BY Zenon, <2>1, <2>3, <2>4 DEF n, m
    <3>2. QED
      BY <3>1
  <2>6. /\ \A i \in 1 .. n : got[i] \in Heard /\ p[i] = got[i]
        /\ p[n + 1] = e[1]
    BY <1>6, <2>2 DEF n
  <2>7. ~(m < 4) => p[3] \in Heard /\ p[4] = e[1]
    BY <2>5, <2>6
  <2>8. QED
    BY <2>7 DEF m
<1>8. ~(Len(p) < 4) => isr'.todo \in Seq(Shows) /\ isr'.step = 1 /\ CallOk(isr')
  <2>1. SUFFICES ASSUME ~(Len(p) < 4) PROVE isr'.todo \in Seq(Shows) /\ isr'.step = 1 /\ CallOk(isr')
    OBVIOUS
  <2>2. p[3] \in Byte
    BY <1>7, <2>1 DEF Heard, Letters, Byte
  <2>3. P!Shown(p) \in Seq(Shows) /\ P!Shown(p) \in Seq(AllCalls)
    BY <2>2, ShownIs, Wider
  <2>4. QED
    BY <1>2, <2>1, <2>3, AtIs
<1>9. got' \in Seq(Heard) /\ Len(got') <= 3
  <2>1. CASE Len(p) < 4
    <3>1. Len(p) \in Nat
      BY <1>6
    <3>2. QED
      BY <1>2, <1>6, <2>1, <3>1
  <2>2. CASE ~(Len(p) < 4)
    <3>1. got' = <<>>
      BY <1>2, <2>2
    <3>2. <<>> \in Seq(Heard) /\ Len(<<>>) = 0
      OBVIOUS
    <3>3. QED
      BY <3>1, <3>2
  <2>3. QED
    BY <2>1, <2>2
<1>10. CallOk(isr') /\ isr'.todo \in Seq(Shows)
  <2>1. CASE Len(p) < 4
    BY <1>2, <1>3, <2>1
  <2>2. QED
    BY <1>8, <2>1
<1>11. PagerType'
  <2>1. torn' \in BOOLEAN
    BY <1>1
  <2>2. QED
    BY <1>1, <1>4, <1>9, <1>10, <2>1 DEF PagerInv, PagerType
<1>12. received'[1] = received'[2]
  <2>1. CASE ~(Len(p) < 4) /\ P!Accepted(p)
    <3>1. p[3] = e[2]
      BY <1>5, <1>7, <2>1, Checked
    <3>2. received' = <<p[3], e[2]>>
      BY <1>2, <2>1
    <3>3. QED
      BY <3>1, <3>2
  <2>2. CASE ~(~(Len(p) < 4) /\ P!Accepted(p))
    <3>1. received' = received
      BY <1>2, <2>2
    <3>2. QED
      BY <3>1 DEF PagerInv
  <2>3. QED
    BY <2>1, <2>2
<1>13. PICK j \in 1 .. 7 : /\ Left(main.todo, j)
                           /\ (~torn /\ isr.todo = <<>>) => Doing(main, j, panel, rs, en, bus)
  BY DEF PagerInv, MainPart
<1>14. j = 7
  BY <1>1, <1>13, NotYet
<1>15. MainPart'
  <2>1. Left(main.todo, 7) /\ (~torn' => Doing(main, 7, panel, rs, en, bus))
    BY <1>1, <1>13, <1>14
  <2>2. QED
    BY <1>1, <2>1 DEF MainPart
<1>16. ~torn' => ~P!InCall(main) /\ ~torn
  <2>1. (~torn /\ ~P!Idle) => ~P!InCall(main)
    BY DEF PagerInv, IsrPart
  <2>2. QED
    BY <1>1, <2>1
<1>17. (~torn' /\ isr'.todo # <<>>) => Doing(isr', 7, panel, rs, en, bus)
  <2>1. SUFFICES ASSUME ~torn', isr'.todo # <<>> PROVE Doing(isr', 7, panel, rs, en, bus)
    OBVIOUS
  <2>2. ~(Len(p) < 4)
    BY <1>1, <1>2, <2>1
  <2>3. isr'.step = 1 /\ isr'.todo \in Seq(Shows)
    BY <1>8, <2>2
  <2>4. Left(isr'.todo, 7)
    BY <2>3, Wider DEF Left
  <2>5. Before(7, panel)
    <3>1. Doing(main, 7, panel, rs, en, bus) /\ ~P!InCall(main)
      BY <1>1, <1>13, <1>14, <1>16, <2>1
    <3>2. CASE main.todo = <<>> \/ Head(main.todo) \notin Writes
      BY <3>1, <3>2 DEF Doing
    <3>3. CASE main.todo # <<>> /\ Head(main.todo) \in Writes
      <4> DEFINE k == Head(main.todo)
      <4>1. CallOk(main)
        BY DEF PagerInv, PagerType
      <4>2. main.step = 1
        <5>1. main.step \in 1 .. Size(k) /\ ~(main.step > 1)
          BY <3>1, <3>3, <4>1 DEF CallOk, P!InCall
        <5>2. QED
          BY <5>1
      <4>3. Nibbles(7, k, main.step - Lead(k), panel, rs, en, bus)
        BY <3>1, <3>3 DEF Doing
      <4>4. main.step - Lead(k) <= 4
        BY <4>2 DEF Lead
      <4>5. QED
        BY <4>3, <4>4 DEF Nibbles
    <3>4. QED
      BY <3>2, <3>3
  <2>6. QED
    BY <2>3, <2>4, <2>5, Begins
<1>18. IsrPart'
  <2>1. main' = main /\ panel' = panel /\ rs' = rs /\ en' = en /\ bus' = bus
    BY <1>1
  <2>2. P!InCall(main)' = P!InCall(main)
    BY <2>1 DEF P!InCall
  <2>3. QED
    BY <1>16, <1>17, <2>1, <2>2 DEF IsrPart
<1>19. QED
  BY <1>11, <1>12, <1>15, <1>18 DEF PagerInv

LEMMA PagerShow ==
    ASSUME PagerInv, P!Show
    PROVE  PagerInv'
<1>1. /\ isr.todo # <<>> /\ isr' = P!After(isr) /\ P!Effect(P!Op(isr))
      /\ UNCHANGED <<main, out, got, fifo, peer, received, torn>>
  BY DEF P!Show, P!Step
<1>2. PICK j \in 1 .. 7 : Left(main.todo, j) /\ (~P!Idle => j = 7)
  BY DEF PagerInv, MainPart
<1>3. j = 7 /\ ~P!Idle
  BY <1>1, <1>2 DEF P!Idle
<1>4. /\ CallOk(isr) /\ isr.todo \in Seq(Shows)
      /\ panel \in Panels /\ rs \in {0, 1} /\ bus \in 0 .. 15 /\ CallOk(main)
  BY DEF PagerInv, PagerType
<1>5. panel' \in Panels /\ rs' \in {0, 1} /\ bus' \in 0 .. 15
  BY <1>1, <1>4, TypesStay
<1>6. Left(isr.todo, 7)
  BY <1>4, Wider DEF Left
<1>7. CallOk(isr') /\ isr'.todo \in Seq(Shows)
  BY <1>1, <1>4, <1>6, StepLeft
<1>8. Doing(isr, 7, panel, rs, en, bus) => Doing(isr', 7, panel', rs', en', bus')
  <2>1. PICK i \in 1 .. 7 :
            /\ 7 = 7 => i = 7
            /\ Left(isr'.todo, i)
            /\ Doing(isr, 7, panel, rs, en, bus) => Doing(isr', i, panel', rs', en', bus')
    BY <1>1, <1>4, <1>6, CallStep
  <2>2. QED
    BY <2>1
<1>9. PagerType'
  BY <1>1, <1>4, <1>5, <1>7 DEF PagerInv, PagerType
<1>10. ~torn => ~P!InCall(main) /\ Doing(isr', 7, panel', rs', en', bus')
  BY <1>1, <1>3, <1>8 DEF PagerInv, IsrPart
<1>11. P!InCall(main)' = P!InCall(main)
  BY <1>1 DEF P!InCall
<1>12. IsrPart'
  BY <1>1, <1>10, <1>11 DEF IsrPart
\* Behind the routine's last call the display waits for a first nibble.
<1>13. (~torn /\ isr'.todo = <<>>) => Doing(main, 7, panel', rs', en', bus')
  <2>1. SUFFICES ASSUME ~torn, isr'.todo = <<>> PROVE Doing(main, 7, panel', rs', en', bus')
    OBVIOUS
  <2>2. Before(7, panel')
    BY <1>10, <2>1 DEF Doing
  <2>3. ~P!InCall(main) /\ Left(main.todo, 7)
    BY <1>2, <1>3, <1>10, <2>1
  <2>4. main.step = 1
    <3>1. CASE main.todo = <<>>
      BY <1>4, <3>1 DEF CallOk
    <3>2. CASE main.todo # <<>>
      <4>1. main.step \in 1 .. Size(Head(main.todo)) /\ ~(main.step > 1)
        BY <1>4, <2>3, <3>2 DEF CallOk, P!InCall
      <4>2. QED
        BY <4>1
    <3>3. QED
      BY <3>1, <3>2
  <2>5. QED
    BY <2>2, <2>3, <2>4, Begins
<1>14. MainPart'
  <2>1. main'.todo = main.todo /\ Left(main.todo, 7)
    BY <1>1, <1>2, <1>3
  <2>2. (~torn' /\ isr'.todo = <<>>) => Doing(main', 7, panel', rs', en', bus')
    BY <1>1, <1>13
  <2>3. QED
    BY <2>1, <2>2 DEF MainPart
<1>15. QED
  BY <1>1, <1>9, <1>12, <1>14 DEF PagerInv

\* The other board's bytes.
LEMMA PagerByte ==
    ASSUME PagerInv, NEW arrives \in BOOLEAN, P!Byte(arrives)
    PROVE  PagerInv'
<1> DEFINE w == <<P!Packet(peer[1])[peer[2]], peer[1]>>
<1>1. /\ peer[1] < 65 + MaxLetters
      /\ fifo' = IF arrives /\ P!Receiving THEN Append(fifo, w) ELSE fifo
      /\ peer' = IF peer[2] = 4 THEN <<peer[1] + 1, 1>> ELSE <<peer[1], peer[2] + 1>>
      /\ UNCHANGED <<rs, en, bus, panel, main, isr, out, got, received, torn>>
  BY DEF P!Byte, P!pins
<1>2. peer[1] \in 65 .. (65 + MaxLetters) /\ peer[2] \in 1 .. 4 /\ MaxLetters \in 0 .. 26
  BY BoardAssumption DEF PagerInv, PagerType
<1>3. w \in Sends
  <2>1. peer[1] \in Letters
    <3>1. \A n, x \in Int : (n \in 65 .. (65 + x) /\ x \in 0 .. 26 /\ n < 65 + x) => n \in 65 .. 90
      OBVIOUS
    <3>2. peer[1] \in Int /\ MaxLetters \in Int
      BY <1>2
    <3>3. QED
      BY <1>1, <1>2, <3>1, <3>2 DEF Letters
  <2>2. QED
    BY <1>2, <2>1, PacketIs
<1> HIDE DEF w
<1>4. fifo' \in Seq(Sends)
  <2>1. fifo \in Seq(Sends)
    BY DEF PagerInv, PagerType
  <2>2. Append(fifo, w) \in Seq(Sends)
    BY <1>3, <2>1
  <2>3. QED
    BY <1>1, <2>1, <2>2
<1>5. peer'[1] \in 65 .. (65 + MaxLetters) /\ peer'[2] \in 1 .. 4
  <2>1. CASE peer[2] = 4
    <3>1. peer'[1] = peer[1] + 1 /\ peer'[2] = 1
      BY <1>1, <2>1
    <3>2. QED
      BY <1>1, <1>2, <3>1
  <2>2. CASE peer[2] # 4
    <3>1. peer'[1] = peer[1] /\ peer'[2] = peer[2] + 1
      BY <1>1, <2>2
    <3>2. QED
      BY <1>2, <2>2, <3>1
  <2>3. QED
    BY <2>1, <2>2
<1>6. PagerType'
  BY <1>1, <1>4, <1>5 DEF PagerInv, PagerType
<1>7. MainPart'
  BY <1>1 DEF PagerInv, MainPart, P!Idle
<1>8. IsrPart'
  BY <1>1 DEF PagerInv, IsrPart, P!Idle, P!InCall
<1>9. QED
  BY <1>1, <1>6, <1>7, <1>8 DEF PagerInv

\* The program from its start, with the display in any state but behind a nibble 0.
LEMMA Booting ==
    Left(P!At(P!init_io).todo, 1) /\ CallOk(P!At(P!init_io)) /\ P!At(P!init_io).step = 1
<1>1. P!init_io \in Seq(AllCalls)
  BY InitIs
<1>2. P!At(P!init_io).todo = P!init_io
  BY <1>1, AtIs
<1> DEFINE a == P!init_io
<1>3. a \in Seq(AllCalls) /\ Len(a) \in Nat
  BY <1>1
<1> HIDE DEF a
<1>4. Len(a) = Len(a) - 1 + 1 /\ \A i \in 1 .. Len(a) : a[i] = a[1 + i - 1]
  <2>1. \A i \in 1 .. Len(a) : 1 + i - 1 = i
    BY <1>3
  <2>2. Len(a) = Len(a) - 1 + 1
    BY <1>3
  <2>3. QED
    BY <2>1, <2>2
<1>5. Left(a, 1)
  BY <1>3, <1>4 DEF Left, a
<1>6. QED
  BY <1>1, <1>2, <1>5, AtIs DEF a

LEMMA NoCalls == P!At(<<>>).todo = <<>> /\ CallOk(P!At(<<>>)) /\ <<>> \in Seq(Shows)
<1>1. <<>> \in Seq(AllCalls) /\ <<>> \in Seq(Shows)
  OBVIOUS
<1>2. QED
  BY <1>1, AtIs

LEMMA PagerReset ==
    ASSUME PagerInv, P!Reset
    PROVE  PagerInv'
<1>1. /\ rs' = 0 /\ en' = 0 /\ bus' = 0 /\ panel' = [panel EXCEPT !.busy = 0]
      /\ torn' = (panel.half = 0)
      /\ main' = P!At(P!init_io) /\ isr' = P!At(<<>>) /\ out' = 65 /\ got' = <<>> /\ fifo' = <<>>
      /\ UNCHANGED <<peer, received>>
  BY DEF P!Reset, P!PortsReset
<1>2. panel' \in Panels /\ panel'.busy = 0 /\ panel'.half = panel.half
  <2>1. panel \in Panels
    BY DEF PagerInv, PagerType
  <2>2. QED
    BY <1>1, <2>1 DEF Panels
<1>3. torn' \in BOOLEAN /\ out' \in 65 .. LastLetter
  <2>1. LastLetter \in 65 .. 90
    BY BoardAssumption
  <2>2. QED
    BY <1>1, <2>1, SMTT(60)
<1>4. Left(main'.todo, 1) /\ CallOk(main') /\ main'.step = 1
  BY <1>1, Booting
<1>5. isr'.todo = <<>> /\ CallOk(isr') /\ isr'.todo \in Seq(Shows)
  BY <1>1, NoCalls
<1>6. fifo' \in Seq(Sends) /\ got' \in Seq(Heard) /\ Len(got') <= 3
  <2>1. <<>> \in Seq(Sends) /\ <<>> \in Seq(Heard) /\ Len(<<>>) = 0
    OBVIOUS
  <2>2. QED
    BY <1>1, <2>1
<1>7. PagerType'
  BY <1>1, <1>2, <1>3, <1>4, <1>5, <1>6 DEF PagerInv, PagerType
<1>8. P!Idle'
  BY <1>1, <1>5 DEF P!Idle
<1>9. ~torn' => Before(1, panel')
  <2>1. torn' <=> (panel.half = 0)
    BY Zenon, <1>1
  <2>2. QED
    BY <1>2, <2>1 DEF Before
<1>10. Before(1, panel') => Doing(main', 1, panel', rs', en', bus')
  BY <1>4, Begins
<1>11. MainPart'
  BY <1>4, <1>8, <1>9, <1>10 DEF MainPart
<1>12. IsrPart'
  BY <1>5, <1>8 DEF IsrPart
<1>13. QED
  BY <1>1, <1>7, <1>11, <1>12 DEF PagerInv

LEMMA PagerInit ==
    ASSUME P!Init
    PROVE  PagerInv
<1>1. /\ rs = 0 /\ en = 0 /\ bus = 0 /\ panel = P!PowerOn
      /\ main = P!At(P!init_io) /\ isr = P!At(<<>>) /\ out = 65
      /\ got = <<>> /\ fifo = <<>> /\ peer = <<65, 1>>
      /\ received = <<0, 0>> /\ torn = FALSE
  BY DEF P!Init
<1>2. panel \in Panels /\ Before(1, panel)
  BY <1>1 DEF P!PowerOn, Panels, Before
<1>3. Left(main.todo, 1) /\ CallOk(main) /\ main.step = 1
  BY <1>1, Booting
<1>4. isr.todo = <<>> /\ CallOk(isr) /\ isr.todo \in Seq(Shows)
  BY <1>1, NoCalls
<1>5. fifo \in Seq(Sends) /\ got \in Seq(Heard) /\ Len(got) <= 3
  <2>1. <<>> \in Seq(Sends) /\ <<>> \in Seq(Heard) /\ Len(<<>>) = 0
    OBVIOUS
  <2>2. QED
    BY <1>1, <2>1
<1>6. out \in 65 .. LastLetter /\ peer[1] \in 65 .. (65 + MaxLetters) /\ peer[2] \in 1 .. 4
  <2>1. LastLetter \in 65 .. 90 /\ MaxLetters \in 0 .. 26
    BY BoardAssumption
  <2>2. QED
    BY <1>1, <2>1
<1>7. PagerType
  <2>1. rs = 0 /\ bus = 0
    BY Zenon, <1>1
  <2>2. torn \in BOOLEAN
    BY Zenon, <1>1
  <2>3. rs \in {0, 1} /\ bus \in 0 .. 15
    BY <2>1
  <2>4. QED
    BY <1>2, <1>3, <1>4, <1>5, <1>6, <2>2, <2>3 DEF PagerType
<1>8. P!Idle
  BY <1>1, <1>4 DEF P!Idle
<1>9. Doing(main, 1, panel, rs, en, bus)
  BY <1>2, <1>3, Begins
<1>10. MainPart
  BY <1>3, <1>8, <1>9 DEF MainPart
<1>11. IsrPart
  BY <1>4, <1>8 DEF IsrPart
<1>12. QED
  BY <1>1, <1>7, <1>10, <1>11 DEF PagerInv

LEMMA PagerStep ==
    ASSUME PagerInv, [P!Next]_(P!vars)
    PROVE  PagerInv'
<1>1. CASE UNCHANGED P!vars
  BY <1>1 DEF P!vars, P!pins, PagerInv, PagerType, MainPart, IsrPart, P!Idle, P!InCall
<1>2. CASE P!Arrive \/ P!Lose
  <2>1. P!Byte(TRUE) \/ P!Byte(FALSE)
    BY <1>2 DEF P!Arrive, P!Lose
  <2>2. QED
    BY <2>1, PagerByte
<1>3. CASE P!Silence
  BY <1>1, <1>3 DEF P!Silence
<1>4. QED
  BY <1>1, <1>2, <1>3, PagerMain, PagerNextLetter, PagerRead, PagerShow, PagerReset DEF P!Next

LEMMA PagerAlways == FairSpec => [](app = "pager" => PagerInv)
<1>1. Init => (app = "pager" => PagerInv)
  BY PagerInit DEF Init
<1>2. (app = "pager" => PagerInv) /\ [Next]_vars => (app = "pager" => PagerInv)'
  BY PagerOrStutter, PagerStep
<1>3. QED
  BY <1>1, <1>2, PTL DEF FairSpec

\* What the pager shows as received was sent: the checksum of a packet that lost bytes
\* do not make up fits no other letter.  And its display finds back into step after
\* every reset and takes each byte's nibbles as the program sent them, but for a call
\* that the interrupt routine cut and a reset behind a nibble 0.
THEOREM PagerShowsSent == FairSpec => []PageIsTrue
<1>1. (app = "pager" => PagerInv) => PageIsTrue
  <2>1. SUFFICES ASSUME PagerInv PROVE P!OnlySentIsShown /\ P!DisplayInPhase
    BY DEF PageIsTrue
  <2>2. SUFFICES ASSUME P!Receiving, P!Idle, ~P!InCall(main), ~torn PROVE P!InPhase
    BY <2>1 DEF P!OnlySentIsShown, P!DisplayInPhase, PagerInv
  <2>3. PICK j \in 1 .. 7 : Left(main.todo, j) /\ Doing(main, j, panel, rs, en, bus)
    BY <2>1, <2>2 DEF PagerInv, MainPart, P!Idle
  <2>4. j = 7
    BY <2>2, <2>3, NotYet
  <2>5. CASE main.todo = <<>> \/ Head(main.todo) \notin Writes
    BY <2>3, <2>4, <2>5 DEF Doing, Before, P!InPhase
  <2>6. CASE main.todo # <<>> /\ Head(main.todo) \in Writes
    <3> DEFINE k == Head(main.todo)
    <3>1. main.step = 1
      <4>1. main.step \in 1 .. Size(k) /\ ~(main.step > 1)
        BY <2>1, <2>2, <2>6 DEF CallOk, P!InCall, PagerInv, PagerType
      <4>2. QED
        BY <4>1
    <3>2. Nibbles(7, k, main.step - Lead(k), panel, rs, en, bus)
      BY <2>3, <2>4, <2>6 DEF Doing
    <3>3. main.step - Lead(k) <= 4
      BY <3>1 DEF Lead
    <3>4. QED
      BY <3>2, <3>3 DEF Nibbles, Before, P!InPhase
  <2>7. QED
    BY <2>5, <2>6
<1>2. QED
  BY <1>1, PagerAlways, PTL
=============================================================================
