------------------------- MODULE Programmers_proofs -------------------------
(***************************************************************************)
(* Proofs about Programmers.  What a call still has to do is a sequence of *)
(* steps on the pins; what matters of the programmer and the target then   *)
(* runs through a sequence of abstract states, one step of a relation at a *)
(* time.  Each function of a library is such a run, put together from the  *)
(* runs of the functions it calls, and the state that the program is in is *)
(* one that its abstract state admits.                                     *)
(***************************************************************************)
EXTENDS Programmers, TLAPS

Names == {"oeb", "power", "out", "in", "in high", "in first", "xa", "bs1", "execute", "switch",
          "xtal1", "pagel", "wrb", "wait",
          "tms", "tdi", "last", "reset", "zero", "keep", "high", "const", "test",
          "mosi", "clock", "busy", "second"}

Steps == Names \X Nat

\* Through steps s, relation R leads from a to b.
Runs(R, s, a, b) ==
    /\ s \in Seq(Steps)
    /\ \E t : /\ t[1] = a /\ t[Len(s) + 1] = b
              /\ \A i \in 1..Len(s) : <<t[i], s[i], t[i + 1]>> \in R

LEMMA RunsNone == ASSUME NEW R, NEW a PROVE Runs(R, <<>>, a, a)
<1>1. <<a>>[1] = a /\ Len(<<>>) = 0
  OBVIOUS
<1> DEFINE t == <<a>>
<1>2. t[1] = a /\ t[Len(<<>>) + 1] = a /\ \A i \in 1..Len(<<>>) : <<t[i], <<>>[i], t[i + 1]>> \in R
  BY <1>1
<1> QED
  BY <1>2 DEF Runs

LEMMA RunsOne ==
    ASSUME NEW R, NEW a, NEW b, NEW x \in Steps, <<a, x, b>> \in R
    PROVE  Runs(R, <<x>>, a, b)
<1> DEFINE t == <<a, b>>
           s == <<x>>
<1>1. s \in Seq(Steps) /\ Len(s) = 1 /\ s[1] = x /\ t[1] = a /\ t[2] = b
  OBVIOUS
<1> HIDE DEF t, s
<1>2. t[Len(s) + 1] = b /\ \A i \in 1..Len(s) : <<t[i], s[i], t[i + 1]>> \in R
  BY <1>1
<1>3. Runs(R, s, a, b)
  BY <1>1, <1>2 DEF Runs
<1> QED
  BY <1>3 DEF s

LEMMA RunsThen ==
    ASSUME NEW R, NEW s, NEW u, NEW a, NEW b, NEW c, Runs(R, s, a, b), Runs(R, u, b, c)
    PROVE  Runs(R, s \o u, a, c)
<1>1. s \in Seq(Steps) /\ u \in Seq(Steps)
  BY DEF Runs
<1>2. PICK t : t[1] = a /\ t[Len(s) + 1] = b /\ \A i \in 1..Len(s) : <<t[i], s[i], t[i + 1]>> \in R
  BY DEF Runs
<1>3. PICK v : v[1] = b /\ v[Len(u) + 1] = c /\ \A i \in 1..Len(u) : <<v[i], u[i], v[i + 1]>> \in R
  BY DEF Runs
<1> DEFINE m == Len(s)
           n == Len(u)
           w == [i \in 1..(m + n + 1) |-> IF i <= m THEN t[i] ELSE v[i - m]]
           z == s \o u
<1>4. m \in Nat /\ n \in Nat
  BY <1>1
<1>5. z \in Seq(Steps) /\ Len(z) = m + n /\ \A i \in 1..(m + n) : z[i] = IF i <= m THEN s[i] ELSE u[i - m]
  BY <1>1
<1> HIDE DEF m, n, z
<1>6. \A i \in 1..m : w[i] = t[i] /\ w[i + 1] = t[i + 1]
  <2> TAKE i \in 1..m
  <2>1. CASE i < m
    BY <1>4, <2>1
  <2>2. CASE i = m
    <3>1. w[i + 1] = v[(i + 1) - m] /\ (i + 1) - m = 1 /\ t[i + 1] = b
      BY <1>2, <1>4, <2>2 DEF m
    <3> QED
      BY <1>3, <1>4, <2>2, <3>1
  <2> QED
    BY <1>4, <2>1, <2>2
<1>7. \A i \in 1..n : w[m + i] = v[i] /\ w[m + i + 1] = v[i + 1]
  BY <1>4
<1>8. w[1] = a
  <2>1. CASE m = 0
    BY <1>2, <1>3, <1>4, <2>1 DEF m
  <2>2. CASE m # 0
    BY <1>2, <1>4, <1>6, <2>2
  <2> QED
    BY <2>1, <2>2
<1>9. w[m + n + 1] = c
  BY <1>3, <1>4 DEF n
<1> HIDE DEF w
<1>10. \A i \in 1..(m + n) : <<w[i], z[i], w[i + 1]>> \in R
  <2> TAKE i \in 1..(m + n)
  <2>1. CASE i <= m
    <3>1. i \in 1..m /\ z[i] = s[i]
      BY <1>4, <1>5, <2>1
    <3> QED
      BY <1>2, <1>6, <3>1 DEF m
  <2>2. CASE i > m
    <3> DEFINE k == i - m
    <3>1. k \in 1..n /\ i = m + k /\ z[i] = u[k]
      BY <1>4, <1>5, <2>2
    <3> HIDE DEF k
    <3> QED
      BY <1>3, <1>7, <3>1 DEF n
  <2> QED
    BY <1>4, <2>1, <2>2
<1>11. Runs(R, z, a, c)
  BY <1>5, <1>8, <1>9, <1>10 DEF Runs
<1> QED
  BY <1>11 DEF z

LEMMA RunsEmpty == ASSUME NEW R, NEW a, NEW b, Runs(R, <<>>, a, b) PROVE a = b
<1>1. Len(<<>>) + 1 = 1
  OBVIOUS
<1> QED
  BY <1>1 DEF Runs

LEMMA RunsFirst ==
    ASSUME NEW R, NEW s, NEW a, NEW b, s # <<>>, Runs(R, s, a, b)
    PROVE  /\ s \in Seq(Steps) /\ Head(s) \in Steps /\ Tail(s) \in Seq(Steps)
           /\ \E c : <<a, Head(s), c>> \in R /\ Runs(R, Tail(s), c, b)
<1>1. s \in Seq(Steps)
  BY DEF Runs
<1>2. PICK t : t[1] = a /\ t[Len(s) + 1] = b /\ \A i \in 1..Len(s) : <<t[i], s[i], t[i + 1]>> \in R
  BY DEF Runs
<1> DEFINE n == Len(s)
           u == Tail(s)
           v == [i \in 1..n |-> t[i + 1]]
<1>3. /\ n \in Nat \ {0} /\ Head(s) = s[1] /\ Head(s) \in Steps
      /\ u \in Seq(Steps) /\ Len(u) = n - 1 /\ \A i \in 1..(n - 1) : u[i] = s[i + 1]
  BY <1>1
<1> HIDE DEF n, u
<1>4. v[1] = t[2] /\ v[Len(u) + 1] = b
  BY <1>2, <1>3 DEF n
<1>5. \A i \in 1..Len(u) : <<v[i], u[i], v[i + 1]>> \in R
  <2> TAKE i \in 1..Len(u)
  <2>1. v[i] = t[i + 1] /\ v[i + 1] = t[i + 1 + 1] /\ u[i] = s[i + 1] /\ i + 1 \in 1..n
    BY <1>3
  <2> QED
    BY <1>2, <2>1 DEF n
<1> HIDE DEF v
<1>6. Runs(R, u, t[2], b)
  BY <1>3, <1>4, <1>5 DEF Runs
<1>7. <<a, Head(s), t[2]>> \in R
  <2>1. 1 \in 1..Len(s) /\ 1 + 1 = 2
    BY <1>3 DEF n
  <2> QED
    BY <1>2, <1>3, <2>1
<1> QED
  BY <1>1, <1>3, <1>6, <1>7 DEF u

-----------------------------------------------------------------------------
(* The parallel programmer: who drives the data port, and whether the target *)
(* may still be busy.                                                        *)

PStates == [oeb : {0, 1}, out : {0, 1}, may : {0, 1}]

PStep(a, f, v, b) ==
    \/ f = "oeb"   /\ v \in {0, 1} /\ b = [a EXCEPT !.oeb = v]
    \/ f = "power" /\ b = [a EXCEPT !.oeb = 1]
    \/ f = "out"   /\ b = [a EXCEPT !.out = 1]
    \/ f \in {"in", "in high", "in first"} /\ b = [a EXCEPT !.out = 0]
    \/ f \in {"xa", "bs1", "execute", "switch"} /\ b = a
    \/ f = "xtal1" /\ a.out = 1 /\ a.oeb = 1 /\ a.may = 0 /\ b = a
    \/ f = "pagel" /\ a.may = 0 /\ b = a
    \/ f = "wrb"   /\ a.may = 0 /\ b = [a EXCEPT !.may = 1]
    \/ f = "wait"  /\ b = [a EXCEPT !.may = 0]

PRel == {r \in PStates \X Steps \X PStates : PStep(r[1], r[2][1], r[2][2], r[3])}

PAt(o, d, m) == [oeb |-> o, out |-> d, may |-> m]

LEMMA POne ==
    ASSUME NEW a \in PStates, NEW b \in PStates, NEW f \in Names, NEW v \in Nat, PStep(a, f, v, b)
    PROVE  Runs(PRel, <<<<f, v>>>>, a, b)
<1>1. <<f, v>> \in Steps /\ <<f, v>>[1] = f /\ <<f, v>>[2] = v
  BY DEF Steps
<1>2. <<a, <<f, v>>, b>> \in PRel
  BY <1>1 DEF PRel
<1> QED
  BY <1>1, <1>2, RunsOne

\* The steps one by one.
LEMMA PSingles ==
    ASSUME NEW o \in {0, 1}, NEW d \in {0, 1}, NEW m \in {0, 1}, NEW v \in Nat
    PROVE  /\ Runs(PRel, P!set_action(v), PAt(o, d, m), PAt(o, d, m))
           /\ Runs(PRel, P!set_byte_low, PAt(o, d, m), PAt(o, d, m))
           /\ Runs(PRel, P!set_byte_high, PAt(o, d, m), PAt(o, d, m))
           /\ Runs(PRel, P!reset_bs2, PAt(o, d, m), PAt(o, d, m))
           /\ Runs(PRel, P!set_bs2, PAt(o, d, m), PAt(o, d, m))
           /\ Runs(PRel, P!data_out(v), PAt(o, d, m), PAt(o, 1, m))
           /\ Runs(PRel, P!xtal1_pulse, PAt(1, 1, 0), PAt(1, 1, 0))
           /\ Runs(PRel, P!wrb_pulse, PAt(o, d, 0), PAt(o, d, 1))
           /\ Runs(PRel, P!pagel_pulse, PAt(o, d, 0), PAt(o, d, 0))
           /\ Runs(PRel, P!output_enable, PAt(o, d, m), PAt(0, d, m))
           /\ Runs(PRel, P!output_disable, PAt(o, d, m), PAt(1, d, m))
           /\ Runs(PRel, P!data_in, PAt(o, d, m), PAt(o, 0, m))
           /\ Runs(PRel, P!data_in_high, PAt(o, d, m), PAt(o, 0, m))
           /\ Runs(PRel, P!data_in_first, PAt(o, d, m), PAt(o, 0, m))
           /\ Runs(PRel, P!WaitBusy, PAt(o, d, m), PAt(o, d, 0))
           /\ Runs(PRel, <<<<"power", 0>>>>, PAt(o, d, m), PAt(1, d, m))
           /\ Runs(PRel, <<<<"switch", 0>>>>, PAt(o, d, m), PAt(o, d, m))
           /\ Runs(PRel, P!reset_parallel_programming, PAt(o, d, m), PAt(o, d, m))
<1>1. /\ PAt(o, d, m) \in PStates /\ PAt(o, 1, m) \in PStates /\ PAt(o, 0, m) \in PStates
      /\ PAt(o, d, 1) \in PStates /\ PAt(o, d, 0) \in PStates /\ PAt(0, d, m) \in PStates
      /\ PAt(1, d, m) \in PStates /\ PAt(1, 1, 0) \in PStates
  BY DEF PAt, PStates
<1>2. 0 \in Nat /\ 1 \in Nat /\ 256 \in Nat
  OBVIOUS
<1>3. Runs(PRel, <<<<"xa", v>>>>, PAt(o, d, m), PAt(o, d, m))
  <2>1. PStep(PAt(o, d, m), "xa", v, PAt(o, d, m))
    BY DEF PStep, PAt
  <2> QED
    BY <1>1, <1>2, <2>1, POne DEF Names
<1>4. Runs(PRel, <<<<"bs1", 0>>>>, PAt(o, d, m), PAt(o, d, m))
  <2>1. PStep(PAt(o, d, m), "bs1", 0, PAt(o, d, m))
    BY DEF PStep, PAt
  <2> QED
    BY <1>1, <1>2, <2>1, POne DEF Names
<1>5. Runs(PRel, <<<<"bs1", 1>>>>, PAt(o, d, m), PAt(o, d, m))
  <2>1. PStep(PAt(o, d, m), "bs1", 1, PAt(o, d, m))
    BY DEF PStep, PAt
  <2> QED
    BY <1>1, <1>2, <2>1, POne DEF Names
<1>6. Runs(PRel, <<<<"out", v>>>>, PAt(o, d, m), PAt(o, 1, m))
  <2>1. PStep(PAt(o, d, m), "out", v, PAt(o, 1, m))
    BY DEF PStep, PAt
  <2> QED
    BY <1>1, <1>2, <2>1, POne DEF Names
<1>7. Runs(PRel, <<<<"xtal1", 0>>>>, PAt(1, 1, 0), PAt(1, 1, 0))
  <2>1. PStep(PAt(1, 1, 0), "xtal1", 0, PAt(1, 1, 0))
    BY DEF PStep, PAt
  <2> QED
    BY <1>1, <1>2, <2>1, POne DEF Names
<1>8. Runs(PRel, <<<<"wrb", 0>>>>, PAt(o, d, 0), PAt(o, d, 1))
  <2>1. PStep(PAt(o, d, 0), "wrb", 0, PAt(o, d, 1))
    BY DEF PStep, PAt
  <2> QED
    BY <1>1, <1>2, <2>1, POne DEF Names
<1>9. Runs(PRel, <<<<"pagel", 0>>>>, PAt(o, d, 0), PAt(o, d, 0))
  <2>1. PStep(PAt(o, d, 0), "pagel", 0, PAt(o, d, 0))
    BY DEF PStep, PAt
  <2> QED
    BY <1>1, <1>2, <2>1, POne DEF Names
<1>10. Runs(PRel, <<<<"oeb", 0>>>>, PAt(o, d, m), PAt(0, d, m))
  <2>1. PStep(PAt(o, d, m), "oeb", 0, PAt(0, d, m))
    BY DEF PStep, PAt
  <2> QED
    BY <1>1, <1>2, <2>1, POne, ZenonT(60) DEF Names
<1>11. Runs(PRel, <<<<"oeb", 1>>>>, PAt(o, d, m), PAt(1, d, m))
  <2>1. PStep(PAt(o, d, m), "oeb", 1, PAt(1, d, m))
    BY DEF PStep, PAt
  <2> QED
    BY <1>1, <1>2, <2>1, POne DEF Names
<1>12. Runs(PRel, <<<<"in", 1>>>>, PAt(o, d, m), PAt(o, 0, m))
  <2>1. PStep(PAt(o, d, m), "in", 1, PAt(o, 0, m))
    BY DEF PStep, PAt
  <2> QED
    BY <1>1, <1>2, <2>1, POne, ZenonT(60) DEF Names
<1>13. Runs(PRel, <<<<"in high", 256>>>>, PAt(o, d, m), PAt(o, 0, m))
  <2> DEFINE k == 256
  <2>1. PStep(PAt(o, d, m), "in high", k, PAt(o, 0, m))
    BY DEF PStep, PAt
  <2>2. k \in Nat
    OBVIOUS
  <2> HIDE DEF k
  <2>3. Runs(PRel, <<<<"in high", k>>>>, PAt(o, d, m), PAt(o, 0, m))
    BY <1>1, <2>1, <2>2, POne DEF Names
  <2> QED
    BY <2>3 DEF k
<1>14. Runs(PRel, <<<<"in first", 0>>>>, PAt(o, d, m), PAt(o, 0, m))
  <2>1. PStep(PAt(o, d, m), "in first", 0, PAt(o, 0, m))
    BY DEF PStep, PAt
  <2> QED
    BY <1>1, <1>2, <2>1, POne DEF Names
<1>15. Runs(PRel, <<<<"wait", 0>>>>, PAt(o, d, m), PAt(o, d, 0))
  <2>1. PStep(PAt(o, d, m), "wait", 0, PAt(o, d, 0))
    BY DEF PStep, PAt
  <2> QED
    BY <1>1, <1>2, <2>1, POne DEF Names
<1>16. Runs(PRel, <<<<"power", 0>>>>, PAt(o, d, m), PAt(1, d, m))
  <2>1. PStep(PAt(o, d, m), "power", 0, PAt(1, d, m))
    BY DEF PStep, PAt
  <2> QED
    BY <1>1, <1>2, <2>1, POne DEF Names
<1>17. Runs(PRel, <<<<"switch", 0>>>>, PAt(o, d, m), PAt(o, d, m))
  <2>1. PStep(PAt(o, d, m), "switch", 0, PAt(o, d, m))
    BY DEF PStep, PAt
  <2> QED
    BY <1>1, <1>2, <2>1, POne DEF Names
<1>18. Runs(PRel, <<<<"execute", 1>>>>, PAt(o, d, m), PAt(o, d, m))
  <2>1. PStep(PAt(o, d, m), "execute", 1, PAt(o, d, m))
    BY DEF PStep, PAt
  <2> QED
    BY <1>1, <1>2, <2>1, POne, ZenonT(60) DEF Names
<1> QED
  BY <1>3, <1>4, <1>5, <1>6, <1>7, <1>8, <1>9, <1>10, <1>11, <1>12, <1>13, <1>14, <1>15, <1>16, <1>17, <1>18, ZenonT(60)
     DEF P!set_action, P!set_byte_low, P!set_byte_high, P!reset_bs2, P!set_bs2, P!data_out,
         P!xtal1_pulse, P!wrb_pulse, P!pagel_pulse, P!output_enable, P!output_disable, P!data_in,
         P!data_in_high, P!data_in_first, P!WaitBusy, P!reset_parallel_programming

LEMMA LowHigh ==
    ASSUME NEW w \in Nat
    PROVE  /\ Low(w) \in Nat /\ Low(w) < 256 /\ High(w) \in Nat
           /\ P!Low(w) = Low(w) /\ P!High(w) = High(w)
  BY DEF Low, High, P!Low, P!High

LEMMA PLoads ==
    ASSUME NEW d \in {0, 1}, NEW k \in Nat, NEW high \in {0, 1}, NEW v \in Nat
    PROVE  Runs(PRel, P!load_generic(k, high, v), PAt(1, d, 0), PAt(1, 1, 0))
<1> DEFINE h == IF high = 1 THEN P!set_byte_high ELSE P!set_byte_low
<1>1. 0 \in {0, 1} /\ 1 \in {0, 1}
  OBVIOUS
<1>2. Runs(PRel, P!set_action(k), PAt(1, d, 0), PAt(1, d, 0))
  BY <1>1, PSingles
<1>3. Runs(PRel, h, PAt(1, d, 0), PAt(1, d, 0))
  BY <1>1, PSingles
<1>4. Runs(PRel, P!data_out(v), PAt(1, d, 0), PAt(1, 1, 0))
  BY <1>1, PSingles
<1>5. Runs(PRel, P!xtal1_pulse, PAt(1, 1, 0), PAt(1, 1, 0))
  BY <1>1, PSingles
<1> HIDE DEF h
<1>6. Runs(PRel, P!set_action(k) \o h, PAt(1, d, 0), PAt(1, d, 0))
  BY <1>2, <1>3, RunsThen
<1>7. Runs(PRel, P!set_action(k) \o h \o P!data_out(v), PAt(1, d, 0), PAt(1, 1, 0))
  BY <1>4, <1>6, RunsThen
<1>8. Runs(PRel, P!set_action(k) \o h \o P!data_out(v) \o P!xtal1_pulse, PAt(1, d, 0), PAt(1, 1, 0))
  BY <1>5, <1>7, RunsThen
<1> QED
  BY <1>8 DEF h, P!load_generic

\* What each kind of load leaves.
LEMMA PLoaded ==
    ASSUME NEW d \in {0, 1}, NEW v \in Nat
    PROVE  /\ Runs(PRel, P!load_command(v), PAt(1, d, 0), PAt(1, 1, 0))
           /\ Runs(PRel, P!load_address_low_byte(v), PAt(1, d, 0), PAt(1, 1, 0))
           /\ Runs(PRel, P!load_address_high_byte(v), PAt(1, d, 0), PAt(1, 1, 0))
           /\ Runs(PRel, P!load_data_low_byte(v), PAt(1, d, 0), PAt(1, 1, 0))
           /\ Runs(PRel, P!load_data_high_byte(v), PAt(1, d, 0), PAt(1, 1, 0))
<1>1. 0 \in {0, 1} /\ 1 \in {0, 1} /\ 0 \in Nat /\ 1 \in Nat /\ 2 \in Nat
  OBVIOUS
<1> QED
  BY <1>1, PLoads DEF P!load_command, P!load_address_low_byte, P!load_address_high_byte,
                      P!load_data_low_byte, P!load_data_high_byte

LEMMA PLatchData ==
    ASSUME NEW d \in {0, 1}
    PROVE  Runs(PRel, P!latch_data, PAt(1, d, 0), PAt(1, d, 0))
<1>1. 0 \in {0, 1} /\ 1 \in {0, 1} /\ 0 \in Nat
  BY LowHigh
<1>2. Runs(PRel, P!set_byte_high, PAt(1, d, 0), PAt(1, d, 0))
  BY <1>1, PSingles
<1>3. Runs(PRel, P!pagel_pulse, PAt(1, d, 0), PAt(1, d, 0))
  BY <1>1, PSingles
<1>4. Runs(PRel, P!set_byte_high \o P!pagel_pulse, PAt(1, d, 0), PAt(1, d, 0))
  BY <1>2, <1>3, RunsThen
<1> QED
  BY <1>4 DEF P!latch_data

LEMMA PProgramPage ==
    ASSUME NEW d \in {0, 1}
    PROVE  Runs(PRel, P!program_page, PAt(1, d, 0), PAt(1, d, 0))
<1>1. 0 \in {0, 1} /\ 1 \in {0, 1} /\ 0 \in Nat
  BY LowHigh
<1>2. Runs(PRel, P!set_byte_low, PAt(1, d, 0), PAt(1, d, 0))
  BY <1>1, PSingles
<1>3. Runs(PRel, P!wrb_pulse, PAt(1, d, 0), PAt(1, d, 1))
  BY <1>1, PSingles
<1>4. Runs(PRel, P!WaitBusy, PAt(1, d, 1), PAt(1, d, 0))
  BY <1>1, PSingles
<1>5. Runs(PRel, P!set_byte_low \o P!wrb_pulse, PAt(1, d, 0), PAt(1, d, 1))
  BY <1>2, <1>3, RunsThen
<1>6. Runs(PRel, P!set_byte_low \o P!wrb_pulse \o P!WaitBusy, PAt(1, d, 0), PAt(1, d, 0))
  BY <1>5, <1>4, RunsThen
<1> QED
  BY <1>6 DEF P!program_page

LEMMA PErase ==
    ASSUME NEW d \in {0, 1}
    PROVE  Runs(PRel, P!erase_chip, PAt(1, d, 0), PAt(1, 1, 0))
<1>1. 0 \in {0, 1} /\ 1 \in {0, 1} /\ 128 \in Nat
  BY LowHigh
<1>2. Runs(PRel, P!load_command(128), PAt(1, d, 0), PAt(1, 1, 0))
  BY <1>1, PLoaded
<1>3. Runs(PRel, P!wrb_pulse, PAt(1, 1, 0), PAt(1, 1, 1))
  BY <1>1, PSingles
<1>4. Runs(PRel, P!WaitBusy, PAt(1, 1, 1), PAt(1, 1, 0))
  BY <1>1, PSingles
<1>5. Runs(PRel, P!load_command(128) \o P!wrb_pulse, PAt(1, d, 0), PAt(1, 1, 1))
  BY <1>2, <1>3, RunsThen
<1>6. Runs(PRel, P!load_command(128) \o P!wrb_pulse \o P!WaitBusy, PAt(1, d, 0), PAt(1, 1, 0))
  BY <1>5, <1>4, RunsThen
<1> QED
  BY <1>6 DEF P!erase_chip

LEMMA PWriteFuse ==
    ASSUME NEW d \in {0, 1}, NEW e \in Nat, NEW w \in Nat
    PROVE  Runs(PRel, P!write_fuse(e, w), PAt(1, d, 0), PAt(1, 1, 0))
<1>1. 0 \in {0, 1} /\ 1 \in {0, 1} /\ 64 \in Nat /\ P!Low(w) \in Nat /\ P!High(w) \in Nat
  BY LowHigh
<1>2. Runs(PRel, P!load_command(64), PAt(1, d, 0), PAt(1, 1, 0))
  BY <1>1, PLoaded
<1>3. Runs(PRel, P!load_data_low_byte(P!Low(w)), PAt(1, 1, 0), PAt(1, 1, 0))
  BY <1>1, PLoaded
<1>4. Runs(PRel, P!set_byte_low, PAt(1, 1, 0), PAt(1, 1, 0))
  BY <1>1, PSingles
<1>5. Runs(PRel, P!reset_bs2, PAt(1, 1, 0), PAt(1, 1, 0))
  BY <1>1, PSingles
<1>6. Runs(PRel, P!wrb_pulse, PAt(1, 1, 0), PAt(1, 1, 1))
  BY <1>1, PSingles
<1>7. Runs(PRel, P!WaitBusy, PAt(1, 1, 1), PAt(1, 1, 0))
  BY <1>1, PSingles
<1>8. Runs(PRel, P!load_data_low_byte(P!High(w)), PAt(1, 1, 0), PAt(1, 1, 0))
  BY <1>1, PLoaded
<1>9. Runs(PRel, P!set_byte_high, PAt(1, 1, 0), PAt(1, 1, 0))
  BY <1>1, PSingles
<1>10. Runs(PRel, P!reset_bs2, PAt(1, 1, 0), PAt(1, 1, 0))
  BY <1>1, PSingles
<1>11. Runs(PRel, P!wrb_pulse, PAt(1, 1, 0), PAt(1, 1, 1))
  BY <1>1, PSingles
<1>12. Runs(PRel, P!WaitBusy, PAt(1, 1, 1), PAt(1, 1, 0))
  BY <1>1, PSingles
<1>13. Runs(PRel, P!set_byte_low, PAt(1, 1, 0), PAt(1, 1, 0))
  BY <1>1, PSingles
<1>14. Runs(PRel, P!load_data_low_byte(e), PAt(1, 1, 0), PAt(1, 1, 0))
  BY <1>1, PLoaded
<1>15. Runs(PRel, P!set_byte_low, PAt(1, 1, 0), PAt(1, 1, 0))
  BY <1>1, PSingles
<1>16. Runs(PRel, P!set_bs2, PAt(1, 1, 0), PAt(1, 1, 0))
  BY <1>1, PSingles
<1>17. Runs(PRel, P!wrb_pulse, PAt(1, 1, 0), PAt(1, 1, 1))
  BY <1>1, PSingles
<1>18. Runs(PRel, P!WaitBusy, PAt(1, 1, 1), PAt(1, 1, 0))
  BY <1>1, PSingles
<1>19. Runs(PRel, P!reset_bs2, PAt(1, 1, 0), PAt(1, 1, 0))
  BY <1>1, PSingles
<1>20. Runs(PRel, P!load_command(64) \o P!load_data_low_byte(P!Low(w)), PAt(1, d, 0), PAt(1, 1, 0))
  BY <1>2, <1>3, RunsThen
<1>21. Runs(PRel, P!load_command(64) \o P!load_data_low_byte(P!Low(w))
          \o P!set_byte_low, PAt(1, d, 0), PAt(1, 1, 0))
  BY <1>20, <1>4, RunsThen
<1>22. Runs(PRel, P!load_command(64) \o P!load_data_low_byte(P!Low(w))
          \o P!set_byte_low \o P!reset_bs2, PAt(1, d, 0), PAt(1, 1, 0))
  BY <1>21, <1>5, RunsThen
<1>23. Runs(PRel, P!load_command(64) \o P!load_data_low_byte(P!Low(w))
          \o P!set_byte_low \o P!reset_bs2 \o P!wrb_pulse, PAt(1, d, 0), PAt(1, 1, 1))
  BY <1>22, <1>6, RunsThen
<1>24. Runs(PRel, P!load_command(64) \o P!load_data_low_byte(P!Low(w))
          \o P!set_byte_low \o P!reset_bs2 \o P!wrb_pulse \o P!WaitBusy, PAt(1, d, 0), PAt(1, 1, 0))
  BY <1>23, <1>7, RunsThen
<1>25. Runs(PRel, P!load_command(64) \o P!load_data_low_byte(P!Low(w))
          \o P!set_byte_low \o P!reset_bs2 \o P!wrb_pulse \o P!WaitBusy
          \o P!load_data_low_byte(P!High(w)), PAt(1, d, 0), PAt(1, 1, 0))
  BY <1>24, <1>8, RunsThen
<1>26. Runs(PRel, P!load_command(64) \o P!load_data_low_byte(P!Low(w))
          \o P!set_byte_low \o P!reset_bs2 \o P!wrb_pulse \o P!WaitBusy
          \o P!load_data_low_byte(P!High(w)) \o P!set_byte_high, PAt(1, d, 0), PAt(1, 1, 0))
  BY <1>25, <1>9, RunsThen
<1>27. Runs(PRel, P!load_command(64) \o P!load_data_low_byte(P!Low(w))
          \o P!set_byte_low \o P!reset_bs2 \o P!wrb_pulse \o P!WaitBusy
          \o P!load_data_low_byte(P!High(w)) \o P!set_byte_high \o P!reset_bs2, PAt(1, d, 0), PAt(1, 1, 0))
  BY <1>26, <1>10, RunsThen
<1>28. Runs(PRel, P!load_command(64) \o P!load_data_low_byte(P!Low(w))
          \o P!set_byte_low \o P!reset_bs2 \o P!wrb_pulse \o P!WaitBusy
          \o P!load_data_low_byte(P!High(w)) \o P!set_byte_high \o P!reset_bs2
          \o P!wrb_pulse, PAt(1, d, 0), PAt(1, 1, 1))
  BY <1>27, <1>11, RunsThen
<1>29. Runs(PRel, P!load_command(64) \o P!load_data_low_byte(P!Low(w))
          \o P!set_byte_low \o P!reset_bs2 \o P!wrb_pulse \o P!WaitBusy
          \o P!load_data_low_byte(P!High(w)) \o P!set_byte_high \o P!reset_bs2
          \o P!wrb_pulse \o P!WaitBusy, PAt(1, d, 0), PAt(1, 1, 0))
  BY <1>28, <1>12, RunsThen
<1>30. Runs(PRel, P!load_command(64) \o P!load_data_low_byte(P!Low(w))
          \o P!set_byte_low \o P!reset_bs2 \o P!wrb_pulse \o P!WaitBusy
          \o P!load_data_low_byte(P!High(w)) \o P!set_byte_high \o P!reset_bs2
          \o P!wrb_pulse \o P!WaitBusy \o P!set_byte_low, PAt(1, d, 0), PAt(1, 1, 0))
  BY <1>29, <1>13, RunsThen
<1>31. Runs(PRel, P!load_command(64) \o P!load_data_low_byte(P!Low(w))
          \o P!set_byte_low \o P!reset_bs2 \o P!wrb_pulse \o P!WaitBusy
          \o P!load_data_low_byte(P!High(w)) \o P!set_byte_high \o P!reset_bs2
          \o P!wrb_pulse \o P!WaitBusy \o P!set_byte_low \o P!load_data_low_byte(e), PAt(1, d, 0), PAt(1, 1, 0))
  BY <1>30, <1>14, RunsThen
<1>32. Runs(PRel, P!load_command(64) \o P!load_data_low_byte(P!Low(w))
          \o P!set_byte_low \o P!reset_bs2 \o P!wrb_pulse \o P!WaitBusy
          \o P!load_data_low_byte(P!High(w)) \o P!set_byte_high \o P!reset_bs2
          \o P!wrb_pulse \o P!WaitBusy \o P!set_byte_low \o P!load_data_low_byte(e)
          \o P!set_byte_low, PAt(1, d, 0), PAt(1, 1, 0))
  BY <1>31, <1>15, RunsThen
<1>33. Runs(PRel, P!load_command(64) \o P!load_data_low_byte(P!Low(w))
          \o P!set_byte_low \o P!reset_bs2 \o P!wrb_pulse \o P!WaitBusy
          \o P!load_data_low_byte(P!High(w)) \o P!set_byte_high \o P!reset_bs2
          \o P!wrb_pulse \o P!WaitBusy \o P!set_byte_low \o P!load_data_low_byte(e)
          \o P!set_byte_low \o P!set_bs2, PAt(1, d, 0), PAt(1, 1, 0))
  BY <1>32, <1>16, RunsThen
<1>34. Runs(PRel, P!load_command(64) \o P!load_data_low_byte(P!Low(w))
          \o P!set_byte_low \o P!reset_bs2 \o P!wrb_pulse \o P!WaitBusy
          \o P!load_data_low_byte(P!High(w)) \o P!set_byte_high \o P!reset_bs2
          \o P!wrb_pulse \o P!WaitBusy \o P!set_byte_low \o P!load_data_low_byte(e)
          \o P!set_byte_low \o P!set_bs2 \o P!wrb_pulse, PAt(1, d, 0), PAt(1, 1, 1))
  BY <1>33, <1>17, RunsThen
<1>35. Runs(PRel, P!load_command(64) \o P!load_data_low_byte(P!Low(w))
          \o P!set_byte_low \o P!reset_bs2 \o P!wrb_pulse \o P!WaitBusy
          \o P!load_data_low_byte(P!High(w)) \o P!set_byte_high \o P!reset_bs2
          \o P!wrb_pulse \o P!WaitBusy \o P!set_byte_low \o P!load_data_low_byte(e)
          \o P!set_byte_low \o P!set_bs2 \o P!wrb_pulse \o P!WaitBusy, PAt(1, d, 0), PAt(1, 1, 0))
  BY <1>34, <1>18, RunsThen
<1>36. Runs(PRel, P!load_command(64) \o P!load_data_low_byte(P!Low(w))
          \o P!set_byte_low \o P!reset_bs2 \o P!wrb_pulse \o P!WaitBusy
          \o P!load_data_low_byte(P!High(w)) \o P!set_byte_high \o P!reset_bs2
          \o P!wrb_pulse \o P!WaitBusy \o P!set_byte_low \o P!load_data_low_byte(e)
          \o P!set_byte_low \o P!set_bs2 \o P!wrb_pulse \o P!WaitBusy \o P!reset_bs2, PAt(1, d, 0), PAt(1, 1, 0))
  BY <1>35, <1>19, RunsThen
<1> QED
  BY <1>36 DEF P!write_fuse

LEMMA PWriteLock ==
    ASSUME NEW d \in {0, 1}, NEW v \in Nat
    PROVE  Runs(PRel, P!write_lock(v), PAt(1, d, 0), PAt(1, 1, 0))
<1>1. 0 \in {0, 1} /\ 1 \in {0, 1} /\ 32 \in Nat
  BY LowHigh
<1>2. Runs(PRel, P!load_command(32), PAt(1, d, 0), PAt(1, 1, 0))
  BY <1>1, PLoaded
<1>3. Runs(PRel, P!load_data_low_byte(v), PAt(1, 1, 0), PAt(1, 1, 0))
  BY <1>1, PLoaded
<1>4. Runs(PRel, P!set_byte_low, PAt(1, 1, 0), PAt(1, 1, 0))
  BY <1>1, PSingles
<1>5. Runs(PRel, P!reset_bs2, PAt(1, 1, 0), PAt(1, 1, 0))
  BY <1>1, PSingles
<1>6. Runs(PRel, P!wrb_pulse, PAt(1, 1, 0), PAt(1, 1, 1))
  BY <1>1, PSingles
<1>7. Runs(PRel, P!WaitBusy, PAt(1, 1, 1), PAt(1, 1, 0))
  BY <1>1, PSingles
<1>8. Runs(PRel, P!load_command(32) \o P!load_data_low_byte(v), PAt(1, d, 0), PAt(1, 1, 0))
  BY <1>2, <1>3, RunsThen
<1>9. Runs(PRel, P!load_command(32) \o P!load_data_low_byte(v) \o P!set_byte_low, PAt(1, d, 0), PAt(1, 1, 0))
  BY <1>8, <1>4, RunsThen
<1>10. Runs(PRel, P!load_command(32) \o P!load_data_low_byte(v) \o P!set_byte_low
          \o P!reset_bs2, PAt(1, d, 0), PAt(1, 1, 0))
  BY <1>9, <1>5, RunsThen
<1>11. Runs(PRel, P!load_command(32) \o P!load_data_low_byte(v) \o P!set_byte_low
          \o P!reset_bs2 \o P!wrb_pulse, PAt(1, d, 0), PAt(1, 1, 1))
  BY <1>10, <1>6, RunsThen
<1>12. Runs(PRel, P!load_command(32) \o P!load_data_low_byte(v) \o P!set_byte_low
          \o P!reset_bs2 \o P!wrb_pulse \o P!WaitBusy, PAt(1, d, 0), PAt(1, 1, 0))
  BY <1>11, <1>7, RunsThen
<1> QED
  BY <1>12 DEF P!write_lock

LEMMA TwoSteps == ASSUME NEW x \in Steps, NEW y \in Steps PROVE <<x>> \o <<y>> = <<x, y>>
<1> DEFINE s == <<x>> \o <<y>>
           u == <<x, y>>
<1>1. s \in Seq(Steps) /\ Len(s) = 2 /\ s[1] = x /\ s[2] = y
  OBVIOUS
<1>2. u \in Seq(Steps) /\ Len(u) = 2 /\ u[1] = x /\ u[2] = y
  OBVIOUS
<1> HIDE DEF s, u
<1>3. s = u
  BY <1>1, <1>2
<1> QED
  BY <1>3 DEF s, u

LEMMA PSetup ==
    ASSUME NEW o \in {0, 1}, NEW d \in {0, 1}
    PROVE  Runs(PRel, P!setup_parallel_programming, PAt(o, d, 0), PAt(1, 1, 0))
<1>1. 0 \in {0, 1} /\ 1 \in {0, 1} /\ 0 \in Nat /\ 39392 \in Nat
  BY LowHigh
<1>2. Runs(PRel, <<<<"power", 0>>>>, PAt(o, d, 0), PAt(1, d, 0))
  BY <1>1, PSingles
<1>3. Runs(PRel, <<<<"switch", 0>>>>, PAt(1, d, 0), PAt(1, d, 0))
  BY <1>1, PSingles
<1>4. Runs(PRel, P!erase_chip, PAt(1, d, 0), PAt(1, 1, 0))
  BY <1>1, PErase
<1>5. Runs(PRel, P!write_fuse(0, 39392), PAt(1, 1, 0), PAt(1, 1, 0))
  BY <1>1, PWriteFuse
<1>6. Runs(PRel, <<<<"power", 0>>>> \o <<<<"switch", 0>>>>, PAt(o, d, 0), PAt(1, d, 0))
  BY <1>2, <1>3, RunsThen
<1>7. <<<<"power", 0>>>> \o <<<<"switch", 0>>>> = <<<<"power", 0>>, <<"switch", 0>>>>
  <2>1. <<"power", 0>> \in Steps /\ <<"switch", 0>> \in Steps
    BY DEF Steps, Names
  <2> QED
    BY <2>1, TwoSteps
<1> DEFINE u == <<<<"power", 0>>, <<"switch", 0>>>>
<1>8. Runs(PRel, u, PAt(o, d, 0), PAt(1, d, 0))
  BY <1>6, <1>7
<1> HIDE DEF u
<1>9. Runs(PRel, u \o P!erase_chip, PAt(o, d, 0), PAt(1, 1, 0))
  BY <1>4, <1>8, RunsThen
<1>10. Runs(PRel, u \o P!erase_chip \o P!write_fuse(0, 39392), PAt(o, d, 0), PAt(1, 1, 0))
  BY <1>5, <1>9, RunsThen
<1>11. P!setup_parallel_programming = u \o P!erase_chip \o P!write_fuse(0, 39392)
  BY SMT DEF u, P!setup_parallel_programming
<1> QED
  BY <1>10, <1>11

LEMMA PSigByte ==
    ASSUME NEW d \in {0, 1}, NEW v \in Nat
    PROVE  Runs(PRel, P!SigByte(v), PAt(1, d, 0), PAt(1, 0, 0))
<1>1. 0 \in {0, 1} /\ 1 \in {0, 1} /\ 0 \in Nat
  BY LowHigh
<1>2. Runs(PRel, P!load_address_low_byte(v), PAt(1, d, 0), PAt(1, 1, 0))
  BY <1>1, PLoaded
<1>3. Runs(PRel, P!output_enable, PAt(1, 1, 0), PAt(0, 1, 0))
  BY <1>1, PSingles
<1>4. Runs(PRel, P!set_byte_low, PAt(0, 1, 0), PAt(0, 1, 0))
  BY <1>1, PSingles
<1>5. Runs(PRel, P!data_in, PAt(0, 1, 0), PAt(0, 0, 0))
  BY <1>1, PSingles
<1>6. Runs(PRel, P!output_disable, PAt(0, 0, 0), PAt(1, 0, 0))
  BY <1>1, PSingles
<1>7. Runs(PRel, P!load_address_low_byte(v) \o P!output_enable, PAt(1, d, 0), PAt(0, 1, 0))
  BY <1>2, <1>3, RunsThen
<1>8. Runs(PRel, P!load_address_low_byte(v) \o P!output_enable \o P!set_byte_low, PAt(1, d, 0), PAt(0, 1, 0))
  BY <1>7, <1>4, RunsThen
<1>9. Runs(PRel, P!load_address_low_byte(v) \o P!output_enable \o P!set_byte_low
          \o P!data_in, PAt(1, d, 0), PAt(0, 0, 0))
  BY <1>8, <1>5, RunsThen
<1>10. Runs(PRel, P!load_address_low_byte(v) \o P!output_enable \o P!set_byte_low
          \o P!data_in \o P!output_disable, PAt(1, d, 0), PAt(1, 0, 0))
  BY <1>9, <1>6, RunsThen
<1> QED
  BY <1>10 DEF P!SigByte

LEMMA PReadSign ==
    ASSUME NEW d \in {0, 1}
    PROVE  Runs(PRel, P!read_sign, PAt(1, d, 0), PAt(1, 0, 0))
<1>1. 0 \in {0, 1} /\ 1 \in {0, 1} /\ 0 \in Nat /\ 1 \in Nat /\ 2 \in Nat /\ 8 \in Nat
  BY LowHigh
<1>2. Runs(PRel, P!load_command(8), PAt(1, d, 0), PAt(1, 1, 0))
  BY <1>1, PLoaded
<1>3. Runs(PRel, P!SigByte(0), PAt(1, 1, 0), PAt(1, 0, 0))
  BY <1>1, PSigByte
<1>4. Runs(PRel, P!SigByte(1), PAt(1, 0, 0), PAt(1, 0, 0))
  BY <1>1, PSigByte
<1>5. Runs(PRel, P!SigByte(2), PAt(1, 0, 0), PAt(1, 0, 0))
  BY <1>1, PSigByte
<1>6. Runs(PRel, P!load_command(8) \o P!SigByte(0), PAt(1, d, 0), PAt(1, 0, 0))
  BY <1>2, <1>3, RunsThen
<1>7. Runs(PRel, P!load_command(8) \o P!SigByte(0) \o P!SigByte(1), PAt(1, d, 0), PAt(1, 0, 0))
  BY <1>6, <1>4, RunsThen
<1>8. Runs(PRel, P!load_command(8) \o P!SigByte(0) \o P!SigByte(1) \o P!SigByte(2), PAt(1, d, 0), PAt(1, 0, 0))
  BY <1>7, <1>5, RunsThen
<1> QED
  BY <1>8 DEF P!read_sign

LEMMA PReadCali ==
    ASSUME NEW d \in {0, 1}
    PROVE  Runs(PRel, P!read_cali, PAt(1, d, 0), PAt(1, 0, 0))
<1>1. 0 \in {0, 1} /\ 1 \in {0, 1} /\ 0 \in Nat /\ 8 \in Nat
  BY LowHigh
<1>2. Runs(PRel, P!load_command(8), PAt(1, d, 0), PAt(1, 1, 0))
  BY <1>1, PLoaded
<1>3. Runs(PRel, P!load_address_low_byte(0), PAt(1, 1, 0), PAt(1, 1, 0))
  BY <1>1, PLoaded
<1>4. Runs(PRel, P!output_enable, PAt(1, 1, 0), PAt(0, 1, 0))
  BY <1>1, PSingles
<1>5. Runs(PRel, P!set_byte_high, PAt(0, 1, 0), PAt(0, 1, 0))
  BY <1>1, PSingles
<1>6. Runs(PRel, P!data_in, PAt(0, 1, 0), PAt(0, 0, 0))
  BY <1>1, PSingles
<1>7. Runs(PRel, P!output_disable, PAt(0, 0, 0), PAt(1, 0, 0))
  BY <1>1, PSingles
<1>8. Runs(PRel, P!load_command(8) \o P!load_address_low_byte(0), PAt(1, d, 0), PAt(1, 1, 0))
  BY <1>2, <1>3, RunsThen
<1>9. Runs(PRel, P!load_command(8) \o P!load_address_low_byte(0) \o P!output_enable, PAt(1, d, 0), PAt(0, 1, 0))
  BY <1>8, <1>4, RunsThen
<1>10. Runs(PRel, P!load_command(8) \o P!load_address_low_byte(0) \o P!output_enable
          \o P!set_byte_high, PAt(1, d, 0), PAt(0, 1, 0))
  BY <1>9, <1>5, RunsThen
<1>11. Runs(PRel, P!load_command(8) \o P!load_address_low_byte(0) \o P!output_enable
          \o P!set_byte_high \o P!data_in, PAt(1, d, 0), PAt(0, 0, 0))
  BY <1>10, <1>6, RunsThen
<1>12. Runs(PRel, P!load_command(8) \o P!load_address_low_byte(0) \o P!output_enable
          \o P!set_byte_high \o P!data_in \o P!output_disable, PAt(1, d, 0), PAt(1, 0, 0))
  BY <1>11, <1>7, RunsThen
<1> QED
  BY <1>12 DEF P!read_cali

LEMMA PReadLock ==
    ASSUME NEW d \in {0, 1}
    PROVE  Runs(PRel, P!read_lock, PAt(1, d, 0), PAt(1, 0, 0))
<1>1. 0 \in {0, 1} /\ 1 \in {0, 1} /\ 4 \in Nat
  BY LowHigh
<1>2. Runs(PRel, P!load_command(4), PAt(1, d, 0), PAt(1, 1, 0))
  BY <1>1, PLoaded
<1>3. Runs(PRel, P!output_enable, PAt(1, 1, 0), PAt(0, 1, 0))
  BY <1>1, PSingles
<1>4. Runs(PRel, P!reset_bs2, PAt(0, 1, 0), PAt(0, 1, 0))
  BY <1>1, PSingles
<1>5. Runs(PRel, P!set_byte_high, PAt(0, 1, 0), PAt(0, 1, 0))
  BY <1>1, PSingles
<1>6. Runs(PRel, P!data_in, PAt(0, 1, 0), PAt(0, 0, 0))
  BY <1>1, PSingles
<1>7. Runs(PRel, P!output_disable, PAt(0, 0, 0), PAt(1, 0, 0))
  BY <1>1, PSingles
<1>8. Runs(PRel, P!load_command(4) \o P!output_enable, PAt(1, d, 0), PAt(0, 1, 0))
  BY <1>2, <1>3, RunsThen
<1>9. Runs(PRel, P!load_command(4) \o P!output_enable \o P!reset_bs2, PAt(1, d, 0), PAt(0, 1, 0))
  BY <1>8, <1>4, RunsThen
<1>10. Runs(PRel, P!load_command(4) \o P!output_enable \o P!reset_bs2
          \o P!set_byte_high, PAt(1, d, 0), PAt(0, 1, 0))
  BY <1>9, <1>5, RunsThen
<1>11. Runs(PRel, P!load_command(4) \o P!output_enable \o P!reset_bs2
          \o P!set_byte_high \o P!data_in, PAt(1, d, 0), PAt(0, 0, 0))
  BY <1>10, <1>6, RunsThen
<1>12. Runs(PRel, P!load_command(4) \o P!output_enable \o P!reset_bs2
          \o P!set_byte_high \o P!data_in \o P!output_disable, PAt(1, d, 0), PAt(1, 0, 0))
  BY <1>11, <1>7, RunsThen
<1> QED
  BY <1>12 DEF P!read_lock

LEMMA PReadFuse ==
    ASSUME NEW d \in {0, 1}
    PROVE  Runs(PRel, P!read_fuse, PAt(1, d, 0), PAt(1, 0, 0))
<1>1. 0 \in {0, 1} /\ 1 \in {0, 1} /\ 4 \in Nat
  BY LowHigh
<1>2. Runs(PRel, P!load_command(4), PAt(1, d, 0), PAt(1, 1, 0))
  BY <1>1, PLoaded
<1>3. Runs(PRel, P!output_enable, PAt(1, 1, 0), PAt(0, 1, 0))
  BY <1>1, PSingles
<1>4. Runs(PRel, P!reset_bs2, PAt(0, 1, 0), PAt(0, 1, 0))
  BY <1>1, PSingles
<1>5. Runs(PRel, P!set_byte_low, PAt(0, 1, 0), PAt(0, 1, 0))
  BY <1>1, PSingles
<1>6. Runs(PRel, P!data_in_first, PAt(0, 1, 0), PAt(0, 0, 0))
  BY <1>1, PSingles
<1>7. Runs(PRel, P!set_bs2, PAt(0, 0, 0), PAt(0, 0, 0))
  BY <1>1, PSingles
<1>8. Runs(PRel, P!set_byte_high, PAt(0, 0, 0), PAt(0, 0, 0))
  BY <1>1, PSingles
<1>9. Runs(PRel, P!data_in_first, PAt(0, 0, 0), PAt(0, 0, 0))
  BY <1>1, PSingles
<1>10. Runs(PRel, P!set_bs2, PAt(0, 0, 0), PAt(0, 0, 0))
  BY <1>1, PSingles
<1>11. Runs(PRel, P!set_byte_low, PAt(0, 0, 0), PAt(0, 0, 0))
  BY <1>1, PSingles
<1>12. Runs(PRel, P!data_in_first, PAt(0, 0, 0), PAt(0, 0, 0))
  BY <1>1, PSingles
<1>13. Runs(PRel, P!output_disable, PAt(0, 0, 0), PAt(1, 0, 0))
  BY <1>1, PSingles
<1>14. Runs(PRel, P!load_command(4) \o P!output_enable, PAt(1, d, 0), PAt(0, 1, 0))
  BY <1>2, <1>3, RunsThen
<1>15. Runs(PRel, P!load_command(4) \o P!output_enable \o P!reset_bs2, PAt(1, d, 0), PAt(0, 1, 0))
  BY <1>14, <1>4, RunsThen
<1>16. Runs(PRel, P!load_command(4) \o P!output_enable \o P!reset_bs2
          \o P!set_byte_low, PAt(1, d, 0), PAt(0, 1, 0))
  BY <1>15, <1>5, RunsThen
<1>17. Runs(PRel, P!load_command(4) \o P!output_enable \o P!reset_bs2
          \o P!set_byte_low \o P!data_in_first, PAt(1, d, 0), PAt(0, 0, 0))
  BY <1>16, <1>6, RunsThen
<1>18. Runs(PRel, P!load_command(4) \o P!output_enable \o P!reset_bs2
          \o P!set_byte_low \o P!data_in_first \o P!set_bs2, PAt(1, d, 0), PAt(0, 0, 0))
  BY <1>17, <1>7, RunsThen
<1>19. Runs(PRel, P!load_command(4) \o P!output_enable \o P!reset_bs2
          \o P!set_byte_low \o P!data_in_first \o P!set_bs2 \o P!set_byte_high, PAt(1, d, 0), PAt(0, 0, 0))
  BY <1>18, <1>8, RunsThen
<1>20. Runs(PRel, P!load_command(4) \o P!output_enable \o P!reset_bs2
          \o P!set_byte_low \o P!data_in_first \o P!set_bs2 \o P!set_byte_high
          \o P!data_in_first, PAt(1, d, 0), PAt(0, 0, 0))
  BY <1>19, <1>9, RunsThen
<1>21. Runs(PRel, P!load_command(4) \o P!output_enable \o P!reset_bs2
          \o P!set_byte_low \o P!data_in_first \o P!set_bs2 \o P!set_byte_high
          \o P!data_in_first \o P!set_bs2, PAt(1, d, 0), PAt(0, 0, 0))
  BY <1>20, <1>10, RunsThen
<1>22. Runs(PRel, P!load_command(4) \o P!output_enable \o P!reset_bs2
          \o P!set_byte_low \o P!data_in_first \o P!set_bs2 \o P!set_byte_high
          \o P!data_in_first \o P!set_bs2 \o P!set_byte_low, PAt(1, d, 0), PAt(0, 0, 0))
  BY <1>21, <1>11, RunsThen
<1>23. Runs(PRel, P!load_command(4) \o P!output_enable \o P!reset_bs2
          \o P!set_byte_low \o P!data_in_first \o P!set_bs2 \o P!set_byte_high
          \o P!data_in_first \o P!set_bs2 \o P!set_byte_low \o P!data_in_first, PAt(1, d, 0), PAt(0, 0, 0))
  BY <1>22, <1>12, RunsThen
<1>24. Runs(PRel, P!load_command(4) \o P!output_enable \o P!reset_bs2
          \o P!set_byte_low \o P!data_in_first \o P!set_bs2 \o P!set_byte_high
          \o P!data_in_first \o P!set_bs2 \o P!set_byte_low \o P!data_in_first
          \o P!output_disable, PAt(1, d, 0), PAt(1, 0, 0))
  BY <1>23, <1>13, RunsThen
<1> QED
  BY <1>24 DEF P!read_fuse

LEMMA PReadEeprom ==
    ASSUME NEW d \in {0, 1}, NEW n \in Nat
    PROVE  Runs(PRel, P!read_eeprom(n), PAt(1, d, 0), PAt(1, 0, 0))
<1>1. 0 \in {0, 1} /\ 1 \in {0, 1} /\ 3 \in Nat /\ P!Low(n) \in Nat /\ P!High(n) \in Nat
  BY LowHigh
<1>2. Runs(PRel, P!load_command(3), PAt(1, d, 0), PAt(1, 1, 0))
  BY <1>1, PLoaded
<1>3. Runs(PRel, P!load_address_high_byte(P!High(n)), PAt(1, 1, 0), PAt(1, 1, 0))
  BY <1>1, PLoaded
<1>4. Runs(PRel, P!load_address_low_byte(P!Low(n)), PAt(1, 1, 0), PAt(1, 1, 0))
  BY <1>1, PLoaded
<1>5. Runs(PRel, P!output_enable, PAt(1, 1, 0), PAt(0, 1, 0))
  BY <1>1, PSingles
<1>6. Runs(PRel, P!set_byte_low, PAt(0, 1, 0), PAt(0, 1, 0))
  BY <1>1, PSingles
<1>7. Runs(PRel, P!data_in, PAt(0, 1, 0), PAt(0, 0, 0))
  BY <1>1, PSingles
<1>8. Runs(PRel, P!output_disable, PAt(0, 0, 0), PAt(1, 0, 0))
  BY <1>1, PSingles
<1>9. Runs(PRel, P!load_command(3) \o P!load_address_high_byte(P!High(n)), PAt(1, d, 0), PAt(1, 1, 0))
  BY <1>2, <1>3, RunsThen
<1>10. Runs(PRel, P!load_command(3) \o P!load_address_high_byte(P!High(n))
          \o P!load_address_low_byte(P!Low(n)), PAt(1, d, 0), PAt(1, 1, 0))
  BY <1>9, <1>4, RunsThen
<1>11. Runs(PRel, P!load_command(3) \o P!load_address_high_byte(P!High(n))
          \o P!load_address_low_byte(P!Low(n)) \o P!output_enable, PAt(1, d, 0), PAt(0, 1, 0))
  BY <1>10, <1>5, RunsThen
<1>12. Runs(PRel, P!load_command(3) \o P!load_address_high_byte(P!High(n))
          \o P!load_address_low_byte(P!Low(n)) \o P!output_enable \o P!set_byte_low, PAt(1, d, 0), PAt(0, 1, 0))
  BY <1>11, <1>6, RunsThen
<1>13. Runs(PRel, P!load_command(3) \o P!load_address_high_byte(P!High(n))
          \o P!load_address_low_byte(P!Low(n)) \o P!output_enable \o P!set_byte_low
          \o P!data_in, PAt(1, d, 0), PAt(0, 0, 0))
  BY <1>12, <1>7, RunsThen
<1>14. Runs(PRel, P!load_command(3) \o P!load_address_high_byte(P!High(n))
          \o P!load_address_low_byte(P!Low(n)) \o P!output_enable \o P!set_byte_low
          \o P!data_in \o P!output_disable, PAt(1, d, 0), PAt(1, 0, 0))
  BY <1>13, <1>8, RunsThen
<1> QED
  BY <1>14 DEF P!read_eeprom

LEMMA PReadWord ==
    ASSUME NEW d \in {0, 1}, NEW n \in Nat
    PROVE  Runs(PRel, P!read_pgm_mem_word(n), PAt(1, d, 0), PAt(1, 0, 0))
<1>1. 0 \in {0, 1} /\ 1 \in {0, 1} /\ 2 \in Nat /\ P!Low(n) \in Nat /\ P!High(n) \in Nat
  BY LowHigh
<1>2. Runs(PRel, P!load_command(2), PAt(1, d, 0), PAt(1, 1, 0))
  BY <1>1, PLoaded
<1>3. Runs(PRel, P!load_address_high_byte(P!High(n)), PAt(1, 1, 0), PAt(1, 1, 0))
  BY <1>1, PLoaded
<1>4. Runs(PRel, P!load_address_low_byte(P!Low(n)), PAt(1, 1, 0), PAt(1, 1, 0))
  BY <1>1, PLoaded
<1>5. Runs(PRel, P!output_enable, PAt(1, 1, 0), PAt(0, 1, 0))
  BY <1>1, PSingles
<1>6. Runs(PRel, P!set_byte_low, PAt(0, 1, 0), PAt(0, 1, 0))
  BY <1>1, PSingles
<1>7. Runs(PRel, P!data_in, PAt(0, 1, 0), PAt(0, 0, 0))
  BY <1>1, PSingles
<1>8. Runs(PRel, P!set_byte_high, PAt(0, 0, 0), PAt(0, 0, 0))
  BY <1>1, PSingles
<1>9. Runs(PRel, P!data_in_high, PAt(0, 0, 0), PAt(0, 0, 0))
  BY <1>1, PSingles
<1>10. Runs(PRel, P!output_disable, PAt(0, 0, 0), PAt(1, 0, 0))
  BY <1>1, PSingles
<1>11. Runs(PRel, P!load_command(2) \o P!load_address_high_byte(P!High(n)), PAt(1, d, 0), PAt(1, 1, 0))
  BY <1>2, <1>3, RunsThen
<1>12. Runs(PRel, P!load_command(2) \o P!load_address_high_byte(P!High(n))
          \o P!load_address_low_byte(P!Low(n)), PAt(1, d, 0), PAt(1, 1, 0))
  BY <1>11, <1>4, RunsThen
<1>13. Runs(PRel, P!load_command(2) \o P!load_address_high_byte(P!High(n))
          \o P!load_address_low_byte(P!Low(n)) \o P!output_enable, PAt(1, d, 0), PAt(0, 1, 0))
  BY <1>12, <1>5, RunsThen
<1>14. Runs(PRel, P!load_command(2) \o P!load_address_high_byte(P!High(n))
          \o P!load_address_low_byte(P!Low(n)) \o P!output_enable \o P!set_byte_low, PAt(1, d, 0), PAt(0, 1, 0))
  BY <1>13, <1>6, RunsThen
<1>15. Runs(PRel, P!load_command(2) \o P!load_address_high_byte(P!High(n))
          \o P!load_address_low_byte(P!Low(n)) \o P!output_enable \o P!set_byte_low
          \o P!data_in, PAt(1, d, 0), PAt(0, 0, 0))
  BY <1>14, <1>7, RunsThen
<1>16. Runs(PRel, P!load_command(2) \o P!load_address_high_byte(P!High(n))
          \o P!load_address_low_byte(P!Low(n)) \o P!output_enable \o P!set_byte_low
          \o P!data_in \o P!set_byte_high, PAt(1, d, 0), PAt(0, 0, 0))
  BY <1>15, <1>8, RunsThen
<1>17. Runs(PRel, P!load_command(2) \o P!load_address_high_byte(P!High(n))
          \o P!load_address_low_byte(P!Low(n)) \o P!output_enable \o P!set_byte_low
          \o P!data_in \o P!set_byte_high \o P!data_in_high, PAt(1, d, 0), PAt(0, 0, 0))
  BY <1>16, <1>9, RunsThen
<1>18. Runs(PRel, P!load_command(2) \o P!load_address_high_byte(P!High(n))
          \o P!load_address_low_byte(P!Low(n)) \o P!output_enable \o P!set_byte_low
          \o P!data_in \o P!set_byte_high \o P!data_in_high \o P!output_disable, PAt(1, d, 0), PAt(1, 0, 0))
  BY <1>17, <1>10, RunsThen
<1> QED
  BY <1>18 DEF P!read_pgm_mem_word

LEMMA PLoadByte ==
    ASSUME NEW d \in {0, 1}, NEW n \in Nat, NEW v \in Nat
    PROVE  Runs(PRel, P!load_eep_mem_byte(n, v), PAt(1, d, 0), PAt(1, 1, 0))
<1>1. 0 \in {0, 1} /\ 1 \in {0, 1} /\ P!Low(n) \in Nat
  BY LowHigh
<1>2. Runs(PRel, P!load_address_low_byte(P!Low(n)), PAt(1, d, 0), PAt(1, 1, 0))
  BY <1>1, PLoaded
<1>3. Runs(PRel, P!load_data_low_byte(v), PAt(1, 1, 0), PAt(1, 1, 0))
  BY <1>1, PLoaded
<1>4. Runs(PRel, P!latch_data, PAt(1, 1, 0), PAt(1, 1, 0))
  BY <1>1, PLatchData
<1>5. Runs(PRel, P!load_address_low_byte(P!Low(n)) \o P!load_data_low_byte(v), PAt(1, d, 0), PAt(1, 1, 0))
  BY <1>2, <1>3, RunsThen
<1>6. Runs(PRel, P!load_address_low_byte(P!Low(n)) \o P!load_data_low_byte(v)
          \o P!latch_data, PAt(1, d, 0), PAt(1, 1, 0))
  BY <1>5, <1>4, RunsThen
<1> QED
  BY <1>6 DEF P!load_eep_mem_byte

LEMMA PLoadWord ==
    ASSUME NEW d \in {0, 1}, NEW n \in Nat, NEW w \in Nat
    PROVE  Runs(PRel, P!load_pgm_mem_word(n, w), PAt(1, d, 0), PAt(1, 1, 0))
<1>1. 0 \in {0, 1} /\ 1 \in {0, 1} /\ P!Low(n) \in Nat /\ P!Low(w) \in Nat /\ P!High(w) \in Nat
  BY LowHigh
<1>2. Runs(PRel, P!load_address_low_byte(P!Low(n)), PAt(1, d, 0), PAt(1, 1, 0))
  BY <1>1, PLoaded
<1>3. Runs(PRel, P!load_data_low_byte(P!Low(w)), PAt(1, 1, 0), PAt(1, 1, 0))
  BY <1>1, PLoaded
<1>4. Runs(PRel, P!load_data_high_byte(P!High(w)), PAt(1, 1, 0), PAt(1, 1, 0))
  BY <1>1, PLoaded
<1>5. Runs(PRel, P!latch_data, PAt(1, 1, 0), PAt(1, 1, 0))
  BY <1>1, PLatchData
<1>6. Runs(PRel, P!load_address_low_byte(P!Low(n)) \o P!load_data_low_byte(P!Low(w)), PAt(1, d, 0), PAt(1, 1, 0))
  BY <1>2, <1>3, RunsThen
<1>7. Runs(PRel, P!load_address_low_byte(P!Low(n)) \o P!load_data_low_byte(P!Low(w))
          \o P!load_data_high_byte(P!High(w)), PAt(1, d, 0), PAt(1, 1, 0))
  BY <1>6, <1>4, RunsThen
<1>8. Runs(PRel, P!load_address_low_byte(P!Low(n)) \o P!load_data_low_byte(P!Low(w))
          \o P!load_data_high_byte(P!High(w)) \o P!latch_data, PAt(1, d, 0), PAt(1, 1, 0))
  BY <1>7, <1>5, RunsThen
<1> QED
  BY <1>8 DEF P!load_pgm_mem_word

LEMMA PWritePage ==
    ASSUME NEW d \in {0, 1}, NEW n \in Nat
    PROVE  Runs(PRel, P!write_mem_page(n), PAt(1, d, 0), PAt(1, 1, 0))
<1>1. 0 \in {0, 1} /\ 1 \in {0, 1} /\ P!High(n) \in Nat
  BY LowHigh
<1>2. Runs(PRel, P!load_address_high_byte(P!High(n)), PAt(1, d, 0), PAt(1, 1, 0))
  BY <1>1, PLoaded
<1>3. Runs(PRel, P!program_page, PAt(1, 1, 0), PAt(1, 1, 0))
  BY <1>1, PProgramPage
<1>4. Runs(PRel, P!load_address_high_byte(P!High(n)) \o P!program_page, PAt(1, d, 0), PAt(1, 1, 0))
  BY <1>2, <1>3, RunsThen
<1> QED
  BY <1>4 DEF P!write_mem_page

\* Every call leaves the data port to the target's side, and the target ready.
LEMMA PBody ==
    ASSUME NEW c, c.a \in Nat, c.v \in Nat, c.fn \in Library["parallel"], NEW d \in {0, 1}
    PROVE  \E e \in {0, 1} : Runs(PRel, P!Body(c), PAt(1, d, 0), PAt(1, e, 0))
<1>1. c.fn \in {"read_sign", "read_cali", "read_lock", "read_fuse", "write_lock", "write_fuse", "erase_chip", 
               "read_eeprom", "read_pgm_mem_word", "initiate_eep_mem_write", "initiate_pgm_mem_write", "shutdown_pgm_mem_write", 
               "load_eep_mem_byte", "load_pgm_mem_word", "write_eep_mem_page", "write_pgm_mem_page"}
  BY DEF Library, Common, Initiate
<1>2. 0 \in {0, 1} /\ 1 \in {0, 1}
  OBVIOUS
<1>3. CASE c.fn = "read_sign"
  <2>1. P!Body(c) = P!read_sign
    BY <1>3 DEF P!Body
  <2>3. Runs(PRel, P!read_sign, PAt(1, d, 0), PAt(1, 0, 0))
    BY PReadSign
  <2> QED
    BY <1>2, <2>1, <2>3
<1>4. CASE c.fn = "read_cali"
  <2>1. P!Body(c) = P!read_cali
    BY <1>4 DEF P!Body
  <2>3. Runs(PRel, P!read_cali, PAt(1, d, 0), PAt(1, 0, 0))
    BY PReadCali
  <2> QED
    BY <1>2, <2>1, <2>3
<1>5. CASE c.fn = "read_lock"
  <2>1. P!Body(c) = P!read_lock
    BY <1>5 DEF P!Body
  <2>3. Runs(PRel, P!read_lock, PAt(1, d, 0), PAt(1, 0, 0))
    BY PReadLock
  <2> QED
    BY <1>2, <2>1, <2>3
<1>6. CASE c.fn = "read_fuse"
  <2>1. P!Body(c) = P!read_fuse
    BY <1>6 DEF P!Body
  <2>3. Runs(PRel, P!read_fuse, PAt(1, d, 0), PAt(1, 0, 0))
    BY PReadFuse
  <2> QED
    BY <1>2, <2>1, <2>3
<1>7. CASE c.fn = "write_lock"
  <2>1. P!Body(c) = P!write_lock(c.v)
    BY <1>7 DEF P!Body
  <2>3. Runs(PRel, P!write_lock(c.v), PAt(1, d, 0), PAt(1, 1, 0))
    BY PWriteLock
  <2> QED
    BY <1>2, <2>1, <2>3
<1>8. CASE c.fn = "write_fuse"
  <2>1. P!Body(c) = P!write_fuse(c.v \div 65536, c.v % 65536)
    BY <1>8 DEF P!Body
  <2>2. c.v \div 65536 \in Nat /\ c.v % 65536 \in Nat
    OBVIOUS
  <2>3. Runs(PRel, P!write_fuse(c.v \div 65536, c.v % 65536), PAt(1, d, 0), PAt(1, 1, 0))
    BY <2>2, PWriteFuse
  <2> QED
    BY <1>2, <2>1, <2>3
<1>9. CASE c.fn = "erase_chip"
  <2>1. P!Body(c) = P!erase_chip
    BY <1>9 DEF P!Body
  <2>3. Runs(PRel, P!erase_chip, PAt(1, d, 0), PAt(1, 1, 0))
    BY PErase
  <2> QED
    BY <1>2, <2>1, <2>3
<1>10. CASE c.fn = "read_eeprom"
  <2>1. P!Body(c) = P!read_eeprom(c.a)
    BY <1>10 DEF P!Body
  <2>3. Runs(PRel, P!read_eeprom(c.a), PAt(1, d, 0), PAt(1, 0, 0))
    BY PReadEeprom
  <2> QED
    BY <1>2, <2>1, <2>3
<1>11. CASE c.fn = "read_pgm_mem_word"
  <2>1. P!Body(c) = P!read_pgm_mem_word(c.a)
    BY <1>11 DEF P!Body
  <2>3. Runs(PRel, P!read_pgm_mem_word(c.a), PAt(1, d, 0), PAt(1, 0, 0))
    BY PReadWord
  <2> QED
    BY <1>2, <2>1, <2>3
<1>12. CASE c.fn = "initiate_eep_mem_write"
  <2>1. P!Body(c) = P!initiate_eep_mem_write
    BY <1>12 DEF P!Body
  <2>2. 17 \in Nat
    OBVIOUS
  <2>3. Runs(PRel, P!initiate_eep_mem_write, PAt(1, d, 0), PAt(1, 1, 0))
    BY <2>2, PLoaded DEF P!initiate_eep_mem_write
  <2> QED
    BY <1>2, <2>1, <2>3
<1>13. CASE c.fn = "initiate_pgm_mem_write"
  <2>1. P!Body(c) = P!initiate_pgm_mem_write
    BY <1>13 DEF P!Body
  <2>2. 16 \in Nat
    OBVIOUS
  <2>3. Runs(PRel, P!initiate_pgm_mem_write, PAt(1, d, 0), PAt(1, 1, 0))
    BY <2>2, PLoaded DEF P!initiate_pgm_mem_write
  <2> QED
    BY <1>2, <2>1, <2>3
<1>14. CASE c.fn = "shutdown_pgm_mem_write"
  <2>1. P!Body(c) = P!shutdown_pgm_mem_write
    BY <1>14 DEF P!Body
  <2>2. 0 \in Nat
    OBVIOUS
  <2>3. Runs(PRel, P!shutdown_pgm_mem_write, PAt(1, d, 0), PAt(1, 1, 0))
    BY <2>2, PLoaded DEF P!shutdown_pgm_mem_write
  <2> QED
    BY <1>2, <2>1, <2>3
<1>15. CASE c.fn = "load_eep_mem_byte"
  <2>1. P!Body(c) = P!load_eep_mem_byte(c.a, c.v)
    BY <1>15 DEF P!Body
  <2>3. Runs(PRel, P!load_eep_mem_byte(c.a, c.v), PAt(1, d, 0), PAt(1, 1, 0))
    BY PLoadByte
  <2> QED
    BY <1>2, <2>1, <2>3
<1>16. CASE c.fn = "load_pgm_mem_word"
  <2>1. P!Body(c) = P!load_pgm_mem_word(c.a, c.v)
    BY <1>16 DEF P!Body
  <2>3. Runs(PRel, P!load_pgm_mem_word(c.a, c.v), PAt(1, d, 0), PAt(1, 1, 0))
    BY PLoadWord
  <2> QED
    BY <1>2, <2>1, <2>3
<1>17. CASE c.fn = "write_eep_mem_page"
  <2>1. P!Body(c) = P!write_mem_page(c.a)
    BY <1>17 DEF P!Body
  <2>3. Runs(PRel, P!write_mem_page(c.a), PAt(1, d, 0), PAt(1, 1, 0))
    BY PWritePage
  <2> QED
    BY <1>2, <2>1, <2>3
<1>18. CASE c.fn = "write_pgm_mem_page"
  <2>1. P!Body(c) = P!write_mem_page(c.a)
    BY <1>18 DEF P!Body
  <2>3. Runs(PRel, P!write_mem_page(c.a), PAt(1, d, 0), PAt(1, 1, 0))
    BY PWritePage
  <2> QED
    BY <1>2, <2>1, <2>3
<1> QED
  BY <1>1, <1>3, <1>4, <1>5, <1>6, <1>7, <1>8, <1>9, <1>10, <1>11, <1>12, <1>13, <1>14, <1>15, <1>16, <1>17, <1>18

-----------------------------------------------------------------------------
(* The order of the calls. *)

CallRecord == [fn : STRING, a : Nat, v : Nat]

\* The calls s may be made behind c, and end a session.
Ahead(d, c, s) ==
    /\ s \in Seq(CallRecord)
    /\ \A i \in 1..Len(s) :
           /\ i = Len(s) => s[i].fn = Reset[d]
           /\ i < Len(s) => s[i].fn \in Library[d] /\ Proper(s[i])
           /\ d # "serial" => Follows(IF i = 1 THEN c ELSE s[i - 1], s[i])

LEMMA SessionStarts ==
    ASSUME NEW d, NEW s, Orderly(d, s)
    PROVE  /\ s # <<>> /\ Head(s) \in CallRecord /\ Head(s).fn = Setup[d]
           /\ Ahead(d, Head(s), Tail(s))
<1> DEFINE n == Len(s)
           u == Tail(s)
<1>1. s \in Seq(CallRecord) /\ n > 1
  BY DEF Orderly, CallRecord
<1>2. /\ n \in Nat /\ s # <<>> /\ Head(s) = s[1] /\ s[1] \in CallRecord
      /\ u \in Seq(CallRecord) /\ Len(u) = n - 1 /\ \A i \in 1..(n - 1) : u[i] = s[i + 1]
  BY <1>1
<1>3. /\ s[1].fn = Setup[d] /\ s[n].fn = Reset[d]
      /\ \A i \in 2..(n - 1) : s[i].fn \in Library[d] /\ Proper(s[i])
      /\ d # "serial" => \A i \in 2..n : Follows(s[i - 1], s[i])
  BY DEF Orderly
<1> HIDE DEF n, u
<1>4. ASSUME NEW i \in 1..Len(u)
      PROVE  /\ i = Len(u) => u[i].fn = Reset[d]
             /\ i < Len(u) => u[i].fn \in Library[d] /\ Proper(u[i])
             /\ d # "serial" => Follows(IF i = 1 THEN Head(s) ELSE u[i - 1], u[i])
  <2>1. u[i] = s[i + 1] /\ i + 1 \in 2..n
    BY <1>1, <1>2
  <2>2. i = Len(u) => u[i].fn = Reset[d]
    BY <1>1, <1>2, <1>3, <2>1
  <2>3. i < Len(u) => u[i].fn \in Library[d] /\ Proper(u[i])
    <3>1. i < Len(u) => i + 1 \in 2..(n - 1)
      BY <1>1, <1>2
    <3> QED
      BY <1>3, <2>1, <3>1
  <2>4. (IF i = 1 THEN Head(s) ELSE u[i - 1]) = s[i]
    <3>1. CASE i = 1
      BY <1>2, <3>1
    <3>2. CASE i # 1
      <4>1. i - 1 \in 1..(n - 1) /\ (i - 1) + 1 = i
        BY <1>1, <1>2, <3>2
      <4> QED
        BY <1>2, <3>2, <4>1
    <3> QED
      BY <3>1, <3>2
  <2>5. d # "serial" => Follows(s[i], s[i + 1])
    <3>1. (i + 1) - 1 = i
      OBVIOUS
    <3> QED
      BY <1>3, <2>1, <3>1
  <2> QED
    BY <2>1, <2>2, <2>3, <2>4, <2>5
<1> QED
  BY <1>2, <1>3, <1>4 DEF u, Ahead

LEMMA SessionGoesOn ==
    ASSUME NEW d, NEW c, NEW s, Ahead(d, c, s), s # <<>>
    PROVE  /\ Head(s) \in CallRecord /\ Ahead(d, Head(s), Tail(s))
           /\ \/ Tail(s) = <<>> /\ Head(s).fn = Reset[d]
              \/ Head(s).fn \in Library[d] /\ Proper(Head(s))
           /\ d # "serial" => Follows(c, Head(s))
<1> DEFINE n == Len(s)
           u == Tail(s)
<1>1. s \in Seq(CallRecord)
  BY DEF Ahead
<1>2. /\ n \in Nat /\ n >= 1 /\ Head(s) = s[1] /\ s[1] \in CallRecord
      /\ u \in Seq(CallRecord) /\ Len(u) = n - 1 /\ \A i \in 1..(n - 1) : u[i] = s[i + 1]
  BY <1>1
<1>3. \A i \in 1..n :
          /\ i = n => s[i].fn = Reset[d]
          /\ i < n => s[i].fn \in Library[d] /\ Proper(s[i])
          /\ d # "serial" => Follows(IF i = 1 THEN c ELSE s[i - 1], s[i])
  BY DEF Ahead
<1> HIDE DEF n, u
<1>4. 1 \in 1..n
  BY <1>2
<1>5. \/ u = <<>> /\ s[1].fn = Reset[d]
      \/ s[1].fn \in Library[d] /\ Proper(s[1])
  <2>1. CASE n = 1
    <3>1. u = <<>>
      BY <1>2, <2>1
    <3> QED
      BY <1>3, <1>4, <2>1, <3>1
  <2>2. CASE n > 1
    BY <1>3, <1>4, <2>2
  <2> QED
    BY <1>2, <2>1, <2>2
<1>6. d # "serial" => Follows(c, s[1])
  BY <1>3, <1>4
<1>7. ASSUME NEW i \in 1..Len(u)
      PROVE  /\ i = Len(u) => u[i].fn = Reset[d]
             /\ i < Len(u) => u[i].fn \in Library[d] /\ Proper(u[i])
             /\ d # "serial" => Follows(IF i = 1 THEN Head(s) ELSE u[i - 1], u[i])
  <2>1. u[i] = s[i + 1] /\ i + 1 \in 1..n /\ i + 1 # 1 /\ (i + 1) - 1 = i
    BY <1>2
  <2>2. i = Len(u) => i + 1 = n
    BY <1>2
  <2>3. i < Len(u) => i + 1 < n
    BY <1>2
  <2>4. (IF i = 1 THEN Head(s) ELSE u[i - 1]) = s[i]
    <3>1. CASE i = 1
      BY <1>2, <3>1
    <3>2. CASE i # 1
      <4>1. i - 1 \in 1..(n - 1) /\ (i - 1) + 1 = i
        BY <1>2, <3>2
      <4> QED
        BY <1>2, <3>2, <4>1
    <3> QED
      BY <3>1, <3>2
  <2>5. /\ i + 1 = n => s[i + 1].fn = Reset[d]
        /\ i + 1 < n => s[i + 1].fn \in Library[d] /\ Proper(s[i + 1])
        /\ d # "serial" => Follows(s[i], s[i + 1])
    BY <1>3, <2>1
  <2> QED
    BY <2>1, <2>2, <2>3, <2>4, <2>5
<1>8. Ahead(d, Head(s), u)
  BY <1>2, <1>7 DEF Ahead
<1> QED
  BY <1>2, <1>5, <1>6, <1>8 DEF u

LEMMA SessionsOrderly ==
    /\ \A d \in {"jtag", "parallel", "serial"} : \A s \in Sessions[d] : Orderly(d, s)
    /\ Recovery \subseteq Sessions["jtag"]
  BY SessionsAssumption DEF SessionsAssumption

-----------------------------------------------------------------------------
(* What an operation does to a target that is not busy. *)

Shaped(c) == /\ c = [mem |-> c.mem, eng |-> c.eng, busy |-> c.busy, early |-> c.early, out |-> c.out]
             /\ c.busy \in BOOLEAN /\ c.early \in BOOLEAN

LEMMA WhileReady ==
    ASSUME NEW c, Shaped(c), ~c.busy, ~c.early, NEW x, NEW y, NEW z
    PROVE  /\ Shaped(P!Load(c, x, y, z)) /\ ~P!Load(c, x, y, z).busy /\ ~P!Load(c, x, y, z).early
           /\ Shaped(P!Latch(c)) /\ ~P!Latch(c).busy /\ ~P!Latch(c).early
           /\ Shaped(P!Strobe(c, x, y)) /\ ~P!Strobe(c, x, y).early
<1>1. \A e : LET o == [c EXCEPT !.eng = e] IN Shaped(o) /\ ~o.busy /\ ~o.early
  BY DEF Shaped
<1>2. \A m : LET o == [c EXCEPT !.mem = m] IN Shaped(o) /\ ~o.busy /\ ~o.early
  BY DEF Shaped
<1>3. ASSUME NEW m, NEW b \in BOOLEAN
      PROVE  LET o == [c EXCEPT !.busy = b, !.mem = m] IN Shaped(o) /\ ~o.early
  <2> DEFINE p == [c EXCEPT !.busy = b]
             o == [p EXCEPT !.mem = m]
  <2>1. Shaped(p) /\ ~p.early
    BY DEF Shaped
  <2> HIDE DEF p
  <2>2. Shaped(o) /\ ~o.early
    BY <2>1 DEF Shaped
  <2> QED
    BY <2>2 DEF p
<1>4. Shaped(P!Load(c, x, y, z)) /\ ~P!Load(c, x, y, z).busy /\ ~P!Load(c, x, y, z).early
  <2>1. CASE x = 3
    BY <2>1 DEF P!Load
  <2>2. CASE x # 3
    BY <1>1, <2>2 DEF P!Load, P!Guarded
  <2> QED
    BY <2>1, <2>2
<1>5. Shaped(P!Latch(c)) /\ ~P!Latch(c).busy /\ ~P!Latch(c).early
  BY <1>2 DEF P!Latch, P!Guarded
<1>6. Shaped(P!Strobe(c, x, y)) /\ ~P!Strobe(c, x, y).early
  <2> DEFINE b == c.eng.cmd \in {16, 17, 32, 64, 128}
             m == CASE c.eng.cmd = 128 -> P!Erased(c.mem)
                    [] c.eng.cmd = 16  -> P!PageWritten(c.mem, P!Address(c) % SPM_SZ_WORDS)
                    [] c.eng.cmd = 17  -> P!EepWritten(c.mem, P!Address(c) % EepBytes)
                    [] c.eng.cmd = 32  -> [c.mem EXCEPT !.lock = c.eng.dataL]
                    [] c.eng.cmd = 64 /\ x = 0 /\ y = 0 -> [c.mem EXCEPT !.lfuse = c.eng.dataL]
                    [] c.eng.cmd = 64 /\ x = 0 /\ y = 1 -> [c.mem EXCEPT !.hfuse = c.eng.dataL]
                    [] c.eng.cmd = 64 /\ x = 1 /\ y = 0 -> [c.mem EXCEPT !.efuse = c.eng.dataL]
                    [] OTHER -> c.mem
  <2>1. P!Strobe(c, x, y) = [c EXCEPT !.busy = b, !.mem = m]
    BY DEF P!Strobe, P!Guarded
  <2>2. b \in BOOLEAN
    OBVIOUS
  <2> HIDE DEF b, m
  <2> QED
    BY <1>3, <2>1, <2>2
<1> QED
  BY <1>4, <1>5, <1>6

-----------------------------------------------------------------------------
(* The parallel programmer's calls. *)

PShape ==
    /\ Shaped(chip) /\ ~chip.early
    /\ pins = [oeb |-> pins.oeb, bs1 |-> pins.bs1, bs2 |-> pins.bs2, xa |-> pins.xa, resetb |-> pins.resetb]
    /\ pins.oeb \in {0, 1}
    /\ port = [out |-> port.out, data |-> port.data] /\ port.out \in BOOLEAN

PAdmits(a) == a.oeb = pins.oeb /\ (a.out = 1 => port.out) /\ (chip.busy => a.may = 1)

PBetween ==
    /\ call = NoCall /\ todo = <<>> /\ ~chip.busy
    /\ \/ calls \in Sessions["parallel"]
       \/ pins.oeb = 1 /\ \E c : Ahead("parallel", c, calls)

PWithin ==
    /\ call # NoCall /\ Ahead("parallel", call, calls)
    /\ \E a \in PStates, e \in {0, 1} : Runs(PRel, todo, a, PAt(1, e, 0)) /\ PAdmits(a)

PInv == PShape /\ (PBetween \/ PWithin)

LEMMA PFirst ==
    ASSUME NEW a \in PStates, NEW b, NEW s, s # <<>>, Runs(PRel, s, a, b)
    PROVE  \E c \in PStates : PStep(a, Head(s)[1], Head(s)[2], c) /\ Runs(PRel, Tail(s), c, b)
<1>1. PICK c : <<a, Head(s), c>> \in PRel /\ Runs(PRel, Tail(s), c, b)
  BY RunsFirst
<1>2. c \in PStates /\ PStep(a, Head(s)[1], Head(s)[2], c)
  BY <1>1 DEF PRel
<1> QED
  BY <1>1, <1>2

LEMMA IsACall == ASSUME NEW c, c.fn # "none" PROVE c # NoCall
  BY DEF NoCall, Call

LEMMA PCallNext == ASSUME PInv, P!CallNext PROVE PInv'
<1>1. PBetween /\ call = NoCall /\ calls # <<>>
  BY DEF PInv, PWithin, P!CallNext, P!NoCall, P!Call, NoCall, Call
<1> DEFINE c == Head(calls)
           u == Tail(calls)
<1>2. /\ call' = c /\ calls' = u /\ todo' = P!Body(c)
      /\ UNCHANGED <<pins, port, restarts, prog, chip, want>>
  BY DEF P!CallNext
<1>3. 0 \in {0, 1} /\ 1 \in {0, 1}
  OBVIOUS
<1>4. /\ c \in CallRecord /\ Ahead("parallel", c, u)
      /\ \/ c.fn = "setup_parallel_programming"
         \/ pins.oeb = 1 /\ (c.fn = "reset_parallel_programming" \/ c.fn \in Library["parallel"])
  <2>1. CASE calls \in Sessions["parallel"]
    <3>1. Orderly("parallel", calls)
      BY <2>1, SessionsOrderly
    <3>2. c \in CallRecord /\ c.fn = Setup["parallel"] /\ Ahead("parallel", c, u)
      BY <3>1, SessionStarts
    <3> QED
      BY <3>2 DEF Setup
  <2>2. CASE pins.oeb = 1 /\ \E b : Ahead("parallel", b, calls)
    <3>1. /\ c \in CallRecord /\ Ahead("parallel", c, u)
          /\ c.fn = Reset["parallel"] \/ c.fn \in Library["parallel"]
      BY <1>1, <2>2, SessionGoesOn
    <3> QED
      BY <2>2, <3>1 DEF Reset
  <2> QED
    BY <1>1, <2>1, <2>2 DEF PBetween
<1> HIDE DEF c, u
<1>5. PICK o \in {0, 1}, e \in {0, 1} : o = pins.oeb /\ Runs(PRel, P!Body(c), PAt(o, 0, 0), PAt(1, e, 0))
  <2>1. pins.oeb \in {0, 1}
    BY DEF PInv, PShape
  <2>2. CASE c.fn = "setup_parallel_programming"
    <3>1. P!Body(c) = P!setup_parallel_programming
      BY <2>2 DEF P!Body
    <3>2. Runs(PRel, P!Body(c), PAt(pins.oeb, 0, 0), PAt(1, 1, 0))
      BY <1>3, <2>1, <3>1, PSetup
    <3> QED
      BY <1>3, <2>1, <3>2
  <2>3. CASE pins.oeb = 1 /\ c.fn = "reset_parallel_programming"
    <3>1. P!Body(c) = P!reset_parallel_programming
      BY <2>3 DEF P!Body
    <3>2. Runs(PRel, P!Body(c), PAt(1, 0, 0), PAt(1, 0, 0))
      BY <1>3, <3>1, PSingles
    <3> QED
      BY <1>3, <2>3, <3>2
  <2>4. CASE pins.oeb = 1 /\ c.fn \in Library["parallel"]
    <3>1. c.a \in Nat /\ c.v \in Nat
      BY <1>4 DEF CallRecord
    <3> QED
      BY <1>3, <2>4, <3>1, PBody
  <2> QED
    BY <1>4, <2>2, <2>3, <2>4
<1>6. PAt(o, 0, 0) \in PStates /\ PAdmits(PAt(o, 0, 0))'
  <2>1. PAt(o, 0, 0) \in PStates /\ PAt(o, 0, 0).oeb = o /\ PAt(o, 0, 0).out = 0
    BY DEF PAt, PStates
  <2>2. ~chip.busy
    BY <1>1 DEF PBetween
  <2> QED
    BY <1>2, <1>5, <2>1, <2>2 DEF PAdmits
<1>7. c # NoCall
  <2>1. c.fn # "none"
    BY <1>4 DEF Library, Common, Initiate
  <2> QED
    BY <2>1, IsACall
<1>8. PWithin'
  BY <1>2, <1>4, <1>5, <1>6, <1>7 DEF PWithin
<1>9. PShape'
  BY <1>2 DEF PInv, PShape
<1> QED
  BY <1>8, <1>9 DEF PInv

LEMMA PReturn == ASSUME PInv, P!Return PROVE PInv'
<1>1. /\ PWithin /\ todo = <<>> /\ call' = NoCall
      /\ UNCHANGED <<calls, todo, ret, pins, port, restarts, prog, chip>>
  BY DEF PInv, PBetween, P!Return, P!NoCall, P!Call, NoCall, Call
<1>2. PICK a \in PStates, e \in {0, 1} : Runs(PRel, todo, a, PAt(1, e, 0)) /\ PAdmits(a)
  BY <1>1 DEF PWithin
<1>3. a = PAt(1, e, 0)
  BY <1>1, <1>2, RunsEmpty
<1>4. ~chip.busy /\ pins.oeb = 1
  BY <1>2, <1>3 DEF PAdmits, PAt
<1>5. PBetween'
  BY <1>1, <1>4 DEF PBetween, PWithin
<1>6. PShape'
  BY <1>1 DEF PInv, PShape
<1> QED
  BY <1>5, <1>6 DEF PInv

\* A step of a call: the run goes on from a state that the next one admits.
LEMMA PGoesOn ==
    ASSUME PInv, todo # <<>>, todo' = Tail(todo), call' = call, calls' = calls, PShape',
           \A a, c \in PStates : PAdmits(a) /\ PStep(a, P!step, P!value, c) => PAdmits(c)'
    PROVE  PInv'
<1>1. PWithin
  BY DEF PInv, PBetween
<1>2. PICK a \in PStates, e \in {0, 1} : Runs(PRel, todo, a, PAt(1, e, 0)) /\ PAdmits(a)
  BY <1>1 DEF PWithin
<1>3. PICK c \in PStates : PStep(a, Head(todo)[1], Head(todo)[2], c) /\ Runs(PRel, Tail(todo), c, PAt(1, e, 0))
  BY <1>2, PFirst
<1>4. PAdmits(c)'
  BY <1>2, <1>3 DEF P!step, P!value
<1>5. PWithin'
  BY <1>1, <1>3, <1>4 DEF PWithin
<1> QED
  BY <1>5 DEF PInv

LEMMA PSetPins == ASSUME PInv, P!SetPins PROVE PInv'
<1>1. /\ todo # <<>> /\ todo' = Tail(todo)
      /\ UNCHANGED <<calls, call, ret, restarts, prog, chip, want>>
  BY DEF P!SetPins
<1> DEFINE x == P!step
           v == P!value
<1>2. \/ x = "xa"    /\ pins' = [pins EXCEPT !.xa = v] /\ port' = port
      \/ x = "bs1"   /\ pins' = [pins EXCEPT !.bs1 = v] /\ port' = port
      \/ x = "oeb"   /\ pins' = [pins EXCEPT !.oeb = v] /\ port' = port
      \/ x = "out"   /\ port' = [out |-> TRUE, data |-> v] /\ pins' = pins
      \/ x = "power" /\ pins' = P!PinsLow /\ port' = port
      \/ x = "execute" /\ pins' = [pins EXCEPT !.resetb = 1] /\ port' = port
  BY DEF P!SetPins
<1>3. PShape
  BY DEF PInv
<1>4. PWithin
  BY <1>1 DEF PInv, PBetween
<1>5. x = "oeb" => v \in {0, 1}
  <2>1. PICK a \in PStates, e \in {0, 1} : Runs(PRel, todo, a, PAt(1, e, 0))
    BY <1>4 DEF PWithin
  <2>2. PICK c \in PStates : PStep(a, Head(todo)[1], Head(todo)[2], c)
    BY <1>1, <2>1, PFirst
  <2> QED
    BY <2>2 DEF PStep, P!step, P!value
<1> HIDE DEF x, v
<1>6. PShape'
  <2> DEFINE OfPins(p) == /\ p = [oeb |-> p.oeb, bs1 |-> p.bs1, bs2 |-> p.bs2, xa |-> p.xa, resetb |-> p.resetb]
                          /\ p.oeb \in {0, 1}
  <2>1. OfPins(pins) /\ P!PinsLow = [oeb |-> 1, bs1 |-> 0, bs2 |-> 0, xa |-> 0, resetb |-> 0]
    BY <1>3 DEF PShape, P!PinsLow
  <2>2. OfPins(pins')
    BY <1>2, <1>5, <2>1
  <2>3. (Shaped(chip) /\ ~chip.early)'
    BY <1>1, <1>3 DEF PShape, Shaped
  <2>4. (port = [out |-> port.out, data |-> port.data] /\ port.out \in BOOLEAN)'
    <3>1. CASE x = "out"
      <4>1. port' = [out |-> TRUE, data |-> v]
        BY <1>2, <3>1
      <4> QED
        BY <4>1
    <3>2. CASE x # "out"
      <4>1. port' = port
        BY <1>2, <3>2
      <4> QED
        BY <1>3, <4>1 DEF PShape
    <3> QED
      BY <3>1, <3>2
  <2> QED
    BY <2>2, <2>3, <2>4 DEF PShape
<1>7. ASSUME NEW a \in PStates, NEW c \in PStates, PAdmits(a), PStep(a, x, v, c)
      PROVE  PAdmits(c)'
  <2>1. CASE x \in {"xa", "bs1", "execute"}
    <3>1. c = a
      BY <1>7, <2>1 DEF PStep
    <3>2. pins'.oeb = pins.oeb /\ port' = port
      BY <1>2, <1>3, <2>1 DEF PShape
    <3> QED
      BY <1>1, <1>7, <3>1, <3>2 DEF PAdmits
  <2>2. CASE x = "oeb"
    <3>1. c = [a EXCEPT !.oeb = v]
      BY <1>7, <2>2 DEF PStep
    <3>2. pins'.oeb = v /\ port' = port
      BY <1>2, <1>3, <2>2 DEF PShape
    <3> QED
      BY <1>1, <1>7, <3>1, <3>2 DEF PAdmits, PStates
  <2>3. CASE x = "out"
    <3>1. c = [a EXCEPT !.out = 1]
      BY <1>7, <2>3 DEF PStep
    <3>2. pins' = pins /\ port'.out = TRUE
      BY <1>2, <1>3, <2>3 DEF PShape
    <3> QED
      BY <1>1, <1>7, <3>1, <3>2 DEF PAdmits, PStates
  <2>4. CASE x = "power"
    <3>1. c = [a EXCEPT !.oeb = 1]
      BY <1>7, <2>4 DEF PStep
    <3>2. pins'.oeb = 1 /\ port' = port
      BY <1>2, <1>3, <2>4 DEF PShape, P!PinsLow
    <3> QED
      BY <1>1, <1>7, <3>1, <3>2 DEF PAdmits, PStates
  <2> QED
    BY <1>2, <2>1, <2>2, <2>3, <2>4
<1> QED
  BY <1>1, <1>6, <1>7, PGoesOn DEF x, v

LEMMA PPulse == ASSUME PInv, P!Pulse PROVE PInv'
<1>1. /\ todo # <<>> /\ todo' = Tail(todo)
      /\ UNCHANGED <<calls, call, ret, pins, port, restarts, prog, want>>
  BY DEF P!Pulse
<1> DEFINE x == P!step
           v == P!value
<1>2. \/ x = "xtal1" /\ chip' = IF prog THEN P!Load(chip, pins.xa, pins.bs1, P!Bus) ELSE chip
      \/ x = "pagel" /\ chip' = IF prog THEN P!Latch(chip) ELSE chip
      \/ x = "wrb"   /\ chip' = IF prog THEN P!Strobe(chip, pins.bs2, pins.bs1) ELSE chip
  BY DEF P!Pulse
<1>3. PShape /\ PWithin
  BY <1>1 DEF PInv, PBetween
<1>4. ~chip.busy
  <2>1. PICK a \in PStates, e \in {0, 1} : Runs(PRel, todo, a, PAt(1, e, 0)) /\ PAdmits(a)
    BY <1>3 DEF PWithin
  <2>2. PICK c \in PStates : PStep(a, Head(todo)[1], Head(todo)[2], c)
    BY <1>1, <2>1, PFirst
  <2>3. x = Head(todo)[1]
    BY DEF P!step
  <2> HIDE DEF x
  <2>4. a.may = 0
    BY <1>2, <2>2, <2>3 DEF PStep
  <2> QED
    BY <2>1, <2>4 DEF PAdmits
<1> HIDE DEF x, v
<1>5. Shaped(chip)' /\ ~chip'.early /\ (x # "wrb" => ~chip'.busy)
  <2>1. Shaped(chip) /\ ~chip.early
    BY <1>3 DEF PShape
  <2>2. CASE ~prog
    <3>1. chip' = chip
      BY <1>2, <2>2
    <3> QED
      BY <1>4, <2>1, <3>1 DEF Shaped
  <2>3. CASE prog /\ x = "xtal1"
    <3>1. chip' = P!Load(chip, pins.xa, pins.bs1, P!Bus)
      BY <1>2, <2>3
    <3>2. Shaped(chip') /\ ~chip'.early /\ ~chip'.busy
      BY <1>4, <2>1, <3>1, WhileReady
    <3> QED
      BY <3>2 DEF Shaped
  <2>4. CASE prog /\ x = "pagel"
    <3>1. chip' = P!Latch(chip)
      BY <1>2, <2>4
    <3>2. Shaped(chip') /\ ~chip'.early /\ ~chip'.busy
      BY <1>4, <2>1, <3>1, WhileReady
    <3> QED
      BY <3>2 DEF Shaped
  <2>5. CASE prog /\ x = "wrb"
    <3>1. chip' = P!Strobe(chip, pins.bs2, pins.bs1)
      BY <1>2, <2>5
    <3>2. Shaped(chip') /\ ~chip'.early
      BY <1>4, <2>1, <3>1, WhileReady
    <3> QED
      BY <2>5, <3>2 DEF Shaped
  <2> QED
    BY <1>2, <2>2, <2>3, <2>4, <2>5
<1>6. PShape'
  BY <1>1, <1>3, <1>5 DEF PShape
<1>7. ASSUME NEW a \in PStates, NEW c \in PStates, PAdmits(a), PStep(a, x, v, c)
      PROVE  PAdmits(c)'
  <2>1. CASE x \in {"xtal1", "pagel"}
    <3>1. c = a
      BY <1>7, <2>1 DEF PStep
    <3>2. ~chip'.busy
      BY <1>5, <2>1
    <3> QED
      BY <1>1, <1>7, <3>1, <3>2 DEF PAdmits
  <2>2. CASE x = "wrb"
    <3>1. c = [a EXCEPT !.may = 1]
      BY <1>7, <2>2 DEF PStep
    <3> QED
      BY <1>1, <1>7, <3>1 DEF PAdmits, PStates
  <2> QED
    BY <1>2, <2>1, <2>2
<1> QED
  BY <1>1, <1>6, <1>7, PGoesOn DEF x, v

LEMMA POthers ==
    ASSUME PInv, P!DataIn \/ P!Wait \/ P!Switch
    PROVE  PInv'
<1>1. todo # <<>> /\ todo' = Tail(todo) /\ call' = call /\ calls' = calls /\ pins' = pins
  BY DEF P!DataIn, P!Wait, P!Switch
<1>2. PShape
  BY DEF PInv
<1>3. CASE P!DataIn
  <2>1. P!step \in {"in", "in high", "in first"} /\ port' = [port EXCEPT !.out = FALSE] /\ chip' = chip
    BY <1>3 DEF P!DataIn
  <2>2. PShape'
    BY <1>1, <1>2, <2>1 DEF PShape, Shaped
  <2>3. ASSUME NEW a \in PStates, NEW c \in PStates, PAdmits(a), PStep(a, P!step, P!value, c)
        PROVE  PAdmits(c)'
    <3>1. c = [a EXCEPT !.out = 0]
      BY <2>1, <2>3 DEF PStep
    <3>2. c.oeb = a.oeb /\ c.out = 0 /\ c.may = a.may
      BY <3>1 DEF PStates
    <3>3. chip' = chip /\ pins' = pins /\ a.oeb = pins.oeb /\ (chip.busy => a.may = 1)
      BY <1>1, <2>1, <2>3 DEF PAdmits
    <3>4. c.out # 1
      BY <3>2
    <3> QED
      BY <3>2, <3>3, <3>4 DEF PAdmits
  <2> QED
    BY <1>1, <2>2, <2>3, PGoesOn
<1>4. CASE P!Wait
  <2>1. P!step = "wait" /\ ~chip.busy /\ port' = port /\ chip' = chip
    BY <1>4 DEF P!Wait
  <2>2. PShape'
    BY <1>1, <1>2, <2>1 DEF PShape, Shaped
  <2>3. ASSUME NEW a \in PStates, NEW c \in PStates, PAdmits(a), PStep(a, P!step, P!value, c)
        PROVE  PAdmits(c)'
    <3>1. c = [a EXCEPT !.may = 0]
      BY <2>1, <2>3 DEF PStep
    <3>2. c.oeb = a.oeb /\ c.out = a.out
      BY <3>1 DEF PStates
    <3> QED
      BY <1>1, <2>1, <2>3, <3>2 DEF PAdmits
  <2> QED
    BY <1>1, <2>2, <2>3, PGoesOn
<1>5. CASE P!Switch
  <2>1. P!step = "switch" /\ port' = port /\ chip' = [chip EXCEPT !.eng = P!Engine]
    BY <1>5 DEF P!Switch
  <2>2. PShape' /\ chip'.busy = chip.busy
    BY <1>1, <1>2, <2>1 DEF PShape, Shaped
  <2>3. ASSUME NEW a \in PStates, NEW c \in PStates, PAdmits(a), PStep(a, P!step, P!value, c)
        PROVE  PAdmits(c)'
    <3>1. c = a
      BY <2>1, <2>3 DEF PStep
    <3> QED
      BY <1>1, <2>1, <2>2, <2>3, <3>1 DEF PAdmits
  <2> QED
    BY <1>1, <2>2, <2>3, PGoesOn
<1> QED
  BY <1>3, <1>4, <1>5

LEMMA PReady == ASSUME PInv, P!Ready PROVE PInv'
<1>1. chip.busy /\ chip' = [chip EXCEPT !.busy = FALSE] /\ UNCHANGED <<calls, call, todo, pins, port>>
  BY DEF P!Ready
<1>2. PWithin /\ PShape
  BY <1>1 DEF PInv, PBetween
<1>3. PShape' /\ ~chip'.busy
  BY <1>1, <1>2 DEF PShape, Shaped
<1>4. \A a : PAdmits(a) => PAdmits(a)'
  BY <1>1, <1>3 DEF PAdmits
<1>5. PWithin'
  BY <1>1, <1>2, <1>4 DEF PWithin
<1> QED
  BY <1>3, <1>5 DEF PInv

LEMMA PRestart == ASSUME PInv, P!Restart PROVE PInv'
<1>1. /\ calls' \in Sessions["parallel"] /\ call' = NoCall /\ todo' = <<>> /\ pins' = pins
      /\ port' = [port EXCEPT !.out = FALSE] /\ chip' = [chip EXCEPT !.busy = FALSE]
  BY DEF P!Restart, P!NoCall, P!Call, NoCall, Call
<1>2. PShape
  BY DEF PInv
<1>3. PShape' /\ ~chip'.busy
  BY <1>1, <1>2 DEF PShape, Shaped
<1>4. PBetween'
  BY <1>1, <1>3 DEF PBetween
<1> QED
  BY <1>3, <1>4 DEF PInv

LEMMA PStays ==
    ASSUME PInv, UNCHANGED <<calls, call, todo, pins, port, chip>>
    PROVE  PInv'
<1>1. \A a : PAdmits(a) => PAdmits(a)'
  BY DEF PAdmits
<1>2. PShape => PShape'
  BY DEF PShape
<1>3. PBetween => PBetween'
  BY DEF PBetween
<1>4. PWithin => PWithin'
  BY <1>1 DEF PWithin
<1> QED
  BY <1>2, <1>3, <1>4 DEF PInv

LEMMA PNext == ASSUME PInv, P!Next PROVE PInv'
<1>1. CASE P!Done
  BY <1>1, PStays DEF P!Done, P!vars
<1> QED
  BY <1>1, PCallNext, PReturn, PSetPins, PPulse, POthers, PReady, PRestart DEF P!Next, P!Program

LEMMA PInit == ASSUME P!Init PROVE PInv
<1>1. /\ calls \in Sessions["parallel"] /\ call = NoCall /\ todo = <<>>
      /\ pins = [P!PinsLow EXCEPT !.oeb = 0] /\ port = [out |-> FALSE, data |-> 0]
      /\ chip = [P!Chip EXCEPT !.mem.flash = [i \in DOMAIN @ |-> 0]]
  BY DEF P!Init, P!NoCall, P!Call, NoCall, Call
<1>2. Shaped(chip) /\ ~chip.early /\ ~chip.busy
  <2> DEFINE m == [P!Factory EXCEPT !.flash = [i \in DOMAIN @ |-> 0]]
  <2>1. chip = [mem |-> m, eng |-> P!Engine, busy |-> FALSE, early |-> FALSE, out |-> 0]
    BY <1>1 DEF P!Chip
  <2> HIDE DEF m
  <2> QED
    BY <2>1 DEF Shaped
<1>3. PShape
  BY <1>1, <1>2 DEF PShape, P!PinsLow
<1>4. PBetween
  BY <1>1, <1>2 DEF PBetween
<1> QED
  BY <1>3, <1>4 DEF PInv

LEMMA PSafe == ASSUME PInv PROVE P!LoadsDriven /\ P!NeverWhileBusy
<1>1. ASSUME todo # <<>>, P!step = "xtal1" PROVE port.out /\ pins.oeb = 1
  <2>1. PWithin
    BY <1>1 DEF PInv, PBetween
  <2>2. PICK a \in PStates, e \in {0, 1} : Runs(PRel, todo, a, PAt(1, e, 0)) /\ PAdmits(a)
    BY <2>1 DEF PWithin
  <2>3. PICK c \in PStates : PStep(a, Head(todo)[1], Head(todo)[2], c)
    BY <1>1, <2>2, PFirst
  <2>4. a.out = 1 /\ a.oeb = 1
    BY <1>1, <2>3 DEF PStep, P!step
  <2> QED
    BY <2>2, <2>4 DEF PAdmits
<1> QED
  BY <1>1 DEF PInv, PShape, P!LoadsDriven, P!NeverWhileBusy

-----------------------------------------------------------------------------
(* The serial programmer in a session: how many bits of an instruction the   *)
(* target has taken, which instruction it is, whether the target may still   *)
(* be busy, and whether rd becomes (1) or is (2) the answer to a poll.       *)

OneBit == {0, 1}

LEMMA UpTo == ASSUME NEW n \in Nat PROVE \A v : v \in 0..n <=> v \in Nat /\ v <= n
  OBVIOUS

LEMMA InByte == \A v : v \in Byte <=> v \in Nat /\ v <= 255
<1>1. 255 \in Nat
  OBVIOUS
<1> QED
  BY <1>1, UpTo, Zenon DEF Byte

LEMMA Powers == ASSUME NEW i \in 0..7 PROVE 2^i \in Nat \ {0}
<1>1. i = 0 => 2^i = 1
  OBVIOUS
<1>2. i = 1 => 2^i = 2
  OBVIOUS
<1>3. i = 2 => 2^i = 4
  OBVIOUS
<1>4. i = 3 => 2^i = 8
  OBVIOUS
<1>5. i = 4 => 2^i = 16
  OBVIOUS
<1>6. i = 5 => 2^i = 32
  OBVIOUS
<1>7. i = 6 => 2^i = 64
  OBVIOUS
<1>8. i = 7 => 2^i = 128
  OBVIOUS
<1> QED
  BY <1>1, <1>2, <1>3, <1>4, <1>5, <1>6, <1>7, <1>8

LEMMA BitTyped == ASSUME NEW w \in Nat, NEW i \in 0..7 PROVE S!Bit(w, i) \in OneBit
<1>1. 2^i \in Nat \ {0}
  BY Powers
<1> DEFINE p == 2^i
<1>2. p \in Nat \ {0}
  BY <1>1
<1> HIDE DEF p
<1>3. (w \div p) \in Nat
  BY <1>2
<1>4. (w \div p) % 2 \in OneBit
  BY <1>3 DEF OneBit
<1> QED
  BY <1>4 DEF S!Bit, p

LEMMA BitsTyped ==
    ASSUME NEW w \in Nat
    PROVE  /\ S!Bits(w) \in Seq(OneBit) /\ Len(S!Bits(w)) = 8
           /\ \A i \in 1..8 : S!Bits(w)[i] = S!Bit(w, 8 - i) /\ S!Bits(w)[i] \in OneBit
<1>1. \A i \in 1..8 : 8 - i \in 0..7
  OBVIOUS
<1>2. \A i \in 1..8 : S!Bit(w, 8 - i) \in OneBit
  BY <1>1, BitTyped
<1> DEFINE s == [i \in 1..8 |-> S!Bit(w, 8 - i)]
<1>3. s \in [1..8 -> OneBit]
  BY <1>2
<1>4. s \in Seq(OneBit) /\ Len(s) = 8
  BY <1>3
<1> QED
  BY <1>2, <1>4 DEF S!Bits

\* Whatever is sent, it takes eight bits.
LEMMA BitsLong == ASSUME NEW w PROVE Len(S!Bits(w)) = 8 /\ \E U : S!Bits(w) \in Seq(U)
<1> DEFINE U == {S!Bit(w, 8 - i) : i \in 1..8}
           s == [i \in 1..8 |-> S!Bit(w, 8 - i)]
<1>1. s \in [1..8 -> U]
  OBVIOUS
<1> HIDE DEF U
<1>2. s \in Seq(U) /\ Len(s) = 8
  BY <1>1
<1> QED
  BY <1>2 DEF S!Bits

LEMMA Nibble ==
    ASSUME NEW p \in Nat, NEW q \in Nat, NEW r \in Nat, NEW s \in Nat, NEW t \in Nat,
           NEW b \in Nat, NEW c \in Nat, NEW d \in Nat, NEW e \in Nat,
           p = 2 * q + b, q = 2 * r + c, r = 2 * s + d, s = 2 * t + e
    PROVE  p = 16 * t + (8 * e + 4 * d + 2 * c + b)
  OBVIOUS

LEMMA SameByte ==
    ASSUME NEW w \in Byte, NEW s \in Seq(OneBit), Len(s) >= 8, \A i \in 1..8 : s[i] = S!Bits(w)[i]
    PROVE  S!ByteOf(s, 1) = w
<1>1. w \in Nat /\ w < 256
  BY InByte
<1> DEFINE b(i) == (w \div i) % 2
<1>2. /\ s[1] = b(128) /\ s[2] = b(64) /\ s[3] = b(32) /\ s[4] = b(16)
      /\ s[5] = b(8) /\ s[6] = b(4) /\ s[7] = b(2) /\ s[8] = b(1)
  <2>1. 2^0 = 1 /\ 2^1 = 2 /\ 2^2 = 4 /\ 2^3 = 8 /\ 2^4 = 16 /\ 2^5 = 32 /\ 2^6 = 64 /\ 2^7 = 128
    OBVIOUS
  <2>2. \A i \in 1..8 : s[i] = (w \div 2^(8 - i)) % 2
    BY <1>1, BitsTyped DEF S!Bit
  <2>3. /\ s[1] = (w \div 2^7) % 2 /\ s[2] = (w \div 2^6) % 2 /\ s[3] = (w \div 2^5) % 2
        /\ s[4] = (w \div 2^4) % 2 /\ s[5] = (w \div 2^3) % 2 /\ s[6] = (w \div 2^2) % 2
        /\ s[7] = (w \div 2^1) % 2 /\ s[8] = (w \div 2^0) % 2
    <3>1. 8 - 1 = 7 /\ 8 - 2 = 6 /\ 8 - 3 = 5 /\ 8 - 4 = 4 /\ 8 - 5 = 3 /\ 8 - 6 = 2 /\ 8 - 7 = 1 /\ 8 - 8 = 0
      OBVIOUS
    <3> QED
      BY <2>2, <3>1
  <2> QED
    BY <2>1, <2>3
<1>3. 16 * (8 * b(128) + 4 * b(64) + 2 * b(32) + b(16)) + (8 * b(8) + 4 * b(4) + 2 * b(2) + b(1)) = w
  <2>1. PICK p, q, r, s0, t, u, y, z \in Nat : /\ p = w /\ q = w \div 2 /\ r = w \div 4 /\ s0 = w \div 8
                 /\ t = w \div 16 /\ u = w \div 32 /\ y = w \div 64 /\ z = w \div 128
    BY <1>1
  <2>2. p = 2 * q + b(1) /\ q = 2 * r + b(2) /\ r = 2 * s0 + b(4) /\ s0 = 2 * t + b(8)
    BY <1>1, <2>1, SMTT(60)
  <2>3. t = 2 * u + b(16) /\ u = 2 * y + b(32) /\ y = 2 * z + b(64) /\ z = 2 * 0 + b(128)
    BY <1>1, <2>1, SMTT(60)
  <2>4. /\ b(1) \in Nat /\ b(2) \in Nat /\ b(4) \in Nat /\ b(8) \in Nat
        /\ b(16) \in Nat /\ b(32) \in Nat /\ b(64) \in Nat /\ b(128) \in Nat
    BY <1>1
  <2> DEFINE e == b(1)
             f == b(2)
             g == b(4)
             h == b(8)
             k == b(16)
             l == b(32)
             m == b(64)
             n == b(128)
  <2> HIDE DEF e, f, g, h, k, l, m, n
  <2>5. 0 \in Nat
    OBVIOUS
  <2>6. p = 16 * t + (8 * h + 4 * g + 2 * f + e)
    <3>1. p = 2 * q + e /\ q = 2 * r + f /\ r = 2 * s0 + g /\ s0 = 2 * t + h
      BY <2>2, Zenon DEF e, f, g, h
    <3>2. e \in Nat /\ f \in Nat /\ g \in Nat /\ h \in Nat
      BY <2>4, Zenon DEF e, f, g, h
    <3> QED
      BY <3>1, <3>2, Nibble
  <2>7. t = 16 * 0 + (8 * n + 4 * m + 2 * l + k)
    <3>1. t = 2 * u + k /\ u = 2 * y + l /\ y = 2 * z + m /\ z = 2 * 0 + n
      BY <2>3, Zenon DEF k, l, m, n
    <3>2. k \in Nat /\ l \in Nat /\ m \in Nat /\ n \in Nat
      BY <2>4, Zenon DEF k, l, m, n
    <3> QED
      BY <2>5, <3>1, <3>2, Nibble
  <2>8. t = 8 * n + 4 * m + 2 * l + k
    <3>1. k \in Nat /\ l \in Nat /\ m \in Nat /\ n \in Nat
      BY <2>4, Zenon DEF k, l, m, n
    <3> QED
      BY <2>7, <3>1
  <2>9. 16 * (8 * n + 4 * m + 2 * l + k) + (8 * h + 4 * g + 2 * f + e) = w
    BY <2>1, <2>6, <2>8
  <2> QED
    BY <2>9, Zenon DEF e, f, g, h, k, l, m, n
<1> HIDE DEF b
<1> DEFINE u == SubSeq(s, 1, 8)
<1>4. \A i \in 1..8 : u[i] = s[i]
  OBVIOUS
<1>5. S!ByteOf(s, 1) = S!Number(u)
  BY DEF S!ByteOf
<1> HIDE DEF u
<1>6. S!Number(u) = 16 * (8 * u[1] + 4 * u[2] + 2 * u[3] + u[4]) + (8 * u[5] + 4 * u[6] + 2 * u[7] + u[8])
  BY DEF S!Number
<1> QED
  BY <1>2, <1>3, <1>4, <1>5, <1>6, SMTT(60)


SStates == [n : 0..31, op : Byte, may : OneBit, g : 0..2]

SAt(n, o, m, g) == [n |-> n, op |-> o, may |-> m, g |-> g]

\* First bytes of the instructions that change the target's memories.
Changing == {172, 192, 193, 194, 64, 72, 76}

SClocked(a, b) ==
    /\ b.n = IF a.n = 31 THEN 0 ELSE a.n + 1
    /\ b.op = a.op
    /\ b.g = IF a.n < 24 THEN 0 ELSE IF a.n < 31 THEN a.g ELSE IF a.g = 1 THEN 2 ELSE 0
    /\ IF a.n = 31 /\ a.op \in Changing THEN a.may = 0 /\ b.may = 1 ELSE b.may = a.may

SStep(a, f, v, b) ==
    \/ /\ f = "zero" /\ a.n \in {0, 8, 16, 24}
       /\ b.n = a.n /\ b.may = a.may /\ (a.n > 0 => b.op = a.op)
       /\ b.g = IF a.n = 24 /\ a.op = 240 THEN 1 ELSE 0
    \/ f = "mosi" /\ v \in OneBit /\ (a.n < 8 => v = S!Bits(a.op)[a.n + 1]) /\ SClocked(a, b)
    \/ f = "clock" /\ a.n >= 8 /\ SClocked(a, b)
    \/ f \in {"keep", "high"} /\ b = a
    \/ f = "busy" /\ a.n = 0 /\ a.op = 240 /\ a.g = 2 /\ b = SAt(0, 240, 0, 2)

SRel == {r \in SStates \X Steps \X SStates : SStep(r[1], r[2][1], r[2][2], r[3])}

LEMMA SOne ==
    ASSUME NEW a \in SStates, NEW b \in SStates, NEW f \in Names, NEW v \in Nat, SStep(a, f, v, b)
    PROVE  Runs(SRel, <<<<f, v>>>>, a, b)
<1>1. <<f, v>> \in Steps /\ <<f, v>>[1] = f /\ <<f, v>>[2] = v
  BY DEF Steps
<1>2. <<a, <<f, v>>, b>> \in SRel
  BY <1>1 DEF SRel
<1> QED
  BY <1>1, <1>2, RunsOne

LEMMA SFields ==
    ASSUME NEW n \in 0..31, NEW o \in Byte, NEW m \in OneBit, NEW g \in 0..2
    PROVE  /\ SAt(n, o, m, g) \in SStates
           /\ SAt(n, o, m, g).n = n /\ SAt(n, o, m, g).op = o
           /\ SAt(n, o, m, g).may = m /\ SAt(n, o, m, g).g = g
  BY DEF SAt, SStates

LEMMA ElementOf == ASSUME NEW T, NEW s \in Seq(T), NEW i \in 1..Len(s) PROVE s[i] \in T
  OBVIOUS

\* Eight pulses on SCK.
LEMMA SEight ==
    ASSUME NEW k \in {0, 8, 16, 24}, NEW o \in Byte, NEW m \in OneBit, NEW h \in 0..2, k < 24 => h = 0,
           NEW s \in Seq(Steps), Len(s) = 8,
           \A i \in 1..8 : \/ s[i][1] = "mosi" /\ s[i][2] \in OneBit /\ (k = 0 => s[i][2] = S!Bits(o)[i])
                           \/ s[i][1] = "clock" /\ k > 0,
           NEW b \in SStates, SClocked(SAt(k + 7, o, m, h), b)
    PROVE  Runs(SRel, s, SAt(k, o, m, h), b)
<1> DEFINE F(i) == IF i = 9 THEN b ELSE SAt(k + i - 1, o, m, h)
           t == [i \in 1..9 |-> F(i)]
<1>1. \A i \in 1..8 : F(i) = SAt(k + i - 1, o, m, h)
  <2>1. \A i \in 1..8 : i # 9
    OBVIOUS
  <2> QED
    BY <2>1, Zenon
<1>2. F(9) = b
  OBVIOUS
<1> HIDE DEF F
<1>3. \A i \in 1..9 : t[i] = F(i)
  OBVIOUS
<1>4. \A i \in 1..8 : i \in 1..9 /\ i + 1 \in 1..9 /\ k + i - 1 \in 0..31 /\ (k + i - 1 < 24 => h = 0)
  OBVIOUS
<1> HIDE DEF t
<1>5. t[1] = SAt(k, o, m, h) /\ t[9] = b
  <2>1. k + 1 - 1 = k /\ 1 \in 1..8 /\ 1 \in 1..9 /\ 9 \in 1..9
    OBVIOUS
  <2>2. F(1) = SAt(k, o, m, h)
    BY <1>1, <2>1
  <2> QED
    BY <1>2, <1>3, <2>1, <2>2
<1>6. \A i \in 1..8 : t[i] = SAt(k + i - 1, o, m, h)
  BY <1>1, <1>3, <1>4
<1>7. \A i \in 1..8 : t[i] \in SStates /\ t[i].n = k + i - 1 /\ t[i].op = o /\ t[i].may = m /\ t[i].g = h
  <2> TAKE i \in 1..8
  <2> DEFINE x == k + i - 1
  <2>1. x \in 0..31 /\ t[i] = SAt(x, o, m, h)
    BY <1>4, <1>6
  <2> HIDE DEF x
  <2> DEFINE a == SAt(x, o, m, h)
  <2>a. a \in SStates /\ a.n = x /\ a.op = o /\ a.may = m /\ a.g = h
    <3>1. x \in 0..31
      BY <2>1
    <3> QED
      BY <3>1 DEF SAt, SStates
  <2> HIDE DEF a
  <2>b. t[i] = a
    BY <2>1 DEF a
  <2>2. t[i] \in SStates /\ t[i].n = x /\ t[i].op = o /\ t[i].may = m /\ t[i].g = h
    BY <2>a, <2>b
  <2> QED
    BY <2>2 DEF x
<1>8. \A i \in 1..8 : t[i + 1] \in SStates
  <2> TAKE i \in 1..8
  <2>1. CASE i = 8
    BY <1>5, <2>1
  <2>2. CASE i # 8
    <3>1. i + 1 \in 1..8
      BY <2>2
    <3> QED
      BY <1>7, <3>1
  <2> QED
    BY <2>1, <2>2
<1>9. \A i \in 1..8 : SClocked(t[i], t[i + 1])
  <2> TAKE i \in 1..8
  <2>1. CASE i = 8
    <3>1. 8 + 1 = 9 /\ k + 8 - 1 = k + 7 /\ 8 \in 1..8
      OBVIOUS
    <3>2. t[8] = SAt(k + 7, o, m, h)
      BY <1>6, <3>1
    <3> QED
      BY <1>5, <2>1, <3>1, <3>2
  <2>2. CASE i # 8
    <3>1. i + 1 \in 1..8 /\ k + (i + 1) - 1 = (k + i - 1) + 1 /\ k + i - 1 # 31 /\ k + i - 1 < 31
      BY <2>2, SMTT(60)
    <3>2. /\ t[i].n = k + i - 1 /\ t[i].op = o /\ t[i].may = m /\ t[i].g = h
          /\ t[i + 1].n = (k + i - 1) + 1 /\ t[i + 1].op = o /\ t[i + 1].may = m /\ t[i + 1].g = h
      BY <1>7, <3>1
    <3>3. t[i].n < 24 => h = 0
      BY <1>4, <3>2
    <3> QED
      BY <3>1, <3>2, <3>3 DEF SClocked
  <2> QED
    BY <2>1, <2>2
<1>10. \A i \in 1..8 : <<t[i], s[i], t[i + 1]>> \in SRel
  <2> TAKE i \in 1..8
  <2>1. s[i] \in Steps
    <3>1. i \in 1..Len(s)
      OBVIOUS
    <3> QED
      BY <3>1, ElementOf
  <2>2. t[i] \in SStates /\ t[i + 1] \in SStates /\ SClocked(t[i], t[i + 1])
    BY <1>7, <1>8, <1>9
  <2>3. SStep(t[i], s[i][1], s[i][2], t[i + 1])
    <3>1. CASE s[i][1] = "mosi" /\ s[i][2] \in OneBit /\ (k = 0 => s[i][2] = S!Bits(o)[i])
      <4>1. k + i - 1 < 8 => k = 0 /\ (k + i - 1) + 1 = i
        BY SMTT(60)
      <4>2. t[i].n = k + i - 1 /\ t[i].op = o
        BY <1>7
      <4>3. t[i].n < 8 => s[i][2] = S!Bits(t[i].op)[t[i].n + 1]
        BY <3>1, <4>1, <4>2
      <4> QED
        BY <2>2, <3>1, <4>3 DEF SStep
    <3>2. CASE s[i][1] = "clock" /\ k > 0
      <4>1. t[i].n >= 8
        BY <1>7, <3>2, SMTT(60)
      <4> QED
        BY <2>2, <3>2, <4>1 DEF SStep
    <3> QED
      BY <3>1, <3>2
  <2> DEFINE r == <<t[i], s[i], t[i + 1]>>
  <2>4. r[1] = t[i] /\ r[2] = s[i] /\ r[3] = t[i + 1] /\ r \in SStates \X Steps \X SStates
    BY <2>1, <2>2
  <2> HIDE DEF r
  <2>5. r \in SRel
    BY <2>3, <2>4 DEF SRel
  <2> QED
    BY <2>5 DEF r
<1>11. 8 + 1 = 9
  OBVIOUS
<1> QED
  BY <1>5, <1>10, <1>11 DEF Runs

LEMMA BitSteps ==
    ASSUME NEW w \in Nat
    PROVE  LET s == [i \in 1..8 |-> <<"mosi", S!Bits(w)[i]>>]
           IN /\ s \in Seq(Steps) /\ Len(s) = 8
              /\ \A i \in 1..8 : s[i][1] = "mosi" /\ s[i][2] = S!Bits(w)[i] /\ s[i][2] \in OneBit
<1>1. \A i \in 1..8 : S!Bits(w)[i] \in OneBit
  BY BitsTyped, ZenonT(60)
<1>2. OneBit \subseteq Nat
  BY DEF OneBit
<1>3. \A i \in 1..8 : S!Bits(w)[i] \in OneBit /\ S!Bits(w)[i] \in Nat
  BY <1>1, <1>2, ZenonT(60)
<1>4. "mosi" \in Names
  BY DEF Names
<1> DEFINE s == [i \in 1..8 |-> <<"mosi", S!Bits(w)[i]>>]
<1>5. s \in [1..8 -> Steps]
  BY <1>3, <1>4 DEF Steps
<1>6. s \in Seq(Steps) /\ Len(s) = 8
  BY <1>5
<1> QED
  BY <1>3, <1>6

LEMMA ClockSteps ==
    LET s == [i \in 1..8 |-> <<"clock", 0>>]
    IN s \in Seq(Steps) /\ Len(s) = 8 /\ \A i \in 1..8 : s[i][1] = "clock"
<1> DEFINE s == [i \in 1..8 |-> <<"clock", 0>>]
<1>1. "clock" \in Names
  BY DEF Names
<1>2. s \in [1..8 -> Steps]
  BY <1>1 DEF Steps
<1> QED
  BY <1>2

LEMMA SZero ==
    ASSUME NEW k \in {0, 8, 16, 24}, NEW o \in Byte, NEW p \in Byte, NEW m \in OneBit, NEW g \in 0..2,
           k > 0 => p = o
    PROVE  Runs(SRel, <<<<"zero", 0>>>>, SAt(k, o, m, g), SAt(k, p, m, IF k = 24 /\ o = 240 THEN 1 ELSE 0))
<1> DEFINE h == IF k = 24 /\ o = 240 THEN 1 ELSE 0
<1>1. k \in 0..31 /\ h \in 0..2
  OBVIOUS
<1> HIDE DEF h
<1>2. /\ SAt(k, o, m, g) \in SStates /\ SAt(k, o, m, g).n = k /\ SAt(k, o, m, g).op = o
      /\ SAt(k, o, m, g).may = m
      /\ SAt(k, p, m, h) \in SStates /\ SAt(k, p, m, h).n = k /\ SAt(k, p, m, h).op = p
      /\ SAt(k, p, m, h).may = m /\ SAt(k, p, m, h).g = h
  BY <1>1, SFields, SMTT(60)
<1>3. SStep(SAt(k, o, m, g), "zero", 0, SAt(k, p, m, h))
  BY <1>2 DEF SStep, h
<1>4. "zero" \in Names /\ 0 \in Nat
  BY DEF Names
<1>5. Runs(SRel, <<<<"zero", 0>>>>, SAt(k, o, m, g), SAt(k, p, m, h))
  BY <1>2, <1>3, <1>4, SOne
<1> QED
  BY <1>5 DEF h

\* The first three bytes of an instruction, and the last of one that is not the poll.
LEMMA SBytes ==
    ASSUME NEW o \in Byte, NEW m \in OneBit, NEW g \in 0..2, NEW v \in Nat
    PROVE  /\ \A p \in Byte : Runs(SRel, S!write_byte(p), SAt(0, o, m, g), SAt(8, p, m, 0))
           /\ Runs(SRel, S!write_byte(v), SAt(8, o, m, 0), SAt(16, o, m, 0))
           /\ Runs(SRel, S!write_byte(v), SAt(16, o, m, 0), SAt(24, o, m, 0))
           /\ o # 240 /\ o \notin Changing
                 => Runs(SRel, S!write_byte(v), SAt(24, o, m, 0), SAt(0, o, m, 0))
           /\ o # 240 /\ o \in Changing /\ m = 0
                 => Runs(SRel, S!write_byte(v), SAt(24, o, m, 0), SAt(0, o, 1, 0))
           /\ o # 240 /\ o \notin Changing
                 => Runs(SRel, S!read_byte, SAt(24, o, m, 0), SAt(0, o, m, 0))
           /\ o = 240 => Runs(SRel, S!read_byte, SAt(24, o, m, 0), SAt(0, o, m, 2))
<1>1. /\ 0 \in 0..2 /\ 1 \in 0..2 /\ 2 \in 0..2 /\ 1 \in OneBit /\ 0 < 24 /\ 8 < 24 /\ 16 < 24
      /\ 0 \in {0, 8, 16, 24} /\ 8 \in {0, 8, 16, 24} /\ 16 \in {0, 8, 16, 24} /\ 24 \in {0, 8, 16, 24}
      /\ 0 \in 0..31 /\ 7 \in 0..31 /\ 8 \in 0..31 /\ 15 \in 0..31 /\ 16 \in 0..31 /\ 23 \in 0..31
      /\ 24 \in 0..31 /\ 31 \in 0..31
      /\ 0 + 7 = 7 /\ 8 + 7 = 15 /\ 16 + 7 = 23 /\ 24 + 7 = 31 /\ 8 > 0 /\ 16 > 0 /\ 24 > 0
  BY DEF OneBit
<1> DEFINE s(w) == [i \in 1..8 |-> <<"mosi", S!Bits(w)[i]>>]
           c == [i \in 1..8 |-> <<"clock", 0>>]
           z == <<<<"zero", 0>>>>
<1>2. \A w \in Nat : /\ s(w) \in Seq(Steps) /\ Len(s(w)) = 8
                     /\ \A i \in 1..8 : s(w)[i][1] = "mosi" /\ s(w)[i][2] = S!Bits(w)[i] /\ s(w)[i][2] \in OneBit
  BY BitSteps
<1>3. c \in Seq(Steps) /\ Len(c) = 8 /\ \A i \in 1..8 : c[i][1] = "clock"
  BY ClockSteps
<1>4. (\A w : S!write_byte(w) = z \o s(w)) /\ S!read_byte = z \o c
  BY DEF S!write_byte, S!read_byte
<1> HIDE DEF s, c, z
<1>5. ASSUME NEW p \in Byte
      PROVE  Runs(SRel, S!write_byte(p), SAt(0, o, m, g), SAt(8, p, m, 0))
  <2>1. p \in Nat
    BY InByte
  <2>2. Runs(SRel, z, SAt(0, o, m, g), SAt(0, p, m, 0))
    BY <1>1, SZero DEF z
  <2>3. SClocked(SAt(7, p, m, 0), SAt(8, p, m, 0)) /\ SAt(8, p, m, 0) \in SStates
    BY <1>1, SFields, SMTT(60) DEF SClocked
  <2>4. Runs(SRel, s(p), SAt(0, p, m, 0), SAt(8, p, m, 0))
    BY <1>1, <1>2, <2>1, <2>3, SEight, SMTT(60)
  <2> QED
    BY <1>4, <2>2, <2>4, RunsThen
<1>6. ASSUME NEW k \in {8, 16}
      PROVE  Runs(SRel, S!write_byte(v), SAt(k, o, m, 0), SAt(k + 8, o, m, 0))
  <2>1. k \in {0, 8, 16, 24} /\ k > 0 /\ k # 24 /\ k < 24 /\ k + 7 \in 0..31 /\ k + 8 \in 0..31 /\ (k + 7) + 1 = k + 8
        /\ k + 7 # 31 /\ k + 7 < 24
    OBVIOUS
  <2>2. Runs(SRel, z, SAt(k, o, m, 0), SAt(k, o, m, 0))
    BY <1>1, <2>1, SZero DEF z
  <2>3. SClocked(SAt(k + 7, o, m, 0), SAt(k + 8, o, m, 0)) /\ SAt(k + 8, o, m, 0) \in SStates
    BY <1>1, <2>1, SFields, SMTT(60) DEF SClocked
  <2>4. Runs(SRel, s(v), SAt(k, o, m, 0), SAt(k + 8, o, m, 0))
    BY <1>1, <1>2, <2>1, <2>3, SEight, SMTT(60)
  <2> QED
    BY <1>4, <2>2, <2>4, RunsThen
<1>7. ASSUME o # 240, NEW n \in OneBit, IF o \in Changing THEN m = 0 /\ n = 1 ELSE n = m
      PROVE  /\ Runs(SRel, S!write_byte(v), SAt(24, o, m, 0), SAt(0, o, n, 0))
             /\ Runs(SRel, S!read_byte, SAt(24, o, m, 0), SAt(0, o, n, 0))
  <2>1. Runs(SRel, z, SAt(24, o, m, 0), SAt(24, o, m, 0))
    BY <1>1, <1>7, SZero DEF z
  <2>2. SClocked(SAt(31, o, m, 0), SAt(0, o, n, 0)) /\ SAt(0, o, n, 0) \in SStates
    BY <1>1, <1>7, SFields, SMTT(60) DEF SClocked
  <2>3. Runs(SRel, s(v), SAt(24, o, m, 0), SAt(0, o, n, 0))
    BY <1>1, <1>2, <2>2, SEight, SMTT(60)
  <2>4. Runs(SRel, c, SAt(24, o, m, 0), SAt(0, o, n, 0))
    BY <1>1, <1>3, <2>2, SEight, ZenonT(60)
  <2> QED
    BY <1>4, <2>1, <2>3, <2>4, RunsThen, ZenonT(60)
<1>8. ASSUME o = 240
      PROVE  Runs(SRel, S!read_byte, SAt(24, o, m, 0), SAt(0, o, m, 2))
  <2>1. Runs(SRel, z, SAt(24, o, m, 0), SAt(24, o, m, 1))
    BY <1>1, <1>8, SZero DEF z
  <2>2. o \notin Changing
    BY <1>8 DEF Changing
  <2>3. SClocked(SAt(31, o, m, 1), SAt(0, o, m, 2)) /\ SAt(0, o, m, 2) \in SStates
    BY <1>1, <2>2, SFields, SMTT(60) DEF SClocked
  <2>4. Runs(SRel, c, SAt(24, o, m, 1), SAt(0, o, m, 2))
    BY <1>1, <1>3, <2>3, SEight, SMTT(60)
  <2> QED
    BY <1>4, <2>1, <2>4, RunsThen
<1>9. 8 + 8 = 16 /\ 16 + 8 = 24
  OBVIOUS
<1>10. Runs(SRel, S!write_byte(v), SAt(8, o, m, 0), SAt(16, o, m, 0))
  BY <1>6, <1>9
<1>11. Runs(SRel, S!write_byte(v), SAt(16, o, m, 0), SAt(24, o, m, 0))
  BY <1>6, <1>9
<1> QED
  BY <1>1, <1>5, <1>7, <1>8, <1>10, <1>11

\* From wherever the instruction before left the target, s leads to where the
\* next one may begin.
SWhole(s) ==
    \A o \in Byte, g \in 0..2 : \E p \in Byte, h \in 0..2 : Runs(SRel, s, SAt(0, o, 0, g), SAt(0, p, 0, h))

LEMMA SWholeThen == ASSUME NEW s, NEW u, SWhole(s), SWhole(u) PROVE SWhole(s \o u)
<1> SUFFICES ASSUME NEW o \in Byte, NEW g \in 0..2
             PROVE  \E p \in Byte, h \in 0..2 : Runs(SRel, s \o u, SAt(0, o, 0, g), SAt(0, p, 0, h))
  BY DEF SWhole
<1>1. PICK p \in Byte, h \in 0..2 : Runs(SRel, s, SAt(0, o, 0, g), SAt(0, p, 0, h))
  BY DEF SWhole
<1>2. PICK q \in Byte, k \in 0..2 : Runs(SRel, u, SAt(0, p, 0, h), SAt(0, q, 0, k))
  BY DEF SWhole
<1>3. Runs(SRel, s \o u, SAt(0, o, 0, g), SAt(0, q, 0, k))
  BY <1>1, <1>2, RunsThen
<1> QED
  BY <1>3

\* The bytes of the hexadecimal constants.
LEMMA Hexes ==
    /\ S!H.x20 = 32 /\ S!H.x28 = 40 /\ S!H.x30 = 48 /\ S!H.x38 = 56 /\ S!H.x40 = 64 /\ S!H.x48 = 72
    /\ S!H.x4C = 76 /\ S!H.x4D = 77 /\ S!H.x50 = 80 /\ S!H.x53 = 83 /\ S!H.x58 = 88 /\ S!H.x80 = 128
    /\ S!H.xA0 = 160 /\ S!H.xA4 = 164 /\ S!H.xA8 = 168 /\ S!H.xAC = 172 /\ S!H.xC0 = 192
    /\ S!H.xC1 = 193 /\ S!H.xC2 = 194 /\ S!H.xE0 = 224 /\ S!H.xF0 = 240
  BY DEF S!H

LEMMA SThree ==
    ASSUME NEW o \in Byte, NEW p \in Byte, NEW m \in OneBit, NEW g \in 0..2, NEW v \in Nat, NEW w \in Nat
    PROVE  Runs(SRel, S!write_byte(p) \o S!write_byte(v) \o S!write_byte(w), SAt(0, o, m, g), SAt(24, p, m, 0))
<1>1. 0 \in 0..2
  OBVIOUS
<1>2. Runs(SRel, S!write_byte(p), SAt(0, o, m, g), SAt(8, p, m, 0))
  BY SBytes
<1>3. Runs(SRel, S!write_byte(v), SAt(8, p, m, 0), SAt(16, p, m, 0))
  BY <1>1, SBytes
<1>4. Runs(SRel, S!write_byte(w), SAt(16, p, m, 0), SAt(24, p, m, 0))
  BY <1>1, SBytes
<1>5. Runs(SRel, S!write_byte(p) \o S!write_byte(v), SAt(0, o, m, g), SAt(16, p, m, 0))
  BY <1>2, <1>3, RunsThen
<1> QED
  BY <1>4, <1>5, RunsThen

LEMMA SRead ==
    ASSUME NEW o \in Byte, NEW p \in Byte, NEW m \in OneBit, NEW g \in 0..2, NEW v \in Nat, NEW w \in Nat,
           p \notin Changing
    PROVE  \E h \in 0..2 : /\ p = 240 => h = 2
                           /\ Runs(SRel, S!read_instruction(p, v, w), SAt(0, o, m, g), SAt(0, p, m, h))
<1>1. 0 \in 0..2 /\ 2 \in 0..2 /\ 0 \in Nat
  OBVIOUS
<1> DEFINE s == S!write_byte(p) \o S!write_byte(v) \o S!write_byte(w)
<1>2. Runs(SRel, s, SAt(0, o, m, g), SAt(24, p, m, 0))
  BY SThree
<1>3. S!read_instruction(p, v, w) = s \o S!read_byte
  BY DEF S!read_instruction
<1> HIDE DEF s
<1>4. CASE p = 240
  <2>1. Runs(SRel, S!read_byte, SAt(24, p, m, 0), SAt(0, p, m, 2))
    BY <1>1, <1>4, SBytes
  <2>2. Runs(SRel, S!read_instruction(p, v, w), SAt(0, o, m, g), SAt(0, p, m, 2))
    BY <1>2, <1>3, <2>1, RunsThen
  <2> QED
    BY <1>1, <2>2
<1>5. CASE p # 240
  <2>1. Runs(SRel, S!read_byte, SAt(24, p, m, 0), SAt(0, p, m, 0))
    BY <1>1, <1>5, SBytes
  <2>2. Runs(SRel, S!read_instruction(p, v, w), SAt(0, o, m, g), SAt(0, p, m, 0))
    BY <1>2, <1>3, <2>1, RunsThen
  <2> QED
    BY <1>1, <1>5, <2>2
<1> QED
  BY <1>4, <1>5

LEMMA SPoll ==
    ASSUME NEW o \in Byte, NEW m \in OneBit, NEW g \in 0..2
    PROVE  Runs(SRel, S!poll_busy, SAt(0, o, m, g), SAt(0, 240, m, 2))
<1>1. 240 \in Byte /\ 0 \in Nat /\ 240 \notin Changing
  BY InByte DEF Changing
<1>2. S!poll_busy = S!read_instruction(240, 0, 0)
  BY Hexes DEF S!poll_busy
<1> QED
  BY <1>1, <1>2, SRead

LEMMA SComplete ==
    ASSUME NEW o \in Byte, NEW p \in Byte, NEW g \in 0..2, NEW u \in Nat, NEW v \in Nat, NEW w \in Nat, p # 240
    PROVE  Runs(SRel, S!write_n_complete_instruction(p, u, v, w), SAt(0, o, 0, g), SAt(0, 240, 0, 2))
<1>1. 0 \in 0..2 /\ 2 \in 0..2 /\ 0 \in Nat /\ 1 \in Nat /\ 0 \in OneBit /\ 1 \in OneBit /\ 240 \in Byte /\ 0 \in 0..31
  BY InByte DEF OneBit
<1> DEFINE s == S!write_byte(p) \o S!write_byte(u) \o S!write_byte(v)
           c == <<<<"busy", 1>>>>
<1>2. Runs(SRel, s, SAt(0, o, 0, g), SAt(24, p, 0, 0))
  BY <1>1, SThree
<1>3. /\ S!write_instruction(p, u, v, w) = s \o S!write_byte(w)
      /\ S!write_n_complete_instruction(p, u, v, w) = S!write_instruction(p, u, v, w) \o S!poll_busy \o c
  BY DEF S!write_instruction, S!write_n_complete_instruction
<1> HIDE DEF s
<1>4. PICK m \in OneBit : Runs(SRel, S!write_byte(w), SAt(24, p, 0, 0), SAt(0, p, m, 0))
  <2>1. CASE p \in Changing
    <3>1. Runs(SRel, S!write_byte(w), SAt(24, p, 0, 0), SAt(0, p, 1, 0))
      BY <1>1, <2>1, SBytes
    <3> QED
      BY <1>1, <3>1
  <2>2. CASE p \notin Changing
    <3>1. Runs(SRel, S!write_byte(w), SAt(24, p, 0, 0), SAt(0, p, 0, 0))
      BY <1>1, <2>2, SBytes
    <3> QED
      BY <1>1, <3>1
  <2> QED
    BY <2>1, <2>2
<1>5. Runs(SRel, S!write_instruction(p, u, v, w), SAt(0, o, 0, g), SAt(0, p, m, 0))
  BY <1>2, <1>3, <1>4, RunsThen
<1>6. Runs(SRel, S!poll_busy, SAt(0, p, m, 0), SAt(0, 240, m, 2))
  BY <1>1, SPoll
<1>7. Runs(SRel, c, SAt(0, 240, m, 2), SAt(0, 240, 0, 2))
  <2>1. /\ SAt(0, 240, m, 2) \in SStates /\ SAt(0, 240, m, 2).n = 0 /\ SAt(0, 240, m, 2).op = 240
        /\ SAt(0, 240, m, 2).g = 2 /\ SAt(0, 240, 0, 2) \in SStates
    BY <1>1, SFields
  <2>2. SStep(SAt(0, 240, m, 2), "busy", 1, SAt(0, 240, 0, 2))
    BY <2>1 DEF SStep
  <2>3. "busy" \in Names
    BY DEF Names
  <2> QED
    BY <1>1, <2>1, <2>2, <2>3, SOne
<1> HIDE DEF c
<1>8. Runs(SRel, S!write_instruction(p, u, v, w) \o S!poll_busy, SAt(0, o, 0, g), SAt(0, 240, m, 2))
  BY <1>5, <1>6, RunsThen
<1> QED
  BY <1>3, <1>7, <1>8, RunsThen

\* The parts a function is made of.
LEMMA SParts ==
    /\ SWhole(S!Keep) /\ SWhole(S!KeepHigh)
    /\ \A p \in Byte, v \in Nat, w \in Nat : p \notin Changing => SWhole(S!read_instruction(p, v, w))
    /\ \A p \in Byte, u \in Nat, v \in Nat, w \in Nat : p # 240 => SWhole(S!write_n_complete_instruction(p, u, v, w))
<1>1. /\ 0 \in 0..2 /\ 2 \in 0..2 /\ 0 \in Nat /\ 256 \in Nat /\ 0 \in OneBit /\ 240 \in Byte /\ 0 \in 0..31
      /\ "keep" \in Names /\ "high" \in Names
  BY InByte DEF OneBit, Names
<1>2. ASSUME NEW o \in Byte, NEW g \in 0..2
      PROVE  Runs(SRel, S!Keep, SAt(0, o, 0, g), SAt(0, o, 0, g)) /\ Runs(SRel, S!KeepHigh, SAt(0, o, 0, g), SAt(0, o, 0, g))
  <2>1. SAt(0, o, 0, g) \in SStates
    BY <1>1, SFields, SMTT(60)
  <2>2. SStep(SAt(0, o, 0, g), "keep", 0, SAt(0, o, 0, g)) /\ SStep(SAt(0, o, 0, g), "high", 256, SAt(0, o, 0, g))
    BY DEF SStep
  <2> QED
    BY <1>1, <2>1, <2>2, SOne DEF S!Keep, S!KeepHigh
<1>3. SWhole(S!Keep) /\ SWhole(S!KeepHigh)
  BY <1>2 DEF SWhole
<1>4. ASSUME NEW p \in Byte, NEW v \in Nat, NEW w \in Nat, p \notin Changing
      PROVE  SWhole(S!read_instruction(p, v, w))
  BY <1>1, <1>4, SRead DEF SWhole
<1>5. ASSUME NEW p \in Byte, NEW u \in Nat, NEW v \in Nat, NEW w \in Nat, p # 240
      PROVE  SWhole(S!write_n_complete_instruction(p, u, v, w))
  BY <1>1, <1>5, SComplete DEF SWhole
<1> QED
  BY <1>3, <1>4, <1>5

LEMMA Halves ==
    ASSUME NEW w \in Nat
    PROVE  S!Low(w) \in Nat /\ S!High(w) \in Nat /\ w \div 65536 \in Nat /\ w % 65536 \in Nat
<1> DEFINE k == 65536
<1>1. k \in Nat \ {0}
  OBVIOUS
<1> HIDE DEF k
<1>2. w \div k \in Nat /\ w % k \in Nat
  BY <1>1
<1>3. w \div 65536 \in Nat /\ w % 65536 \in Nat
  BY <1>2 DEF k
<1> QED
  BY <1>3 DEF S!Low, S!High

\* Every function of the library between setup and reset.
LEMMA SBody ==
    ASSUME NEW c, c.fn \in Library["serial"], c.a \in Nat, c.v \in Nat
    PROVE  SWhole(S!Body(c))
<1> DEFINE R(p, v, w) == SWhole(S!read_instruction(p, v, w))
           W(p, u, v, w) == SWhole(S!write_n_complete_instruction(p, u, v, w))
<1>1. /\ 0 \in Nat /\ 1 \in Nat /\ 2 \in Nat /\ 8 \in Nat /\ 128 \in Nat /\ 160 \in Nat /\ 164 \in Nat
      /\ 168 \in Nat /\ 224 \in Nat
  OBVIOUS
<1>2. \A p \in {32, 40, 48, 56, 80, 88, 160} : p \in Byte /\ p \notin Changing
  BY InByte DEF Changing
<1>3. \A p \in {64, 72, 76, 77, 172, 192, 193, 194} : p \in Byte /\ p # 240
  BY InByte
<1>4. \A p \in {32, 40, 48, 56, 80, 88, 160}, v \in Nat, w \in Nat : R(p, v, w)
  BY <1>2, SParts
<1>5. \A p \in {64, 72, 76, 77, 172, 192, 193, 194}, u \in Nat, v \in Nat, w \in Nat : W(p, u, v, w)
  BY <1>3, SParts, SMTT(60)
<1>6. SWhole(S!Keep) /\ SWhole(S!KeepHigh)
  BY SParts
<1>7. S!Low(c.a) \in Nat /\ S!High(c.a) \in Nat /\ S!Low(c.v) \in Nat /\ S!High(c.v) \in Nat
  BY Halves
<1>8. c.a % SPM_PS_WORDS \in Nat /\ c.a % E2PAGESIZE \in Nat
  <2>1. SPM_PS_WORDS \in Nat \ {0} /\ E2PAGESIZE \in Nat \ {0}
    BY ChipAssumption DEF ChipAssumption
  <2> QED
    BY <2>1
<1> HIDE DEF R, W
<1>9. CASE c.fn \in {"read_sign", "read_cali", "read_lock", "read_fuse", "read_eeprom", "read_pgm_mem_word"}
  <2>1. CASE c.fn = "read_cali"
    <3>1. S!Body(c) = S!read_instruction(56, 0, 0) \o S!Keep
      BY <2>1, Hexes, SMTT(60) DEF S!Body
    <3> QED
      BY <1>1, <1>4, <1>6, <3>1, SWholeThen DEF R
  <2>2. CASE c.fn = "read_lock"
    <3>1. S!Body(c) = S!read_instruction(88, 0, 0) \o S!Keep
      BY <2>2, Hexes, SMTT(60) DEF S!Body
    <3> QED
      BY <1>1, <1>4, <1>6, <3>1, SWholeThen DEF R
  <2>3. CASE c.fn = "read_eeprom"
    <3>1. S!Body(c) = S!read_instruction(160, S!High(c.a), S!Low(c.a)) \o S!Keep
      BY <2>3, Hexes, SMTT(60) DEF S!Body
    <3> QED
      BY <1>4, <1>6, <1>7, <3>1, SWholeThen DEF R
  <2>4. CASE c.fn = "read_sign"
    <3> DEFINE s == S!read_instruction(48, 0, 0)
               t == S!read_instruction(48, 0, 1)
               u == S!read_instruction(48, 0, 2)
    <3>1. S!Body(c) = s \o S!Keep \o t \o S!Keep \o u \o S!Keep
      <4>1. S!Body(c) = S!read_sign
        BY <2>4 DEF S!Body
      <4> QED
        BY <4>1, Hexes DEF S!read_sign
    <3>2. SWhole(s) /\ SWhole(t) /\ SWhole(u)
      BY <1>1, <1>4 DEF R
    <3> HIDE DEF s, t, u
    <3>3. SWhole(s \o S!Keep \o t \o S!Keep)
      BY <1>6, <3>2, SWholeThen
    <3> QED
      BY <1>6, <3>1, <3>2, <3>3, SWholeThen
  <2>5. CASE c.fn = "read_fuse"
    <3> DEFINE s == S!read_instruction(80, 8, 0)
               t == S!read_instruction(88, 8, 0)
               u == S!read_instruction(80, 0, 0)
    <3>1. S!Body(c) = s \o S!Keep \o t \o S!Keep \o u \o S!Keep
      <4>1. S!Body(c) = S!read_fuse
        BY <2>5 DEF S!Body
      <4> QED
        BY <4>1, Hexes DEF S!read_fuse
    <3>2. SWhole(s) /\ SWhole(t) /\ SWhole(u)
      BY <1>1, <1>4 DEF R
    <3> HIDE DEF s, t, u
    <3>3. SWhole(s \o S!Keep \o t \o S!Keep)
      BY <1>6, <3>2, SWholeThen
    <3> QED
      BY <1>6, <3>1, <3>2, <3>3, SWholeThen
  <2>6. CASE c.fn = "read_pgm_mem_word"
    <3> DEFINE s == S!read_instruction(32, S!High(c.a), S!Low(c.a))
               t == S!read_instruction(40, S!High(c.a), S!Low(c.a))
    <3>1. S!Body(c) = s \o S!Keep \o t \o S!KeepHigh
      <4>1. S!Body(c) = S!read_pgm_mem_word(c.a)
        BY <2>6 DEF S!Body
      <4> QED
        BY <4>1, Hexes DEF S!read_pgm_mem_word
    <3>2. SWhole(s) /\ SWhole(t)
      BY <1>4, <1>7 DEF R
    <3> HIDE DEF s, t
    <3> QED
      BY <1>6, <3>1, <3>2, SWholeThen
  <2> QED
    BY <1>9, <2>1, <2>2, <2>3, <2>4, <2>5, <2>6
<1>10. CASE c.fn \in {"erase_chip", "write_lock", "write_eeprom", "load_ext_addr", "load_eep_mem_byte",
                      "write_eep_mem_page", "write_pgm_mem_page"}
  <2>1. CASE c.fn = "erase_chip"
    <3>1. S!Body(c) = S!write_n_complete_instruction(172, 128, 0, 0)
      BY <2>1, Hexes DEF S!Body
    <3> QED
      BY <1>1, <1>5, <3>1 DEF W
  <2>2. CASE c.fn = "write_lock"
    <3>1. S!Body(c) = S!write_n_complete_instruction(172, 224, 0, c.v)
      BY <2>2, Hexes DEF S!Body
    <3> QED
      BY <1>1, <1>5, <3>1 DEF W
  <2>3. CASE c.fn = "write_eeprom"
    <3>1. S!Body(c) = S!write_n_complete_instruction(192, S!High(c.a), S!Low(c.a), c.v)
      BY <2>3, Hexes DEF S!Body
    <3> QED
      BY <1>5, <1>7, <3>1 DEF W
  <2>4. CASE c.fn = "load_ext_addr"
    <3>1. S!Body(c) = S!write_n_complete_instruction(77, 0, c.a, 0)
      BY <2>4, Hexes DEF S!Body
    <3> QED
      BY <1>1, <1>5, <3>1 DEF W
  <2>5. CASE c.fn = "load_eep_mem_byte"
    <3>1. S!Body(c) = S!write_n_complete_instruction(193, 0, c.a % E2PAGESIZE, c.v)
      BY <2>5, Hexes DEF S!Body
    <3> QED
      BY <1>1, <1>5, <1>8, <3>1 DEF W
  <2>6. CASE c.fn = "write_eep_mem_page"
    <3>1. S!Body(c) = S!write_n_complete_instruction(194, S!High(c.a), S!Low(c.a), 0)
      BY <2>6, Hexes DEF S!Body
    <3> QED
      BY <1>1, <1>5, <1>7, <3>1 DEF W
  <2>7. CASE c.fn = "write_pgm_mem_page"
    <3>1. S!Body(c) = S!write_n_complete_instruction(76, S!High(c.a), S!Low(c.a), 0)
      BY <2>7, Hexes DEF S!Body
    <3> QED
      BY <1>1, <1>5, <1>7, <3>1 DEF W
  <2> QED
    BY <1>10, <2>1, <2>2, <2>3, <2>4, <2>5, <2>6, <2>7
<1>11. CASE c.fn = "write_fuse"
  <2> DEFINE e == c.v \div 65536
             f == c.v % 65536
             s == S!write_n_complete_instruction(172, 160, 0, S!Low(f))
             t == S!write_n_complete_instruction(172, 168, 0, S!High(f))
             u == S!write_n_complete_instruction(172, 164, 0, e)
  <2>1. S!Body(c) = S!write_fuse(e, f)
    BY <1>11 DEF S!Body
  <2>2. e \in Nat /\ f \in Nat
    BY Halves
  <2> HIDE DEF e, f
  <2>3. S!Low(f) \in Nat /\ S!High(f) \in Nat
    BY <2>2, Halves
  <2>4. S!write_fuse(e, f) = s \o t \o u
    BY Hexes DEF S!write_fuse
  <2>5. SWhole(s) /\ SWhole(t) /\ SWhole(u)
    BY <1>1, <1>5, <2>2, <2>3 DEF W
  <2> HIDE DEF s, t, u
  <2> QED
    BY <2>1, <2>4, <2>5, SWholeThen
<1>12. CASE c.fn = "load_pgm_mem_word"
  <2> DEFINE s == S!write_n_complete_instruction(64, 0, c.a % SPM_PS_WORDS, S!Low(c.v))
             t == S!write_n_complete_instruction(72, 0, c.a % SPM_PS_WORDS, S!High(c.v))
  <2>1. S!Body(c) = s \o t
    BY <1>12, Hexes, SMTT(60) DEF S!Body, S!load_pgm_mem_word
  <2>2. SWhole(s) /\ SWhole(t)
    BY <1>1, <1>5, <1>7, <1>8 DEF W
  <2> HIDE DEF s, t
  <2> QED
    BY <2>1, <2>2, SWholeThen
<1> QED
  BY <1>9, <1>10, <1>11, <1>12 DEF Library, Common

-----------------------------------------------------------------------------
(* The serial programmer's calls between setup and reset. *)

SShape ==
    /\ Shaped(chip) /\ ~chip.early
    /\ pins = [resetb |-> pins.resetb, mosi |-> pins.mosi] /\ pins.mosi \in OneBit
    /\ rx \in Seq(OneBit)

SAdmits(a) ==
    /\ enabled /\ Len(rx) = a.n
    /\ \A i \in 1..8 : i <= a.n => rx[i] = S!Bits(a.op)[i]
    /\ (\E U : out \in Seq(U)) /\ Len(out) = 8 - (a.n % 8)
    /\ a.n >= 24 /\ a.op = 240 => out \in Seq(OneBit) /\ (out[Len(out)] = 0 => ~chip.busy)
    /\ a.g = 1 => a.n >= 24 /\ a.op = 240 /\ rd \in Seq(OneBit) /\ Len(rd) = a.n - 24
    /\ a.g = 2 => a.n = 0 /\ rd \in Seq(OneBit) /\ Len(rd) = 8 /\ (rd[8] = 0 => ~chip.busy)
    /\ chip.busy => a.may = 1

LEMMA SExecute ==
    ASSUME NEW c, NEW b, Shaped(c), ~c.early
    PROVE  /\ b[1] \notin Changing => S!Execute(c, b) = c
           /\ ~c.busy => Shaped(S!Execute(c, b)) /\ ~S!Execute(c, b).early
<1>1. b[1] \notin Changing => S!Execute(c, b) = c
  BY Hexes DEF Changing, S!Execute
<1>2. ASSUME ~c.busy PROVE Shaped(S!Execute(c, b)) /\ ~S!Execute(c, b).early
  <2> DEFINE Good(o) == Shaped(o) /\ ~o.early
             W(m) == S!Guarded(c, [c EXCEPT !.mem = m, !.busy = TRUE])
             F(m) == S!Guarded(c, [c EXCEPT !.mem = m])
  <2>1. ASSUME NEW m PROVE Good(F(m))
    <3>1. F(m) = [c EXCEPT !.mem = m]
      BY <1>2 DEF S!Guarded
    <3> QED
      BY <3>1 DEF Shaped
  <2>2. ASSUME NEW m PROVE Good(W(m))
    <3>1. ASSUME NEW v \in BOOLEAN PROVE Good([c EXCEPT !.mem = m, !.busy = v])
      <4> DEFINE p == [c EXCEPT !.mem = m]
                 o == [p EXCEPT !.busy = v]
      <4>1. Good(p)
        BY DEF Shaped
      <4> HIDE DEF p
      <4>2. Good(o)
        BY <4>1 DEF Shaped
      <4> QED
        BY <4>2 DEF p
    <3>2. W(m) = [c EXCEPT !.mem = m, !.busy = TRUE]
      BY <1>2 DEF S!Guarded
    <3>3. TRUE \in BOOLEAN
      OBVIOUS
    <3> HIDE DEF W
    <3> QED
      BY <3>1, <3>2, <3>3
  <2>3. Good(c)
    OBVIOUS
  <2> HIDE DEF Good
  <2>4. Good(S!Execute(c, b))
    BY <2>1, <2>2, <2>3, ZenonT(60) DEF S!Execute
  <2> QED
    BY <2>4 DEF Good
<1> QED
  BY <1>1, <1>2

LEMMA SReply ==
    ASSUME NEW c, NEW bits \in Seq(OneBit), Len(bits) = 24, \A i \in 1..8 : bits[i] = S!Bits(240)[i]
    PROVE  S!Reply(c, bits) = IF c.busy THEN 1 ELSE 0
<1>1. S!ByteOf(bits, 1) = 240
  <2>1. 240 \in Byte /\ Len(bits) >= 8
    BY InByte
  <2> QED
    BY <2>1, SameByte
<1> DEFINE b == [k \in 1..(Len(bits) \div 8) |-> S!ByteOf(bits, k)]
<1>2. Len(bits) \div 8 = 3 /\ b[1] = 240
  BY <1>1
<1> HIDE DEF b
<1>3. S!Reply(c, bits) =
        CASE b[1] = 48 -> Signature[b[3] % 3]
          [] b[1] = 56 -> Calibration
          [] b[1] = 88 -> IF b[2] = 8 THEN c.mem.hfuse ELSE c.mem.lock
          [] b[1] = 80 -> IF b[2] = 8 THEN c.mem.efuse ELSE c.mem.lfuse
          [] b[1] = 160 -> c.mem.eep[S!Addr(b) % EepBytes]
          [] b[1] = 32 -> S!Low(c.mem.flash[S!Addr(b) % SPM_SZ_WORDS])
          [] b[1] = 40 -> S!High(c.mem.flash[S!Addr(b) % SPM_SZ_WORDS])
          [] b[1] = 240 -> IF c.busy THEN 1 ELSE 0
          [] OTHER -> b[3]
  BY <1>2, Hexes DEF S!Reply, b
<1> QED
  BY <1>2, <1>3

LEMMA BusyBit ==
    ASSUME NEW q \in OneBit
    PROVE  S!Bits(q) \in Seq(OneBit) /\ Len(S!Bits(q)) = 8 /\ S!Bits(q)[8] = q
<1>1. q \in Nat
  BY DEF OneBit
<1>2. 8 \in 1..8 /\ 8 - 8 = 0 /\ 2^0 = 1
  OBVIOUS
<1>3. S!Bits(q)[8] = S!Bit(q, 0)
  BY <1>1, <1>2, BitsTyped
<1>4. S!Bit(q, 0) = (q \div 1) % 2
  BY <1>2 DEF S!Bit
<1>5. (q \div 1) % 2 = q
  BY DEF OneBit
<1> QED
  BY <1>1, <1>3, <1>4, <1>5, BitsTyped

LEMMA Appended ==
    ASSUME NEW T, NEW s \in Seq(T), NEW x \in T
    PROVE  LET u == Append(s, x) IN /\ u \in Seq(T) /\ Len(u) = Len(s) + 1 /\ u[Len(s) + 1] = x
                                    /\ \A i \in 1..Len(s) : u[i] = s[i]
  OBVIOUS

LEMMA Tailed ==
    ASSUME NEW T, NEW s \in Seq(T), Len(s) > 1
    PROVE  LET u == Tail(s) IN /\ u \in Seq(T) /\ Len(u) = Len(s) - 1 /\ u[Len(u)] = s[Len(s)]
                               /\ Head(s) \in T
  OBVIOUS

LEMMA LastOne == ASSUME NEW n \in 0..31, n >= 24, n < 31 => n = 0 PROVE n = 31
  OBVIOUS

LEMMA Eights ==
    /\ \A n \in 0..31 : n % 8 # 7 => (n + 1) % 8 # 0 /\ (n + 1) % 8 = (n % 8) + 1 /\ n # 31 /\ 8 - (n % 8) > 1
    /\ \A n \in 0..31 : n % 8 = 7 => (n + 1) % 8 = 0
    /\ \A n \in 0..31 : n >= 23 /\ n # 31 /\ n # 23
                        => n >= 24 /\ n < 31 /\ (n + 1) % 8 # 0 /\ n % 8 < 7 /\ 8 - (n % 8) > 1
    /\ 0 % 8 = 0
  OBVIOUS

\* The target sees a pulse on SCK, enabled and n bits into an instruction.
LEMMA SPulse ==
    ASSUME NEW a \in SStates, NEW b \in SStates, NEW m \in OneBit, SShape, SAdmits(a), SClocked(a, b),
           a.n < 8 => m = S!Bits(a.op)[a.n + 1],
           S!TargetClock(m), rd' = Append(rd, Head(out)),
           pins' = [resetb |-> pins'.resetb, mosi |-> pins'.mosi], pins'.mosi \in OneBit
    PROVE  SShape' /\ SAdmits(b)'
<1> DEFINE n == a.n
           bits == Append(rx, m)
           w == [k \in 1..4 |-> S!ByteOf(bits, k)]
<1>1. n \in 0..31 /\ a.op \in Byte /\ b.op = a.op /\ rx \in Seq(OneBit) /\ Len(rx) = n
  BY DEF SStates, SShape, SAdmits, SClocked
<1>2. /\ bits \in Seq(OneBit) /\ Len(bits) = n + 1 /\ bits[n + 1] = m
      /\ \A i \in 1..n : bits[i] = rx[i]
  BY <1>1, Appended
<1>3. \A i \in 1..8 : i <= n + 1 => bits[i] = S!Bits(a.op)[i]
  <2> SUFFICES ASSUME NEW i \in 1..8, i <= n + 1 PROVE bits[i] = S!Bits(a.op)[i]
    OBVIOUS
  <2>1. CASE i = n + 1
    <3>1. n < 8
      BY <1>1, <2>1
    <3> QED
      BY <1>2, <2>1, <3>1
  <2>2. CASE i # n + 1
    <3>1. i <= n /\ i \in 1..n
      BY <1>1, <2>2, SMTT(60)
    <3>2. rx[i] = S!Bits(a.op)[i]
      BY <3>1 DEF SAdmits
    <3> QED
      BY <1>2, <3>1, <3>2
  <2> QED
    BY <2>1, <2>2
<1>4. enabled
  BY DEF SAdmits
<1>5. /\ enabled' /\ rx' = IF Len(bits) = 32 THEN <<>> ELSE bits
      /\ chip' = IF Len(bits) = 32 THEN S!Execute(chip, w) ELSE chip
      /\ out' = IF Len(bits) % 8 = 0 /\ Len(bits) < 32 THEN S!Bits(S!Reply(chip, bits)) ELSE
                IF Len(bits) % 8 = 0 THEN S!Bits(255) ELSE Tail(out)
  BY <1>4 DEF S!TargetClock
<1>6. n = 31 => w[1] = a.op
  <2>1. 1 \in 1..4
    OBVIOUS
  <2>2. w[1] = S!ByteOf(bits, 1)
    BY <2>1
  <2> HIDE DEF w, bits
  <2>3. ASSUME n = 31 PROVE w[1] = a.op
    <3>1. Len(bits) >= 8 /\ \A i \in 1..8 : bits[i] = S!Bits(a.op)[i]
      BY <1>1, <1>2, <1>3, <2>3
    <3> QED
      BY <1>1, <1>2, <2>2, <3>1, SameByte
  <2> QED
    BY <2>3
<1> HIDE DEF bits, w
<1>7. (Shaped(chip) /\ ~chip.early)' /\ (chip'.busy => b.may = 1)
  <2>1. Shaped(chip) /\ ~chip.early /\ (chip.busy => a.may = 1) /\ a.may \in OneBit
    BY DEF SShape, SAdmits, SStates
  <2>2. CASE n # 31
    <3>1. chip' = chip
      BY <1>1, <1>2, <1>5, <2>2
    <3>2. b.may = a.may
      BY <2>2 DEF SClocked
    <3> QED
      BY <2>1, <3>1, <3>2 DEF Shaped
  <2>3. CASE n = 31
    <3>1. chip' = S!Execute(chip, w)
      BY <1>2, <1>5, <2>3
    <3>2. CASE a.op \notin Changing
      <4>1. chip' = chip
        BY <1>6, <2>1, <2>3, <3>1, <3>2, SExecute
      <4>2. b.may = a.may
        BY <3>2 DEF SClocked
      <4> QED
        BY <2>1, <4>1, <4>2 DEF Shaped
    <3>3. CASE a.op \in Changing
      <4>1. a.may = 0 /\ b.may = 1
        BY <2>3, <3>3 DEF SClocked
      <4>2. ~chip.busy
        BY <2>1, <4>1
      <4>3. Shaped(chip') /\ ~chip'.early
        BY <2>1, <3>1, <4>2, SExecute
      <4> QED
        BY <4>1, <4>3 DEF Shaped
    <3> QED
      BY <3>2, <3>3
  <2> QED
    BY <2>2, <2>3
<1>8. rx' \in Seq(OneBit) /\ Len(rx') = b.n
  <2>1. CASE n = 31
    <3>1. rx' = <<>> /\ b.n = 0
      BY <1>2, <1>5, <2>1 DEF SClocked
    <3> QED
      BY <3>1
  <2>2. CASE n # 31
    <3>1. rx' = bits /\ b.n = n + 1
      BY <1>1, <1>2, <1>5, <2>2 DEF SClocked
    <3> QED
      BY <1>2, <3>1
  <2> QED
    BY <2>1, <2>2
<1>9. \A i \in 1..8 : i <= b.n => rx'[i] = S!Bits(b.op)[i]
  <2>1. CASE n = 31
    <3>1. b.n = 0
      BY <2>1 DEF SClocked
    <3> QED
      BY <3>1
  <2>2. CASE n # 31
    <3>1. rx' = bits /\ b.n = n + 1
      BY <1>1, <1>2, <1>5, <2>2 DEF SClocked
    <3> QED
      BY <1>1, <1>3, <3>1
  <2> QED
    BY <2>1, <2>2
<1>10. PICK V : out \in Seq(V)
  BY DEF SAdmits
<1>11. Len(out) = 8 - (n % 8)
  BY DEF SAdmits
<1>12. (\E U : out' \in Seq(U)) /\ Len(out') = 8 - (b.n % 8)
  <2>1. CASE n % 8 # 7
    <3>1. (n + 1) % 8 # 0 /\ (n + 1) % 8 = (n % 8) + 1 /\ n # 31 /\ Len(out) > 1
      BY <1>1, <1>11, <2>1, Eights
    <3>2. out' = Tail(out) /\ b.n = n + 1
      BY <1>2, <1>5, <3>1 DEF SClocked
    <3>3. Tail(out) \in Seq(V) /\ Len(Tail(out)) = Len(out) - 1
      BY <1>10, <3>1, Tailed
    <3>4. Len(out) - 1 = 8 - ((n + 1) % 8)
      BY <1>1, <1>11, <3>1
    <3> QED
      BY <3>2, <3>3, <3>4
  <2>2. CASE n % 8 = 7
    <3>1. (n + 1) % 8 = 0
      BY <1>1, <2>2, Eights
    <3>2. b.n % 8 = 0
      <4>1. CASE n = 31
        BY <4>1, Eights DEF SClocked
      <4>2. CASE n # 31
        BY <3>1, <4>2 DEF SClocked
      <4> QED
        BY <4>1, <4>2
    <3>3. PICK x : out' = S!Bits(x)
      BY <1>2, <1>5, <3>1
    <3>4. Len(S!Bits(x)) = 8 /\ \E U : S!Bits(x) \in Seq(U)
      BY BitsLong
    <3>5. Len(out') = 8
      BY <3>3, <3>4
    <3>6. \E U : out' \in Seq(U)
      BY <3>3, <3>4
    <3> QED
      BY <3>2, <3>5, <3>6
  <2> QED
    BY <2>1, <2>2
<1>13. ASSUME b.n >= 24, b.op = 240
       PROVE  out' \in Seq(OneBit) /\ (out'[Len(out')] = 0 => ~chip'.busy)
  <2>1. n # 31 /\ b.n = n + 1 /\ a.op = 240 /\ n >= 23 /\ chip' = chip
    BY <1>1, <1>2, <1>5, <1>13, SMTT(60) DEF SClocked
  <2>2. CASE n = 23
    <3>1. Len(bits) = 24 /\ \A i \in 1..8 : bits[i] = S!Bits(240)[i]
      BY <1>2, <1>3, <2>1, <2>2
    <3>2. S!Reply(chip, bits) = IF chip.busy THEN 1 ELSE 0
      BY <1>2, <3>1, SReply
    <3> DEFINE q == IF chip.busy THEN 1 ELSE 0
    <3>3. out' = S!Bits(q)
      BY <1>5, <3>1, <3>2
    <3>4. q \in OneBit /\ (q = 0 => ~chip.busy)
      BY DEF OneBit
    <3> HIDE DEF q
    <3> DEFINE e == S!Bits(q)
    <3>5. e \in Seq(OneBit) /\ Len(e) = 8 /\ e[8] = q
      BY <3>4, BusyBit
    <3> HIDE DEF e
    <3>6. out' = e
      BY <3>3 DEF e
    <3>7. e[Len(e)] = 0 => ~chip.busy
      BY <3>4, <3>5
    <3> QED
      BY <2>1, <3>5, <3>6, <3>7, ZenonT(60)
  <2>3. CASE n # 23
    <3>1. n >= 24 /\ n < 31 /\ (n + 1) % 8 # 0 /\ n % 8 < 7 /\ 8 - (n % 8) > 1
      BY <1>1, <2>1, <2>3, Eights, ZenonT(60)
    <3>2. out' = Tail(out)
      BY <1>2, <1>5, <3>1
    <3>3. out \in Seq(OneBit) /\ (out[Len(out)] = 0 => ~chip.busy)
      BY <2>1, <3>1 DEF SAdmits
    <3>4. Len(out) > 1
      BY <1>1, <1>11, <3>1
    <3>5. Tail(out) \in Seq(OneBit) /\ Tail(out)[Len(Tail(out))] = out[Len(out)]
      BY <3>3, <3>4, Tailed
    <3> DEFINE u == Tail(out)
    <3>6. u \in Seq(OneBit) /\ (u[Len(u)] = 0 => ~chip.busy)
      BY <3>3, <3>5
    <3> HIDE DEF u
    <3>7. out' = u /\ chip' = chip
      BY <2>1, <3>2 DEF u
    <3> QED
      BY <3>6, <3>7
  <2> QED
    BY <2>2, <2>3
<1>14. ASSUME a.g = 1
       PROVE  /\ n >= 24 /\ a.op = 240 /\ rd \in Seq(OneBit) /\ Len(rd) = n - 24
              /\ rd' \in Seq(OneBit) /\ Len(rd') = n - 24 + 1 /\ rd'[n - 24 + 1] = Head(out)
              /\ out \in Seq(OneBit) /\ (out[Len(out)] = 0 => ~chip.busy)
  <2>1. n >= 24 /\ a.op = 240 /\ rd \in Seq(OneBit) /\ Len(rd) = n - 24
    BY <1>14 DEF SAdmits
  <2>2. out \in Seq(OneBit) /\ (out[Len(out)] = 0 => ~chip.busy)
    BY <2>1 DEF SAdmits
  <2>3. Len(out) >= 1
    BY <1>1, <1>11
  <2>4. Head(out) \in OneBit
    BY <2>2, <2>3
  <2> HIDE DEF n
  <2>5. rd' \in Seq(OneBit) /\ Len(rd') = Len(rd) + 1 /\ rd'[Len(rd) + 1] = Head(out)
    BY <2>1, <2>4, Appended
  <2> QED
    BY <2>1, <2>2, <2>5
<1>15. b.g = 1 => b.n >= 24 /\ b.op = 240 /\ rd' \in Seq(OneBit) /\ Len(rd') = b.n - 24
  <2> SUFFICES ASSUME b.g = 1
               PROVE  b.n >= 24 /\ b.op = 240 /\ rd' \in Seq(OneBit) /\ Len(rd') = b.n - 24
    OBVIOUS
  <2>1. a.g = 1 /\ n < 31 /\ b.n = n + 1
    BY <1>1 DEF SClocked
  <2> QED
    BY <1>1, <1>14, <2>1, SMTT(60)
<1>16. b.g = 2 => b.n = 0 /\ rd' \in Seq(OneBit) /\ Len(rd') = 8 /\ (rd'[8] = 0 => ~chip'.busy)
  <2> SUFFICES ASSUME b.g = 2
               PROVE  b.n = 0 /\ rd' \in Seq(OneBit) /\ Len(rd') = 8 /\ (rd'[8] = 0 => ~chip'.busy)
    OBVIOUS
  <2>1. n = 31 /\ a.g = 1 /\ b.n = 0
    <3>1. a.g = 2 => n = 0
      BY DEF SAdmits
    <3>2. b.g = IF n < 24 THEN 0 ELSE IF n < 31 THEN a.g ELSE IF a.g = 1 THEN 2 ELSE 0
      BY DEF SClocked
    <3>3. n = 31
      <4>1. n >= 24
        BY <1>1, <3>2
      <4>2. n < 31 => n = 0
        BY <3>1, <3>2, <4>1
      <4>3. n \in 0..31
        BY <1>1
      <4> QED
        BY <4>1, <4>2, <4>3, LastOne
    <3> QED
      BY <3>2, <3>3 DEF SClocked
  <2>2. n - 24 + 1 = 8 /\ Len(out) = 1
    BY <1>11, <2>1
  <2>3. Head(out) = out[Len(out)]
    BY <1>14, <2>1, <2>2
  <2>4. a.op = 240 /\ a.op \notin Changing
    BY <1>14, <2>1 DEF Changing
  <2>5. chip' = chip
    <3>1. Shaped(chip) /\ ~chip.early
      BY DEF SShape
    <3> QED
      BY <1>2, <1>5, <1>6, <2>1, <2>4, <3>1, SExecute
  <2> QED
    BY <1>14, <2>1, <2>2, <2>3, <2>5
<1>17. SShape'
  BY <1>7, <1>8 DEF SShape
<1> QED
  BY <1>5, <1>7, <1>8, <1>9, <1>12, <1>13, <1>15, <1>16, <1>17 DEF SAdmits

SWithin ==
    /\ call # NoCall /\ call.fn \in Library["serial"] /\ Ahead("serial", call, calls)
    /\ \E a \in SStates, b \in SStates : Runs(SRel, todo, a, b) /\ b.n = 0 /\ b.may = 0 /\ SAdmits(a)

LEMMA SFirst ==
    ASSUME NEW a \in SStates, NEW b, NEW s, s # <<>>, Runs(SRel, s, a, b)
    PROVE  \E c \in SStates : SStep(a, Head(s)[1], Head(s)[2], c) /\ Runs(SRel, Tail(s), c, b)
<1>1. PICK c : <<a, Head(s), c>> \in SRel /\ Runs(SRel, Tail(s), c, b)
  BY RunsFirst
<1>2. c \in SStates /\ SStep(a, Head(s)[1], Head(s)[2], c)
  BY <1>1 DEF SRel
<1> QED
  BY <1>1, <1>2

LEMMA SGoesOn ==
    ASSUME SWithin, todo # <<>>, todo' = Tail(todo), call' = call, calls' = calls,
           \A a, c \in SStates : SAdmits(a) /\ SStep(a, S!step, S!value, c) => SAdmits(c)'
    PROVE  SWithin'
<1>1. PICK a \in SStates, b \in SStates : Runs(SRel, todo, a, b) /\ b.n = 0 /\ b.may = 0 /\ SAdmits(a)
  BY DEF SWithin
<1>2. PICK c \in SStates : SStep(a, Head(todo)[1], Head(todo)[2], c) /\ Runs(SRel, Tail(todo), c, b)
  BY <1>1, SFirst
<1>3. SAdmits(c)'
  BY <1>1, <1>2 DEF S!step, S!value
<1> QED
  BY <1>1, <1>2, <1>3 DEF SWithin

LEMMA SClock == ASSUME SShape, SWithin, S!ClockStep PROVE SShape' /\ SWithin'
<1> DEFINE x == S!step
           v == S!value
<1>1. /\ todo # <<>> /\ todo' = Tail(todo) /\ call' = call /\ calls' = calls
      /\ x \in {"mosi", "clock"} /\ rd' = Append(rd, Head(out)) /\ S!TargetClock(pins'.mosi)
      /\ pins' = IF x = "mosi" THEN [pins EXCEPT !.mosi = v] ELSE pins
  BY DEF S!ClockStep
<1>2. pins = [resetb |-> pins.resetb, mosi |-> pins.mosi] /\ pins.mosi \in OneBit
  BY DEF SShape
<1>3. PICK a \in SStates, b \in SStates : Runs(SRel, todo, a, b) /\ SAdmits(a)
  BY DEF SWithin
<1>4. PICK c \in SStates : SStep(a, Head(todo)[1], Head(todo)[2], c)
  BY <1>1, <1>3, SFirst
<1>5. x = Head(todo)[1] /\ v = Head(todo)[2]
  BY DEF S!step, S!value
<1> HIDE DEF x, v
<1>6. x = "mosi" => v \in OneBit
  BY <1>4, <1>5 DEF SStep
<1>7. pins' = [resetb |-> pins'.resetb, mosi |-> pins'.mosi] /\ pins'.mosi \in OneBit
  BY <1>1, <1>2, <1>6
<1>8. x = "mosi" => pins'.mosi = v
  BY <1>1, <1>2
<1> DEFINE m == pins'.mosi
<1>9. ASSUME NEW p \in SStates, NEW q \in SStates, SAdmits(p), SStep(p, x, v, q)
      PROVE  SShape' /\ SAdmits(q)'
  <2>1. SClocked(p, q)
    BY <1>1, <1>9 DEF SStep
  <2>2. p.n < 8 => x = "mosi" /\ v = S!Bits(p.op)[p.n + 1]
    <3>1. p.n \in Nat
      BY DEF SStates
    <3>2. CASE x = "mosi"
      BY <1>9, <3>2 DEF SStep
    <3>3. CASE x = "clock"
      <4>1. p.n >= 8
        BY <1>9, <3>3 DEF SStep
      <4> QED
        BY <3>1, <4>1
    <3> QED
      BY <1>1, <3>2, <3>3
  <2>3. p.n < 8 => m = S!Bits(p.op)[p.n + 1]
    BY <1>8, <2>2
  <2> HIDE DEF m
  <2>4. S!TargetClock(m) /\ m \in OneBit
    BY <1>1, <1>7 DEF m
  <2> QED
    BY <1>1, <1>7, <1>9, <2>1, <2>3, <2>4, SPulse
<1>10. SShape'
  BY <1>3, <1>4, <1>5, <1>9
<1> QED
  BY <1>1, <1>9, <1>10, SGoesOn DEF x, v

LEMMA BitsOf ==
    ASSUME NEW s \in Seq(OneBit), Len(s) >= 8
    PROVE  /\ s[1] \in OneBit /\ s[2] \in OneBit /\ s[3] \in OneBit /\ s[4] \in OneBit
           /\ s[5] \in OneBit /\ s[6] \in OneBit /\ s[7] \in OneBit /\ s[8] \in OneBit
<1>1. \A i \in 1..8 : i \in 1..Len(s)
  OBVIOUS
<1>2. \A i \in 1..8 : s[i] \in OneBit
  BY <1>1, ElementOf
<1> QED
  BY <1>2

LEMMA NumberIsNat ==
    ASSUME NEW s \in Seq(OneBit), Len(s) = 8
    PROVE  S!Number(s) \in Nat /\ (s[1] = 1 => S!Number(s) >= 128)
<1>1. /\ s[1] \in Nat /\ s[2] \in Nat /\ s[3] \in Nat /\ s[4] \in Nat
      /\ s[5] \in Nat /\ s[6] \in Nat /\ s[7] \in Nat /\ s[8] \in Nat
  <2>1. Len(s) >= 8
    OBVIOUS
  <2>2. \A x \in OneBit : x \in Nat
    BY DEF OneBit
  <2> QED
    BY <2>1, <2>2, BitsOf, Zenon
<1>2. PICK p, q, r, h, t, u, v, w \in Nat :
          /\ p = s[1] /\ q = s[2] /\ r = s[3] /\ h = s[4] /\ t = s[5] /\ u = s[6] /\ v = s[7] /\ w = s[8]
  BY <1>1, Zenon
<1> DEFINE n == 16 * (8 * p + 4 * q + 2 * r + h) + (8 * t + 4 * u + 2 * v + w)
<1>3. n \in Nat /\ (p = 1 => n >= 128)
  OBVIOUS
<1>4. S!Number(s) = n
  <2>1. S!Number(s) = 16 * (8 * s[1] + 4 * s[2] + 2 * s[3] + s[4]) + (8 * s[5] + 4 * s[6] + 2 * s[7] + s[8])
    BY DEF S!Number
  <2> QED
    BY <1>2, <2>1, Zenon
<1> HIDE DEF n
<1> QED
  BY <1>2, <1>3, <1>4

LEMMA NumberOdd ==
    ASSUME NEW s \in Seq(OneBit), Len(s) = 8
    PROVE  S!Bit(S!Number(s), 0) = s[8]
<1>1. /\ s[1] \in Nat /\ s[2] \in Nat /\ s[3] \in Nat /\ s[4] \in Nat
      /\ s[5] \in Nat /\ s[6] \in Nat /\ s[7] \in Nat /\ s[8] \in OneBit
  BY BitsOf, SMTT(60) DEF OneBit
<1>2. PICK p, q, r, h, t, u, v \in Nat, w \in OneBit :
          /\ p = s[1] /\ q = s[2] /\ r = s[3] /\ h = s[4] /\ t = s[5] /\ u = s[6] /\ v = s[7] /\ w = s[8]
  BY <1>1, Zenon
<1> DEFINE n == 16 * (8 * p + 4 * q + 2 * r + h) + (8 * t + 4 * u + 2 * v + w)
<1>3. n \in Nat /\ n % 2 = w
  <2> DEFINE k == 64 * p + 32 * q + 16 * r + 8 * h + 4 * t + 2 * u + v
  <2>1. k \in Nat /\ w \in 0..1
    BY DEF OneBit
  <2>2. n = 2 * k + w
    BY <2>1
  <2> HIDE DEF k, n
  <2>3. \A i \in Nat, e \in 0..1 : 2 * i + e \in Nat /\ (2 * i + e) % 2 = e
    OBVIOUS
  <2> QED
    BY <2>1, <2>2, <2>3
<1>4. S!Number(s) = n
  <2>1. S!Number(s) = 16 * (8 * s[1] + 4 * s[2] + 2 * s[3] + s[4]) + (8 * s[5] + 4 * s[6] + 2 * s[7] + s[8])
    BY DEF S!Number
  <2> QED
    BY <1>2, <2>1, Zenon
<1> HIDE DEF n
<1>5. n \div 1 = n /\ 2^0 = 1
  BY <1>3
<1> QED
  BY <1>2, <1>3, <1>4, <1>5 DEF S!Bit

LEMMA SCompute == ASSUME SShape, SWithin, S!Compute PROVE SShape' /\ SWithin'
<1>1. todo # <<>> /\ UNCHANGED <<calls, call, pins, noise, rx, out, enabled, chip, want>>
  BY DEF S!Compute
<1>2. SShape'
  BY <1>1 DEF SShape, Shaped
<1> DEFINE x == S!step
           v == S!value
<1>3. PICK a \in SStates, b \in SStates : Runs(SRel, todo, a, b) /\ b.n = 0 /\ b.may = 0 /\ SAdmits(a)
  BY DEF SWithin
<1>4. PICK c \in SStates : SStep(a, Head(todo)[1], Head(todo)[2], c)
  BY <1>1, <1>3, SFirst
<1>5. x = Head(todo)[1] /\ v = Head(todo)[2]
  BY DEF S!step, S!value
<1>6. /\ x \in {"zero", "keep", "high", "busy"}
      /\ x = "zero" => rd' = <<>> /\ todo' = Tail(todo)
      /\ x \in {"keep", "high"} => rd' = rd /\ todo' = Tail(todo)
      /\ x = "busy" => rd' = rd /\ todo' = IF S!Bit(S!Number(rd), 0) = 0 THEN Tail(todo)
                                           ELSE S!poll_busy \o todo
  <2>1. x # "second"
    BY <1>4, <1>5 DEF SStep
  <2> QED
    BY <2>1 DEF S!Compute
<1> HIDE DEF x, v
<1>7. CASE x = "zero"
  <2>1. ASSUME NEW p \in SStates, NEW q \in SStates, SAdmits(p), SStep(p, x, v, q)
        PROVE  SAdmits(q)'
    <3>1. /\ q.n = p.n /\ q.may = p.may /\ (p.n > 0 => q.op = p.op)
          /\ q.g = IF p.n = 24 /\ p.op = 240 THEN 1 ELSE 0
      BY <1>7, <2>1 DEF SStep
    <3>2. p.n \in 0..31
      BY DEF SStates
    <3>3. q.g = 1 => q.n = 24 /\ q.op = 240
      BY <3>1
    <3>4. q.g # 2 /\ rd' \in Seq(OneBit) /\ Len(rd') = 0
      BY <1>6, <1>7, <3>1
    <3>5. \A i \in 1..8 : i <= q.n => rx[i] = S!Bits(q.op)[i]
      <4>1. CASE p.n = 0
        BY <3>1, <4>1
      <4>2. CASE p.n # 0
        <5>1. q.op = p.op /\ q.n = p.n
          BY <3>1, <3>2, <4>2
        <5> QED
          BY <2>1, <5>1 DEF SAdmits
      <4> QED
        BY <4>1, <4>2
    <3>6. q.n >= 24 /\ q.op = 240 => p.n >= 24 /\ p.op = 240
      BY <3>1, <3>2
    <3>7. q.n >= 24 /\ q.op = 240 => out \in Seq(OneBit) /\ (out[Len(out)] = 0 => ~chip.busy)
      BY <2>1, <3>6 DEF SAdmits
    <3>8. /\ enabled /\ Len(rx) = q.n /\ (\E U : out \in Seq(U)) /\ Len(out) = 8 - (q.n % 8)
          /\ (chip.busy => q.may = 1)
      BY <2>1, <3>1 DEF SAdmits
    <3>9. q.g = 1 => q.n >= 24 /\ q.op = 240 /\ rd' \in Seq(OneBit) /\ Len(rd') = q.n - 24
      BY <3>3, <3>4
    <3> QED
      BY <1>1, <3>4, <3>5, <3>7, <3>8, <3>9 DEF SAdmits
  <2> QED
    BY <1>1, <1>2, <1>6, <1>7, <2>1, SGoesOn DEF x, v
<1>8. CASE x \in {"keep", "high"}
  <2>1. ASSUME NEW p \in SStates, NEW q \in SStates, SAdmits(p), SStep(p, x, v, q)
        PROVE  SAdmits(q)'
    <3>1. q = p
      BY <1>8, <2>1 DEF SStep
    <3>2. rd' = rd
      BY <1>6, <1>8
    <3> QED
      BY <1>1, <2>1, <3>1, <3>2 DEF SAdmits
  <2> QED
    BY <1>1, <1>2, <1>6, <1>8, <2>1, SGoesOn DEF x, v
<1>9. CASE x = "busy"
  <2>1. ASSUME NEW p \in SStates, SAdmits(p), p.g = 2 PROVE S!Bit(S!Number(rd), 0) = 0 => ~chip.busy
    <3>1. rd \in Seq(OneBit) /\ Len(rd) = 8 /\ (rd[8] = 0 => ~chip.busy)
      BY <2>1 DEF SAdmits
    <3> QED
      BY <3>1, NumberOdd
  <2>2. CASE S!Bit(S!Number(rd), 0) = 0
    <3>1. ASSUME NEW p \in SStates, NEW q \in SStates, SAdmits(p), SStep(p, x, v, q)
          PROVE  SAdmits(q)'
      <4>1. p.n = 0 /\ p.op = 240 /\ p.g = 2 /\ q = SAt(0, 240, 0, 2)
        BY <1>9, <3>1 DEF SStep
      <4>2. q.n = 0 /\ q.op = 240 /\ q.may = 0 /\ q.g = 2
        BY <4>1 DEF SAt
      <4>3. ~chip.busy
        BY <2>1, <2>2, <3>1, <4>1
      <4>4. rd' = rd
        BY <1>6, <1>9
      <4> QED
        BY <1>1, <3>1, <4>1, <4>2, <4>3, <4>4 DEF SAdmits
    <3>2. todo' = Tail(todo)
      BY <1>6, <1>9, <2>2
    <3> QED
      BY <1>1, <1>2, <3>1, <3>2, SGoesOn DEF x, v
  <2>3. CASE S!Bit(S!Number(rd), 0) # 0
    <3>1. a.n = 0 /\ a.op = 240 /\ a.g = 2
      BY <1>4, <1>5, <1>9 DEF SStep
    <3>2. a = SAt(0, 240, a.may, 2) /\ a.may \in OneBit
      BY <3>1 DEF SStates, SAt
    <3>3. 240 \in Byte /\ 2 \in 0..2
      BY InByte
    <3>4. Runs(SRel, S!poll_busy, a, a)
      BY <3>2, <3>3, SPoll
    <3>5. Runs(SRel, S!poll_busy \o todo, a, b)
      BY <1>3, <3>4, RunsThen
    <3>6. todo' = S!poll_busy \o todo /\ rd' = rd
      BY <1>6, <1>9, <2>3
    <3>7. SAdmits(a)'
      BY <1>1, <1>3, <3>6 DEF SAdmits
    <3> QED
      BY <1>1, <1>2, <1>3, <3>5, <3>6, <3>7 DEF SWithin
  <2> QED
    BY <2>2, <2>3
<1> QED
  BY <1>6, <1>7, <1>8, <1>9

-----------------------------------------------------------------------------
(* setup_serial_programming(): whether the target has been reset (1), how many *)
(* of the 32 bits have been sent to it since (2), whether the next one belongs *)
(* to a byte begun, and whether the echo of the second byte has been kept.     *)

Sent(i) == IF i \in {1, 3, 5, 6, 10, 12, 15, 16} THEN 1 ELSE 0

TStates == [at : 0..3, j : 0..32, z : OneBit, kept : OneBit]

TAt(p, j, z, k) == [at |-> p, j |-> j, z |-> z, kept |-> k]

TStep(a, f, v, b) ==
    \/ f = "reset"  /\ v = 1 /\ a.at = 0 /\ b = TAt(1, 0, 0, 0)
    \/ f = "reset"  /\ v = 0 /\ a.at = 0 /\ b = a
    \/ f = "reset"  /\ v = 0 /\ a.at = 1 /\ b = TAt(2, 0, 0, 0)
    \/ f = "zero"   /\ a.at = 2 /\ a.z = 0 /\ a.j \in {0, 8, 16, 24} /\ (a.j = 24 => a.kept = 1)
                    /\ b = TAt(2, a.j, 1, a.kept)
    \/ f = "mosi"   /\ a.at = 2 /\ a.z = 1 /\ a.j < 32 /\ v = Sent(a.j + 1)
                    /\ b = TAt(2, a.j + 1, IF a.j + 1 \in {8, 16, 24, 32} THEN 0 ELSE 1, a.kept)
    \/ f = "keep"   /\ a = TAt(2, 24, 0, 0) /\ b = TAt(2, 24, 0, 1)
    \/ f = "second" /\ v = 83 /\ a = TAt(2, 32, 0, 1) /\ b = TAt(3, 0, 0, 0)

TRel == {r \in TStates \X Steps \X TStates : TStep(r[1], r[2][1], r[2][2], r[3])}

LEMMA TOne ==
    ASSUME NEW a \in TStates, NEW b \in TStates, NEW f \in Names, NEW v \in Nat, TStep(a, f, v, b)
    PROVE  Runs(TRel, <<<<f, v>>>>, a, b)
<1>1. <<f, v>> \in Steps /\ <<f, v>>[1] = f /\ <<f, v>>[2] = v
  BY DEF Steps
<1>2. <<a, <<f, v>>, b>> \in TRel
  BY <1>1 DEF TRel
<1> QED
  BY <1>1, <1>2, RunsOne

LEMMA TFirst ==
    ASSUME NEW a \in TStates, NEW b, NEW s, s # <<>>, Runs(TRel, s, a, b)
    PROVE  \E c \in TStates : TStep(a, Head(s)[1], Head(s)[2], c) /\ Runs(TRel, Tail(s), c, b)
<1>1. PICK c : <<a, Head(s), c>> \in TRel /\ Runs(TRel, Tail(s), c, b)
  BY RunsFirst
<1>2. c \in TStates /\ TStep(a, Head(s)[1], Head(s)[2], c)
  BY <1>1 DEF TRel
<1> QED
  BY <1>1, <1>2

LEMMA TEight ==
    ASSUME NEW k \in {0, 8, 16, 24}, NEW e \in OneBit,
           NEW s \in Seq(Steps), Len(s) = 8,
           \A i \in 1..8 : s[i][1] = "mosi" /\ s[i][2] = Sent(k + i)
    PROVE  Runs(TRel, s, TAt(2, k, 1, e), TAt(2, k + 8, 0, e))
<1> DEFINE F(i) == IF i = 9 THEN TAt(2, k + 8, 0, e) ELSE TAt(2, k + i - 1, 1, e)
           t == [i \in 1..9 |-> F(i)]
<1>1. \A i \in 1..8 : F(i) = TAt(2, k + i - 1, 1, e)
  <2>1. \A i \in 1..8 : i # 9
    OBVIOUS
  <2> QED
    BY <2>1, Zenon
<1>2. F(9) = TAt(2, k + 8, 0, e)
  OBVIOUS
<1> HIDE DEF F
<1>3. \A i \in 1..9 : t[i] = F(i)
  OBVIOUS
<1>4. \A i \in 1..8 : /\ i \in 1..9 /\ i + 1 \in 1..9 /\ k + i - 1 \in 0..31 /\ (k + i - 1) + 1 = k + i
                      /\ k + i \in 0..32 /\ (i # 8 => k + i \notin {8, 16, 24, 32})
                      /\ (i = 8 => k + i \in {8, 16, 24, 32})
  BY SMTT(60)
<1> HIDE DEF t
<1>5. t[1] = TAt(2, k, 1, e) /\ t[9] = TAt(2, k + 8, 0, e)
  <2>1. k + 1 - 1 = k /\ 1 \in 1..8 /\ 1 \in 1..9 /\ 9 \in 1..9
    OBVIOUS
  <2>2. F(1) = TAt(2, k, 1, e)
    BY <1>1, <2>1
  <2> QED
    BY <1>2, <1>3, <2>1, <2>2, ZenonT(60)
<1>6. \A i \in 1..8 : t[i] = TAt(2, k + i - 1, 1, e)
  BY <1>1, <1>3, <1>4, ZenonT(60)
<1>7. \A i \in 1..8 : t[i + 1] = TAt(2, k + i, IF k + i \in {8, 16, 24, 32} THEN 0 ELSE 1, e)
  <2> TAKE i \in 1..8
  <2>1. CASE i = 8
    <3>1. t[i + 1] = t[9] /\ k + i = k + 8
      BY <2>1
    <3>2. (IF k + i \in {8, 16, 24, 32} THEN 0 ELSE 1) = 0
      BY <1>4, <2>1
    <3> QED
      BY <1>5, <3>1, <3>2
  <2>2. CASE i # 8
    <3>1. i + 1 \in 1..8 /\ k + (i + 1) - 1 = k + i
      BY <2>2
    <3>2. t[i + 1] = TAt(2, k + i, 1, e)
      BY <1>6, <3>1
    <3>3. (IF k + i \in {8, 16, 24, 32} THEN 0 ELSE 1) = 1
      BY <1>4, <2>2
    <3> QED
      BY <3>2, <3>3
  <2> QED
    BY <2>1, <2>2
<1>8. \A i \in 1..8 : <<t[i], s[i], t[i + 1]>> \in TRel
  <2> TAKE i \in 1..8
  <2> DEFINE x == k + i - 1
             y == k + i
             z == IF y \in {8, 16, 24, 32} THEN 0 ELSE 1
  <2>1. x \in 0..31 /\ y \in 0..32 /\ x + 1 = y /\ z \in OneBit
    BY <1>4 DEF OneBit
  <2>2. t[i] = TAt(2, x, 1, e) /\ t[i + 1] = TAt(2, y, z, e)
    BY <1>6, <1>7
  <2>3. s[i] \in Steps
    <3>1. i \in 1..Len(s)
      OBVIOUS
    <3> QED
      BY <3>1, ElementOf
  <2>4. s[i][1] = "mosi" /\ s[i][2] = Sent(y)
    OBVIOUS
  <2>5. z = IF x + 1 \in {8, 16, 24, 32} THEN 0 ELSE 1
    BY <2>1
  <2> HIDE DEF x, y, z
  <2>6. TAt(2, x, 1, e) \in TStates /\ TAt(2, y, z, e) \in TStates
    BY <2>1 DEF TAt, TStates, OneBit
  <2>7. /\ TAt(2, x, 1, e).at = 2 /\ TAt(2, x, 1, e).j = x /\ TAt(2, x, 1, e).z = 1
        /\ TAt(2, x, 1, e).kept = e
    BY DEF TAt
  <2>8. x < 32
    BY <2>1, SMTT(60)
  <2>9. TStep(TAt(2, x, 1, e), s[i][1], s[i][2], TAt(2, y, z, e))
    BY <2>1, <2>4, <2>5, <2>7, <2>8 DEF TStep
  <2> DEFINE r == <<t[i], s[i], t[i + 1]>>
  <2>10. r[1] = t[i] /\ r[2] = s[i] /\ r[3] = t[i + 1] /\ r \in TStates \X Steps \X TStates
    BY <2>2, <2>3, <2>6
  <2> HIDE DEF r
  <2>11. r \in TRel
    BY <2>2, <2>9, <2>10 DEF TRel
  <2> QED
    BY <2>11 DEF r
<1>9. 8 + 1 = 9
  OBVIOUS
<1> QED
  BY <1>5, <1>8, <1>9 DEF Runs

\* The bits of the three bytes that are sent.
LEMMA BitsSent ==
    \A i \in 1..8 : /\ S!Bits(172)[i] = Sent(0 + i) /\ S!Bits(83)[i] = Sent(8 + i)
                    /\ S!Bits(0)[i] = Sent(16 + i) /\ S!Bits(0)[i] = Sent(24 + i)
<1> DEFINE B(w, i) == (w \div i) % 2
<1>1. 2^0 = 1 /\ 2^1 = 2 /\ 2^2 = 4 /\ 2^3 = 8 /\ 2^4 = 16 /\ 2^5 = 32 /\ 2^6 = 64 /\ 2^7 = 128
  OBVIOUS
<1>2. ASSUME NEW w \in Nat
      PROVE  /\ S!Bits(w)[1] = B(w, 128) /\ S!Bits(w)[2] = B(w, 64) /\ S!Bits(w)[3] = B(w, 32)
             /\ S!Bits(w)[4] = B(w, 16) /\ S!Bits(w)[5] = B(w, 8) /\ S!Bits(w)[6] = B(w, 4)
             /\ S!Bits(w)[7] = B(w, 2) /\ S!Bits(w)[8] = B(w, 1)
  <2>1. \A i \in 1..8 : S!Bits(w)[i] = (w \div 2^(8 - i)) % 2
    BY BitsTyped DEF S!Bit
  <2>2. 8 - 1 = 7 /\ 8 - 2 = 6 /\ 8 - 3 = 5 /\ 8 - 4 = 4 /\ 8 - 5 = 3 /\ 8 - 6 = 2 /\ 8 - 7 = 1 /\ 8 - 8 = 0
    OBVIOUS
  <2>3. /\ S!Bits(w)[1] = (w \div 2^7) % 2 /\ S!Bits(w)[2] = (w \div 2^6) % 2 /\ S!Bits(w)[3] = (w \div 2^5) % 2
        /\ S!Bits(w)[4] = (w \div 2^4) % 2 /\ S!Bits(w)[5] = (w \div 2^3) % 2 /\ S!Bits(w)[6] = (w \div 2^2) % 2
        /\ S!Bits(w)[7] = (w \div 2^1) % 2 /\ S!Bits(w)[8] = (w \div 2^0) % 2
    BY <2>1, <2>2
  <2> QED
    BY <1>1, <2>3
<1>3. 172 \in Nat /\ 83 \in Nat /\ 0 \in Nat
  OBVIOUS
<1>4. \A i \in 1..8 : i = 1 \/ i = 2 \/ i = 3 \/ i = 4 \/ i = 5 \/ i = 6 \/ i = 7 \/ i = 8
  OBVIOUS
<1>5. /\ B(172, 128) = 1 /\ B(172, 64) = 0 /\ B(172, 32) = 1 /\ B(172, 16) = 0
      /\ B(172, 8) = 1 /\ B(172, 4) = 1 /\ B(172, 2) = 0 /\ B(172, 1) = 0
  OBVIOUS
<1>6. /\ B(83, 128) = 0 /\ B(83, 64) = 1 /\ B(83, 32) = 0 /\ B(83, 16) = 1
      /\ B(83, 8) = 0 /\ B(83, 4) = 0 /\ B(83, 2) = 1 /\ B(83, 1) = 1
  OBVIOUS
<1>7. /\ B(0, 128) = 0 /\ B(0, 64) = 0 /\ B(0, 32) = 0 /\ B(0, 16) = 0
      /\ B(0, 8) = 0 /\ B(0, 4) = 0 /\ B(0, 2) = 0 /\ B(0, 1) = 0
  OBVIOUS
<1> HIDE DEF B
<1>8. \A i \in 1..8 : S!Bits(172)[i] = Sent(0 + i)
  BY <1>2, <1>3, <1>4, <1>5 DEF Sent
<1>9. \A i \in 1..8 : S!Bits(83)[i] = Sent(8 + i)
  BY <1>2, <1>3, <1>4, <1>6 DEF Sent
<1>10. \A i \in 1..8 : S!Bits(0)[i] = 0
  BY <1>2, <1>3, <1>4, <1>7
<1>11. \A i \in 1..8 : Sent(16 + i) = 0 /\ Sent(24 + i) = 0
  BY DEF Sent
<1> QED
  BY <1>8, <1>9, <1>10, <1>11

LEMMA TByte ==
    ASSUME NEW k \in {0, 8, 16, 24}, NEW e \in OneBit, NEW w \in Nat, k = 24 => e = 1,
           \A i \in 1..8 : S!Bits(w)[i] = Sent(k + i)
    PROVE  Runs(TRel, S!write_byte(w), TAt(2, k, 0, e), TAt(2, k + 8, 0, e))
<1> DEFINE s == [i \in 1..8 |-> <<"mosi", S!Bits(w)[i]>>]
<1>1. /\ s \in Seq(Steps) /\ Len(s) = 8
      /\ \A i \in 1..8 : s[i][1] = "mosi" /\ s[i][2] = S!Bits(w)[i] /\ s[i][2] \in OneBit
  BY BitSteps, ZenonT(60)
<1>2. S!write_byte(w) = <<<<"zero", 0>>>> \o s
  BY DEF S!write_byte
<1> HIDE DEF s
<1>3. Runs(TRel, s, TAt(2, k, 1, e), TAt(2, k + 8, 0, e))
  BY <1>1, TEight, ZenonT(60)
<1>4. /\ TAt(2, k, 0, e) \in TStates /\ TAt(2, k, 1, e) \in TStates
      /\ TAt(2, k, 0, e).at = 2 /\ TAt(2, k, 0, e).j = k /\ TAt(2, k, 0, e).z = 0 /\ TAt(2, k, 0, e).kept = e
  BY DEF TAt, TStates, OneBit
<1>5. TStep(TAt(2, k, 0, e), "zero", 0, TAt(2, k, 1, e))
  BY <1>4 DEF TStep
<1>6. "zero" \in Names /\ 0 \in Nat
  BY DEF Names
<1>7. Runs(TRel, <<<<"zero", 0>>>>, TAt(2, k, 0, e), TAt(2, k, 1, e))
  BY <1>4, <1>5, <1>6, TOne
<1> QED
  BY <1>2, <1>3, <1>7, RunsThen

LEMMA TParts ==
    /\ Runs(TRel, S!write_byte(172), TAt(2, 0, 0, 0), TAt(2, 8, 0, 0))
    /\ Runs(TRel, S!write_byte(83), TAt(2, 8, 0, 0), TAt(2, 16, 0, 0))
    /\ Runs(TRel, S!write_byte(0), TAt(2, 16, 0, 0), TAt(2, 24, 0, 0))
    /\ Runs(TRel, S!Keep, TAt(2, 24, 0, 0), TAt(2, 24, 0, 1))
    /\ Runs(TRel, S!write_byte(0), TAt(2, 24, 0, 1), TAt(2, 32, 0, 1))
    /\ Runs(TRel, <<<<"second", 83>>>>, TAt(2, 32, 0, 1), TAt(3, 0, 0, 0))
<1>1. /\ 0 \in OneBit /\ 1 \in OneBit /\ 172 \in Nat /\ 83 \in Nat /\ 0 \in Nat
      /\ 0 \in {0, 8, 16, 24} /\ 8 \in {0, 8, 16, 24} /\ 16 \in {0, 8, 16, 24} /\ 24 \in {0, 8, 16, 24}
      /\ 0 + 8 = 8 /\ 8 + 8 = 16 /\ 16 + 8 = 24 /\ 24 + 8 = 32 /\ 0 # 24 /\ 8 # 24 /\ 16 # 24
      /\ "keep" \in Names /\ "second" \in Names
  BY DEF OneBit, Names
<1>2. Runs(TRel, S!write_byte(172), TAt(2, 0, 0, 0), TAt(2, 0 + 8, 0, 0))
  BY <1>1, BitsSent, TByte
<1>3. Runs(TRel, S!write_byte(83), TAt(2, 8, 0, 0), TAt(2, 8 + 8, 0, 0))
  BY <1>1, BitsSent, TByte
<1>4. Runs(TRel, S!write_byte(0), TAt(2, 16, 0, 0), TAt(2, 16 + 8, 0, 0))
  BY <1>1, BitsSent, TByte
<1>5. Runs(TRel, S!write_byte(0), TAt(2, 24, 0, 1), TAt(2, 24 + 8, 0, 1))
  BY <1>1, BitsSent, TByte
<1>6. /\ TAt(2, 24, 0, 0) \in TStates /\ TAt(2, 24, 0, 1) \in TStates /\ TAt(2, 32, 0, 1) \in TStates
      /\ TAt(3, 0, 0, 0) \in TStates
  BY DEF TAt, TStates, OneBit
<1>7. TStep(TAt(2, 24, 0, 0), "keep", 0, TAt(2, 24, 0, 1)) /\ TStep(TAt(2, 32, 0, 1), "second", 83, TAt(3, 0, 0, 0))
  BY DEF TStep
<1>8. /\ Runs(TRel, S!Keep, TAt(2, 24, 0, 0), TAt(2, 24, 0, 1))
      /\ Runs(TRel, <<<<"second", 83>>>>, TAt(2, 32, 0, 1), TAt(3, 0, 0, 0))
  BY <1>1, <1>6, <1>7, TOne DEF S!Keep
<1> QED
  BY <1>1, <1>2, <1>3, <1>4, <1>5, <1>8

LEMMA TSetup ==
    /\ Runs(TRel, S!setup_serial_programming, TAt(0, 0, 0, 0), TAt(3, 0, 0, 0))
    /\ Runs(TRel, S!reset \o S!enable_serial_programming, TAt(0, 0, 0, 0), TAt(3, 0, 0, 0))
<1> DEFINE a == S!write_byte(172)
           b == S!write_byte(83)
           c == S!write_byte(0)
           d == <<<<"second", 83>>>>
           r == <<<<"reset", 1>>>>
           z == <<<<"reset", 0>>>>
<1>1. S!enable_serial_programming = a \o b \o c \o S!Keep \o c \o d
  BY Hexes DEF S!enable_serial_programming
<1>2. S!reset = r \o z
  <2> DEFINE x == <<"reset", 1>>
             y == <<"reset", 0>>
  <2>1. x \in Steps /\ y \in Steps
    BY DEF Steps, Names
  <2> HIDE DEF x, y
  <2>2. <<x, y>> = <<x>> \o <<y>>
    BY <2>1, TwoSteps
  <2> QED
    BY <2>2 DEF S!reset, x, y
<1>3. /\ TAt(0, 0, 0, 0) \in TStates /\ TAt(1, 0, 0, 0) \in TStates /\ TAt(2, 0, 0, 0) \in TStates
      /\ TAt(0, 0, 0, 0).at = 0 /\ TAt(1, 0, 0, 0).at = 1
  BY DEF TAt, TStates, OneBit
<1>4. /\ TStep(TAt(0, 0, 0, 0), "reset", 0, TAt(0, 0, 0, 0)) /\ TStep(TAt(0, 0, 0, 0), "reset", 1, TAt(1, 0, 0, 0))
      /\ TStep(TAt(1, 0, 0, 0), "reset", 0, TAt(2, 0, 0, 0))
  BY <1>3 DEF TStep
<1>5. "reset" \in Names /\ 0 \in Nat /\ 1 \in Nat
  BY DEF Names
<1>6. /\ Runs(TRel, z, TAt(0, 0, 0, 0), TAt(0, 0, 0, 0)) /\ Runs(TRel, r, TAt(0, 0, 0, 0), TAt(1, 0, 0, 0))
      /\ Runs(TRel, z, TAt(1, 0, 0, 0), TAt(2, 0, 0, 0))
  BY <1>3, <1>4, <1>5, TOne
<1>7. /\ Runs(TRel, a, TAt(2, 0, 0, 0), TAt(2, 8, 0, 0)) /\ Runs(TRel, b, TAt(2, 8, 0, 0), TAt(2, 16, 0, 0))
      /\ Runs(TRel, c, TAt(2, 16, 0, 0), TAt(2, 24, 0, 0)) /\ Runs(TRel, c, TAt(2, 24, 0, 1), TAt(2, 32, 0, 1))
      /\ Runs(TRel, S!Keep, TAt(2, 24, 0, 0), TAt(2, 24, 0, 1)) /\ Runs(TRel, d, TAt(2, 32, 0, 1), TAt(3, 0, 0, 0))
  BY TParts
<1>8. S!setup_serial_programming = z \o S!reset \o S!enable_serial_programming
  BY DEF S!setup_serial_programming
<1> HIDE DEF a, b, c, d, r, z
<1>9. Runs(TRel, S!reset, TAt(0, 0, 0, 0), TAt(2, 0, 0, 0))
  BY <1>2, <1>6, RunsThen
<1>10. Runs(TRel, a \o b, TAt(2, 0, 0, 0), TAt(2, 16, 0, 0))
  BY <1>7, RunsThen
<1>11. Runs(TRel, a \o b \o c, TAt(2, 0, 0, 0), TAt(2, 24, 0, 0))
  BY <1>7, <1>10, RunsThen
<1>12. Runs(TRel, a \o b \o c \o S!Keep, TAt(2, 0, 0, 0), TAt(2, 24, 0, 1))
  BY <1>7, <1>11, RunsThen
<1>13. Runs(TRel, a \o b \o c \o S!Keep \o c, TAt(2, 0, 0, 0), TAt(2, 32, 0, 1))
  BY <1>7, <1>12, RunsThen
<1>14. Runs(TRel, S!enable_serial_programming, TAt(2, 0, 0, 0), TAt(3, 0, 0, 0))
  BY <1>1, <1>7, <1>13, RunsThen
<1>15. Runs(TRel, z \o S!reset, TAt(0, 0, 0, 0), TAt(2, 0, 0, 0))
  BY <1>6, <1>9, RunsThen
<1>16. Runs(TRel, S!setup_serial_programming, TAt(0, 0, 0, 0), TAt(3, 0, 0, 0))
  BY <1>8, <1>14, <1>15, RunsThen
<1> QED
  BY <1>9, <1>14, <1>16, RunsThen

\* How much of what is sent a target that heard a wrong start may have taken
\* for its first bits.
Behind(n) ==
    CASE n = 1  -> {0, 1, 3, 5, 6, 10, 12, 15, 16}
      [] n = 2  -> {2, 4, 7, 11, 13, 17}
      [] n = 3  -> {3, 5, 12}
      [] n = 4  -> {4, 13}
      [] n = 5  -> {5}
      [] n = 6  -> {5, 6}
      [] n = 8  -> {7, 8}
      [] n = 9  -> {7, 8, 9}
      [] n = 14 -> {13, 14}
      [] OTHER  -> {n}

AsSent(s, n) == \A i \in 1..n : s[i] = Sent(i)

Deaf(j) ==
    /\ ~enabled /\ Len(rx) < 32
    /\ out \in Seq({1}) /\ Len(out) = 8 - (Len(rx) % 8)
    /\ Len(rx) \in 1..15 /\ AsSent(rx, Len(rx)) => j \in Behind(Len(rx)) /\ (j = 0 => pins.mosi = 1)

OnTime(j) ==
    /\ enabled /\ j \in 16..32 /\ Len(rx) = IF j = 32 THEN 0 ELSE j
    /\ j < 32 => AsSent(rx, 16)
    /\ (\E U : out \in Seq(U)) /\ Len(out) = 8 - (j % 8)

\* How far the bit count of a target that heard an edge too many has come.
AheadBy(j) == IF j > 30 THEN j - 31 ELSE j + 1

TooEarly(j) ==
    /\ enabled /\ j \in 15..32 /\ Len(rx) = AheadBy(j)
    /\ j < 31 => AsSent(rx, 16)
    /\ out \in Seq(OneBit) /\ Len(out) = 8 - ((j + 1) % 8)
    /\ j = 15 => out[2] = 1
    /\ j = 16 => out[1] = 1

\* The echo of the second byte will not be its own.
Betrayed(a) ==
    /\ a.kept = 0 /\ a.j \in 16..24 /\ (a.j = 16 => a.z = 1)
          => rd \in Seq(OneBit) /\ Len(rd) = a.j - 16 /\ (a.j > 16 => rd[1] = 1)
    /\ a.kept = 1 => ret[1] >= 128

TAdmits(a) ==
    /\ enabled \in BOOLEAN
    /\ a.at \in {0, 1} => ret = <<>>
    /\ a.at = 0 => Len(rx) < 32
    /\ a.at = 1 => ~enabled /\ pins.resetb = 1
    /\ a.at = 2 => /\ a.j > 0 => pins.mosi = Sent(a.j)
                   /\ a.kept = 0 => ret = <<>>
                   /\ OnTime(a.j) \/ ((Deaf(a.j) \/ TooEarly(a.j)) /\ Betrayed(a))
    /\ a.at = 3 => enabled /\ rx = <<>> /\ (\E U : out \in Seq(U)) /\ Len(out) = 8

LEMMA SentBit == ASSUME NEW i PROVE Sent(i) \in OneBit
  BY DEF Sent, OneBit

LEMMA BehindMoves ==
    /\ \A j \in 0..32 : Sent(j + 1) = Sent(1) => j + 1 \in Behind(1)
    /\ \A j \in 1..32 : Sent(j) = Sent(1) => j \in Behind(1)
    /\ 0 \in Behind(1)
    /\ \A n \in 1..14 : \A j \in Behind(n) :
          /\ j \in 0..31 /\ (j = 0 => n = 1)
          /\ Sent(j + 1) = Sent(n + 1) => j + 1 \in Behind(n + 1)
          /\ j > 0 /\ Sent(j) = Sent(n + 1) => j \in Behind(n + 1)
    /\ Behind(15) = {15} /\ Sent(1) = 1 /\ Sent(2) = 0
<1>1. \A n \in 1..14 : n \in {1, 2, 3, 4, 5} \/ n \in {6, 7, 8, 9, 10} \/ n \in {11, 12, 13, 14}
  OBVIOUS
<1> DEFINE Moves(n) == \A j \in Behind(n) :
                          /\ j \in 0..31 /\ (j = 0 => n = 1)
                          /\ Sent(j + 1) = Sent(n + 1) => j + 1 \in Behind(n + 1)
                          /\ j > 0 /\ Sent(j) = Sent(n + 1) => j \in Behind(n + 1)
<1>2. \A n \in {1, 2, 3, 4, 5} : Moves(n)
  <2>1. Moves(1)
    BY DEF Behind, Sent
  <2>2. Moves(2)
    BY DEF Behind, Sent
  <2>3. Moves(3)
    BY DEF Behind, Sent
  <2>4. Moves(4)
    BY DEF Behind, Sent
  <2>5. Moves(5)
    BY DEF Behind, Sent
  <2> HIDE DEF Moves
  <2> QED
    BY <2>1, <2>2, <2>3, <2>4, <2>5
<1>3. \A n \in {6, 7, 8, 9, 10} : Moves(n)
  <2>1. Moves(6)
    BY DEF Behind, Sent
  <2>2. Moves(7)
    BY DEF Behind, Sent
  <2>3. Moves(8)
    BY DEF Behind, Sent
  <2>4. Moves(9)
    BY DEF Behind, Sent
  <2>5. Moves(10)
    BY DEF Behind, Sent
  <2> HIDE DEF Moves
  <2> QED
    BY <2>1, <2>2, <2>3, <2>4, <2>5
<1>4. \A n \in {11, 12, 13, 14} : Moves(n)
  <2>1. Moves(11)
    BY DEF Behind, Sent
  <2>2. Moves(12)
    BY DEF Behind, Sent
  <2>3. Moves(13)
    BY DEF Behind, Sent
  <2>4. Moves(14)
    BY DEF Behind, Sent
  <2> HIDE DEF Moves
  <2> QED
    BY <2>1, <2>2, <2>3, <2>4
<1>5. \A j \in 0..32 : Sent(j + 1) = Sent(1) => j + 1 \in Behind(1)
  BY DEF Behind, Sent
<1>6. \A j \in 1..32 : Sent(j) = Sent(1) => j \in Behind(1)
  BY DEF Behind, Sent
<1>7. 0 \in Behind(1) /\ Behind(15) = {15} /\ Sent(1) = 1 /\ Sent(2) = 0
  BY DEF Behind, Sent
<1>8. \A n \in 1..14 : Moves(n)
  <2> HIDE DEF Moves
  <2> QED
    BY <1>1, <1>2, <1>3, <1>4
<1> QED
  BY <1>5, <1>6, <1>7, <1>8

LEMMA BytesOf ==
    ASSUME NEW s \in Seq(OneBit), Len(s) >= 16
    PROVE  /\ S!ByteOf(s, 1) = 16 * (8 * s[1] + 4 * s[2] + 2 * s[3] + s[4]) + (8 * s[5] + 4 * s[6] + 2 * s[7] + s[8])
           /\ S!ByteOf(s, 2) = 16 * (8 * s[9] + 4 * s[10] + 2 * s[11] + s[12])
                                 + (8 * s[13] + 4 * s[14] + 2 * s[15] + s[16])
           /\ \A i \in 1..16 : s[i] \in OneBit
<1> DEFINE u == SubSeq(s, 1, 8)
           v == SubSeq(s, 9, 16)
<1>1. \A i \in 1..8 : u[i] = s[i] /\ v[i] = s[8 + i]
  OBVIOUS
<1>2. S!ByteOf(s, 1) = S!Number(u) /\ S!ByteOf(s, 2) = S!Number(v)
  BY DEF S!ByteOf
<1> HIDE DEF u, v
<1>3. /\ S!Number(u) = 16 * (8 * u[1] + 4 * u[2] + 2 * u[3] + u[4]) + (8 * u[5] + 4 * u[6] + 2 * u[7] + u[8])
      /\ S!Number(v) = 16 * (8 * v[1] + 4 * v[2] + 2 * v[3] + v[4]) + (8 * v[5] + 4 * v[6] + 2 * v[7] + v[8])
  BY DEF S!Number
<1>4. /\ u[1] = s[1] /\ u[2] = s[2] /\ u[3] = s[3] /\ u[4] = s[4] /\ u[5] = s[5] /\ u[6] = s[6] /\ u[7] = s[7] /\ u[8] = s[8]
      /\ v[1] = s[9] /\ v[2] = s[10] /\ v[3] = s[11] /\ v[4] = s[12] /\ v[5] = s[13] /\ v[6] = s[14] /\ v[7] = s[15] /\ v[8] = s[16]
  BY <1>1
<1>5. \A i \in 1..16 : s[i] \in OneBit
  <2>1. \A i \in 1..16 : i \in 1..Len(s)
    OBVIOUS
  <2> QED
    BY <2>1, ElementOf
<1> QED
  BY <1>2, <1>3, <1>4, <1>5

LEMMA Decoded ==
    /\ \A a, b, c, d, e, f, g, h \in {0, 1} :
          16 * (8 * a + 4 * b + 2 * c + d) + (8 * e + 4 * f + 2 * g + h) = 172
            => a = 1 /\ b = 0 /\ c = 1 /\ d = 0 /\ e = 1 /\ f = 1 /\ g = 0 /\ h = 0
    /\ \A a, b, c, d, e, f, g, h \in {0, 1} :
          16 * (8 * a + 4 * b + 2 * c + d) + (8 * e + 4 * f + 2 * g + h) = 83
            => a = 0 /\ b = 1 /\ c = 0 /\ d = 1 /\ e = 0 /\ f = 0 /\ g = 1 /\ h = 1
  OBVIOUS

LEMMA EnableBits ==
    ASSUME NEW s \in Seq(OneBit), Len(s) >= 16
    PROVE  S!ByteOf(s, 1) = 172 /\ S!ByteOf(s, 2) = 83 <=> AsSent(s, 16)
<1>1. ASSUME AsSent(s, 16) PROVE S!ByteOf(s, 1) = 172 /\ S!ByteOf(s, 2) = 83
  <2>1. /\ s[1] = 1 /\ s[2] = 0 /\ s[3] = 1 /\ s[4] = 0 /\ s[5] = 1 /\ s[6] = 1 /\ s[7] = 0 /\ s[8] = 0
        /\ s[9] = 0 /\ s[10] = 1 /\ s[11] = 0 /\ s[12] = 1 /\ s[13] = 0 /\ s[14] = 0 /\ s[15] = 1 /\ s[16] = 1
    BY <1>1 DEF AsSent, Sent
  <2>2. /\ 16 * (8 * s[1] + 4 * s[2] + 2 * s[3] + s[4]) + (8 * s[5] + 4 * s[6] + 2 * s[7] + s[8]) = 172
        /\ 16 * (8 * s[9] + 4 * s[10] + 2 * s[11] + s[12]) + (8 * s[13] + 4 * s[14] + 2 * s[15] + s[16]) = 83
    BY <2>1
  <2> QED
    BY <2>2, BytesOf
<1>2. ASSUME S!ByteOf(s, 1) = 172, S!ByteOf(s, 2) = 83 PROVE AsSent(s, 16)
  <2>1. \A i \in 1..16 : s[i] \in {0, 1}
    BY BytesOf, ZenonT(60) DEF OneBit
  <2>2. PICK a, b, c, d, e, f, g, h \in {0, 1} :
            a = s[1] /\ b = s[2] /\ c = s[3] /\ d = s[4] /\ e = s[5] /\ f = s[6] /\ g = s[7] /\ h = s[8]
    BY <2>1, SMTT(60)
  <2>3. 16 * (8 * a + 4 * b + 2 * c + d) + (8 * e + 4 * f + 2 * g + h) = 172
    BY <1>2, <2>2, BytesOf
  <2>4. a = 1 /\ b = 0 /\ c = 1 /\ d = 0 /\ e = 1 /\ f = 1 /\ g = 0 /\ h = 0
    BY <2>3, SMTT(60)
  <2>5. PICK k, l, m, n, o, p, q, r \in {0, 1} :
            k = s[9] /\ l = s[10] /\ m = s[11] /\ n = s[12] /\ o = s[13] /\ p = s[14] /\ q = s[15] /\ r = s[16]
    BY <2>1, SMTT(60)
  <2>6. 16 * (8 * k + 4 * l + 2 * m + n) + (8 * o + 4 * p + 2 * q + r) = 83
    BY <1>2, <2>5, BytesOf
  <2>7. k = 0 /\ l = 1 /\ m = 0 /\ n = 1 /\ o = 0 /\ p = 0 /\ q = 1 /\ r = 1
    BY <2>6
  <2>8. /\ s[1] = 1 /\ s[2] = 0 /\ s[3] = 1 /\ s[4] = 0 /\ s[5] = 1 /\ s[6] = 1 /\ s[7] = 0 /\ s[8] = 0
        /\ s[9] = 0 /\ s[10] = 1 /\ s[11] = 0 /\ s[12] = 1 /\ s[13] = 0 /\ s[14] = 0 /\ s[15] = 1 /\ s[16] = 1
    BY <2>2, <2>4, <2>5, <2>7
  <2>9. \A i \in 1..16 : i \in {1, 2, 3, 4, 5, 6, 7, 8, 9, 10, 11, 12, 13, 14, 15, 16}
    OBVIOUS
  <2> QED
    BY <2>8, <2>9 DEF AsSent, Sent
<1> QED
  BY <1>1, <1>2

LEMMA SEnabling == ASSUME NEW c, NEW b, b[1] = 172, b[2] = 83 PROVE S!Execute(c, b) = c
  BY Hexes DEF S!Execute

LEMMA TwoOrThree ==
    \A n \in {16, 24} : n >= 16 /\ (n = 16 => n \div 8 = 2) /\ (n = 24 => n \div 8 = 3 /\ 24 <= n)
  OBVIOUS

LEMMA Counting ==
    \A n \in Nat : n < 32 => /\ (n + 1 = 16 <=> n = 15) /\ (n + 1 = 32 <=> n = 31)
                             /\ (n + 1 < 32 <=> n < 31) /\ (n # 31 <=> n < 31)
  OBVIOUS

\* What a pulse does that does not complete an instruction of an enabled target.
LEMMA TPulse ==
    ASSUME NEW m \in OneBit, rx \in Seq(OneBit), Len(rx) < 32, enabled \in BOOLEAN, S!TargetClock(m),
           enabled => (Len(rx) >= 16 => AsSent(rx, 16))
    PROVE  /\ chip' = chip /\ rx' \in Seq(OneBit) /\ enabled' \in BOOLEAN
           /\ Len(rx) = 31 => Len(rx') = 0
           /\ Len(rx) < 31 => /\ Len(rx') = Len(rx) + 1 /\ rx'[Len(rx) + 1] = m
                              /\ \A i \in 1..Len(rx) : rx'[i] = rx[i]
           /\ enabled' <=> enabled \/ (Len(rx) = 15 /\ AsSent(rx', 16))
           /\ (Len(rx) + 1) % 8 # 0 => out' = Tail(out)
           /\ (Len(rx) + 1) % 8 = 0 /\ (Len(rx) = 31 \/ ~enabled') => out' = S!Bits(255)
           /\ (Len(rx) + 1) % 8 = 0 /\ Len(rx) < 31 /\ enabled' => out' = S!Bits(S!Reply(chip, rx'))
<1> DEFINE n == Len(rx)
           bits == Append(rx, m)
           w == [k \in 1..4 |-> S!ByteOf(bits, k)]
           on == enabled \/ (n + 1 = 16 /\ S!ByteOf(bits, 1) = 172 /\ S!ByteOf(bits, 2) = 83)
<1>1. n \in Nat /\ n < 32
  OBVIOUS
<1> HIDE DEF n
<1>20. (n + 1 = 16 <=> n = 15) /\ (n + 1 = 32 <=> n = 31) /\ (n + 1 < 32 <=> n < 31) /\ (n # 31 <=> n < 31)
  BY <1>1, Counting
<1> USE DEF n
<1>2. bits \in Seq(OneBit) /\ Len(bits) = n + 1 /\ bits[n + 1] = m /\ \A i \in 1..n : bits[i] = rx[i]
  BY Appended
<1>3. /\ enabled' = on /\ rx' = IF n + 1 = 32 THEN <<>> ELSE bits
      /\ chip' = IF n + 1 = 32 /\ on THEN S!Execute(chip, w) ELSE chip
      /\ out' = IF (n + 1) % 8 = 0 /\ n + 1 < 32 /\ on THEN S!Bits(S!Reply(chip, bits)) ELSE
                IF (n + 1) % 8 = 0 THEN S!Bits(255) ELSE Tail(out)
  BY <1>2, Hexes DEF S!TargetClock
<1>4. 1 \in 1..4 /\ 2 \in 1..4
  OBVIOUS
<1>5. w[1] = S!ByteOf(bits, 1) /\ w[2] = S!ByteOf(bits, 2)
  BY <1>4
<1> HIDE DEF w, bits, n
<1>6. on <=> enabled \/ (n = 15 /\ AsSent(bits, 16))
  <2>1. CASE n = 15
    <3>1. Len(bits) >= 16
      BY <1>2, <2>1
    <3>2. S!ByteOf(bits, 1) = 172 /\ S!ByteOf(bits, 2) = 83 <=> AsSent(bits, 16)
      BY <1>2, <3>1, EnableBits
    <3> QED
      BY <1>20, <2>1, <3>2
  <2>2. CASE n # 15
    BY <1>20, <2>2
  <2> QED
    BY <2>1, <2>2
<1>7. chip' = chip
  <2>1. CASE n = 31 /\ on
    <3>1. enabled
      BY <2>1
    <3>2. AsSent(bits, 16)
      <4>0. n >= 16
        <5>1. \A k \in Nat : k = 31 => k >= 16
          OBVIOUS
        <5> QED
          BY <1>1, <2>1, <5>1
      <4>1. AsSent(rx, 16)
        BY <3>1, <4>0 DEF n
      <4>2. \A i \in 1..16 : i \in 1..n
        BY <1>20, <2>1
      <4>3. \A i \in 1..16 : bits[i] = rx[i]
        BY <1>2, <4>2
      <4> QED
        BY <4>1, <4>3 DEF AsSent
    <3>3. Len(bits) >= 16
      BY <1>2, <2>1
    <3>4. w[1] = 172 /\ w[2] = 83
      BY <1>2, <1>5, <3>2, <3>3, EnableBits
    <3> QED
      BY <1>3, <1>20, <2>1, <3>4, SEnabling
  <2>2. CASE ~(n = 31 /\ on)
    <3> QED
      BY <1>3, <1>20, <2>2
  <2> QED
    BY <2>1, <2>2
<1>8. rx' \in Seq(OneBit) /\ (n = 31 => Len(rx') = 0) /\ (n # 31 => rx' = bits)
  <2>1. CASE n = 31
    <3>1. rx' = <<>>
      BY <1>3, <1>20, <2>1
    <3> QED
      BY <2>1, <3>1
  <2>2. CASE n # 31
    <3>1. rx' = bits
      BY <1>3, <1>20, <2>2
    <3> QED
      BY <1>2, <2>2, <3>1
  <2> QED
    BY <2>1, <2>2
<1>9. enabled' <=> enabled \/ (n = 15 /\ AsSent(rx', 16))
  <2>1. CASE n = 15
    <3>1. rx' = bits
      BY <1>8, <2>1
    <3> QED
      BY <1>3, <1>6, <3>1, ZenonT(60)
  <2>2. CASE n # 15
    BY <1>3, <1>6, <2>2
  <2> QED
    BY <2>1, <2>2
<1>11. /\ (n + 1) % 8 # 0 => out' = Tail(out)
       /\ (n + 1) % 8 = 0 /\ (n = 31 \/ ~enabled') => out' = S!Bits(255)
       /\ (n + 1) % 8 = 0 /\ n < 31 /\ enabled' => out' = S!Bits(S!Reply(chip, bits))
  <2>1. (n + 1) % 8 # 0 => out' = Tail(out)
    BY <1>3
  <2>2. (n + 1) % 8 = 0 /\ n = 31 => out' = S!Bits(255)
    BY <1>3, <1>20
  <2>3. (n + 1) % 8 = 0 /\ ~enabled' => out' = S!Bits(255)
    BY <1>3
  <2>4. (n + 1) % 8 = 0 /\ n < 31 /\ enabled' => out' = S!Bits(S!Reply(chip, bits))
    BY <1>3, <1>20
  <2> QED
    BY <2>1, <2>2, <2>3, <2>4
<1>12. (n + 1) % 8 = 0 /\ n < 31 /\ enabled' => out' = S!Bits(S!Reply(chip, rx'))
  BY <1>8, <1>11, <1>20
<1>14. enabled' \in BOOLEAN
  BY <1>3
<1>13. n < 31 => Len(rx') = n + 1 /\ rx'[n + 1] = m /\ \A i \in 1..n : rx'[i] = rx[i]
  BY <1>2, <1>8, <1>20
<1> QED
  BY <1>7, <1>8, <1>9, <1>11, <1>12, <1>13, <1>14 DEF n

LEMMA AllOnes == /\ S!Bits(255) \in Seq({1}) /\ Len(S!Bits(255)) = 8
<1> DEFINE s == S!Bits(255)
<1>1. \A i \in 1..8 : s[i] = S!Bit(255, 8 - i)
  BY BitsTyped, SMTT(60)
<1>2. \A i \in 1..8 : 8 - i = 7 \/ 8 - i = 6 \/ 8 - i = 5 \/ 8 - i = 4 \/ 8 - i = 3 \/ 8 - i = 2 \/ 8 - i = 1 \/ 8 - i = 0
  OBVIOUS
<1>3. 2^0 = 1 /\ 2^1 = 2 /\ 2^2 = 4 /\ 2^3 = 8 /\ 2^4 = 16 /\ 2^5 = 32 /\ 2^6 = 64 /\ 2^7 = 128
  OBVIOUS
<1>4. /\ S!Bit(255, 0) = 1 /\ S!Bit(255, 1) = 1 /\ S!Bit(255, 2) = 1 /\ S!Bit(255, 3) = 1
      /\ S!Bit(255, 4) = 1 /\ S!Bit(255, 5) = 1 /\ S!Bit(255, 6) = 1 /\ S!Bit(255, 7) = 1
  BY <1>3 DEF S!Bit
<1>5. \A i \in 1..8 : s[i] = 1
  BY <1>1, <1>2, <1>4
<1>6. s \in Seq(OneBit) /\ Len(s) = 8
  BY BitsTyped
<1> HIDE DEF s
<1>7. s \in Seq({1})
  <2>1. s = [i \in 1..8 |-> s[i]]
    BY <1>6
  <2>2. [i \in 1..8 |-> s[i]] = [i \in 1..8 |-> 1]
    BY <1>5
  <2>3. [i \in 1..8 |-> 1] \in Seq({1})
    OBVIOUS
  <2> QED
    BY <2>1, <2>2, <2>3
<1> QED
  BY <1>6, <1>7 DEF s

LEMMA Middle == ASSUME NEW s \in Seq(OneBit), 24 <= Len(s) PROVE SubSeq(s, 17, 24) \in Seq(OneBit) /\ Len(SubSeq(s, 17, 24)) = 8
  OBVIOUS

\* The reply of a target that has just been enabled, or is so between two bytes.
LEMMA SEcho ==
    ASSUME NEW c, NEW s \in Seq(OneBit), Len(s) \in {16, 24}, AsSent(s, 16)
    PROVE  /\ Len(s) = 16 => S!Reply(c, s) = 83
           /\ S!Bits(S!Reply(c, s)) \in Seq(OneBit)
<1>0. Len(s) >= 16
  BY TwoOrThree
<1>1. S!ByteOf(s, 1) = 172 /\ S!ByteOf(s, 2) = 83
  BY <1>0, EnableBits
<1> DEFINE b == [k \in 1..(Len(s) \div 8) |-> S!ByteOf(s, k)]
<1>2. /\ Len(s) = 16 => Len(s) \div 8 = 2
      /\ Len(s) = 24 => Len(s) \div 8 = 3
  BY TwoOrThree
<1>3. /\ b[1] = 172 /\ (Len(s) = 16 => b[2] = 83) /\ (Len(s) = 24 => b[3] = S!ByteOf(s, 3))
  <2>1. 1 \in 1..(Len(s) \div 8) /\ (Len(s) = 16 => 2 \in 1..(Len(s) \div 8)) /\ (Len(s) = 24 => 3 \in 1..(Len(s) \div 8))
    BY <1>2
  <2> QED
    BY <1>1, <2>1
<1>4. S!Reply(c, s) = b[Len(s) \div 8]
  <2> HIDE DEF b
  <2>1. S!Reply(c, s) =
          LET n == Len(s) \div 8
          IN CASE n = 3 /\ b[1] = 48 -> Signature[b[3] % 3]
               [] n = 3 /\ b[1] = 56 -> Calibration
               [] n = 3 /\ b[1] = 88 -> IF b[2] = 8 THEN c.mem.hfuse ELSE c.mem.lock
               [] n = 3 /\ b[1] = 80 -> IF b[2] = 8 THEN c.mem.efuse ELSE c.mem.lfuse
               [] n = 3 /\ b[1] = 160 -> c.mem.eep[S!Addr(b) % EepBytes]
               [] n = 3 /\ b[1] = 32 -> S!Low(c.mem.flash[S!Addr(b) % SPM_SZ_WORDS])
               [] n = 3 /\ b[1] = 40 -> S!High(c.mem.flash[S!Addr(b) % SPM_SZ_WORDS])
               [] n = 3 /\ b[1] = 240 -> IF c.busy THEN 1 ELSE 0
               [] OTHER -> b[n]
    BY Hexes DEF S!Reply, b
  <2> QED
    BY <1>3, <2>1
<1>5. ASSUME Len(s) = 24 PROVE S!ByteOf(s, 3) \in Nat
  <2> DEFINE u == SubSeq(s, 17, 24)
  <2>0. 24 <= Len(s) /\ 17 \in Nat /\ 24 \in Nat
    BY <1>5
  <2>1. u \in Seq(OneBit) /\ Len(u) = 8
    BY <2>0, Middle
  <2>2. S!ByteOf(s, 3) = S!Number(u)
    BY DEF S!ByteOf
  <2> HIDE DEF u
  <2>3. S!Number(u) \in Nat
    BY <2>1, NumberIsNat
  <2> QED
    BY <2>2, <2>3
<1> HIDE DEF b
<1>6. S!Reply(c, s) \in Nat /\ (Len(s) = 16 => S!Reply(c, s) = 83)
  BY <1>2, <1>3, <1>4, <1>5
<1> QED
  BY <1>6, BitsTyped

LEMMA Octets ==
    /\ \A n \in 0..31 : /\ (n + 1) % 8 # 0 => 8 - (n % 8) > 1 /\ (8 - (n % 8)) - 1 = 8 - ((n + 1) % 8) /\ n < 31
                        /\ (n + 1) % 8 = 0 => 8 - ((n + 1) % 8) = 8
                        /\ n % 8 \in 0..7 /\ 8 - (n % 8) > 0 /\ (n = 31 \/ n < 31)
    /\ 8 - (0 % 8) = 8 /\ 8 - (16 % 8) = 8
  OBVIOUS

LEMMA Short ==
    ASSUME NEW s \in Seq(OneBit), Len(s) < 32 PROVE Len(s) \in 0..31
<1>1. Len(s) \in Nat
  OBVIOUS
<1>2. \A n \in Nat : n < 32 => n \in 0..31
  OBVIOUS
<1> QED
  BY <1>1, <1>2

LEMMA SecondOf ==
    ASSUME NEW T, NEW s \in Seq(T), Len(s) > 1
    PROVE  Tail(s) \in Seq(T) /\ Len(Tail(s)) = Len(s) - 1 /\ Tail(s)[1] = s[2]
  OBVIOUS

LEMMA TOut ==
    ASSUME NEW T, out \in Seq(T), NEW n \in 0..31, Len(out) = 8 - (n % 8)
    PROVE  /\ Head(out) \in T /\ Head(out) = out[1]
           /\ (n + 1) % 8 # 0 /\ out' = Tail(out)
                 => out' \in Seq(T) /\ Len(out') = 8 - ((n + 1) % 8) /\ out'[1] = out[2]
<1> DEFINE k == Len(out)
<1>1. k > 0 /\ k \in Nat
  BY Octets
<1>2. Head(out) \in T /\ Head(out) = out[1]
  BY <1>1
<1>3. ASSUME (n + 1) % 8 # 0, out' = Tail(out)
      PROVE  out' \in Seq(T) /\ Len(out') = 8 - ((n + 1) % 8) /\ out'[1] = out[2]
  <2>1. k > 1 /\ k - 1 = 8 - ((n + 1) % 8)
    BY <1>3, Octets
  <2>2. Tail(out) \in Seq(T) /\ Len(Tail(out)) = k - 1 /\ Tail(out)[1] = out[2]
    BY <2>1, SecondOf
  <2> HIDE DEF k
  <2> QED
    BY <1>3, <2>1, <2>2
<1> QED
  BY <1>2, <1>3

\* A target that has not been enabled takes another bit.
LEMMA DeafPulse ==
    ASSUME NEW j \in 0..32, NEW k \in 0..32, NEW m \in OneBit, Deaf(j), rx \in Seq(OneBit), enabled \in BOOLEAN, S!TargetClock(m),
           \/ k = j + 1 /\ m = Sent(k)
           \/ k = j /\ m = pins.mosi /\ (j > 0 => m = Sent(j)),
           pins'.mosi = m
    PROVE  /\ chip' = chip /\ rx' \in Seq(OneBit) /\ enabled' \in BOOLEAN
           /\ Head(out) = 1
           /\ Deaf(k)' \/ OnTime(k)' \/ TooEarly(k)'
<1> DEFINE n == Len(rx)
<1>1. /\ ~enabled /\ n < 32 /\ out \in Seq({1}) /\ Len(out) = 8 - (n % 8)
      /\ n \in 1..15 /\ AsSent(rx, n) => j \in Behind(n) /\ (j = 0 => pins.mosi = 1)
  BY DEF Deaf
<1>2. n \in 0..31
  BY <1>1, Short
<1>3. /\ chip' = chip /\ rx' \in Seq(OneBit)
      /\ (n + 1) % 8 = 0 /\ n < 31 /\ enabled' => out' = S!Bits(S!Reply(chip, rx'))
      /\ n = 31 => Len(rx') = 0
      /\ n < 31 => /\ Len(rx') = n + 1 /\ rx'[n + 1] = m
                   /\ \A i \in 1..n : rx'[i] = rx[i]
      /\ enabled' <=> n = 15 /\ AsSent(rx', 16)
      /\ enabled' \in BOOLEAN
      /\ (n + 1) % 8 # 0 => out' = Tail(out)
      /\ (n + 1) % 8 = 0 => out' = S!Bits(255) \/ (n < 31 /\ enabled' /\ out' = S!Bits(S!Reply(chip, rx')))
  <2>1. enabled => (Len(rx) >= 16 => AsSent(rx, 16))
    BY <1>1
  <2>2. /\ chip' = chip /\ rx' \in Seq(OneBit) /\ enabled' \in BOOLEAN
        /\ Len(rx) = 31 => Len(rx') = 0
        /\ Len(rx) < 31 => /\ Len(rx') = Len(rx) + 1 /\ rx'[Len(rx) + 1] = m
                           /\ \A i \in 1..Len(rx) : rx'[i] = rx[i]
        /\ enabled' <=> enabled \/ (Len(rx) = 15 /\ AsSent(rx', 16))
        /\ (Len(rx) + 1) % 8 # 0 => out' = Tail(out)
        /\ (Len(rx) + 1) % 8 = 0 /\ (Len(rx) = 31 \/ ~enabled') => out' = S!Bits(255)
        /\ (Len(rx) + 1) % 8 = 0 /\ Len(rx) < 31 /\ enabled' => out' = S!Bits(S!Reply(chip, rx'))
    BY <1>1, <2>1, TPulse
  <2>3. n = 31 \/ n < 31
    BY <1>2, Octets
  <2> HIDE DEF n
  <2>4. (n + 1) % 8 = 0 => out' = S!Bits(255) \/ (n < 31 /\ enabled' /\ out' = S!Bits(S!Reply(chip, rx')))
    <3>1. CASE enabled' /\ n < 31
      BY <2>2, <3>1 DEF n
    <3>2. CASE ~(enabled' /\ n < 31)
      BY <2>2, <2>3, <3>2 DEF n
    <3> QED
      BY <3>1, <3>2
  <2>5. enabled' <=> n = 15 /\ AsSent(rx', 16)
    BY <1>1, <2>2 DEF n
  <2> QED
    BY <2>2, <2>4, <2>5 DEF n
<1>4. Head(out) = 1 /\ ((n + 1) % 8 # 0 => out' \in Seq({1}) /\ Len(out') = 8 - ((n + 1) % 8))
  <2>1. /\ Head(out) \in {1}
        /\ (n + 1) % 8 # 0 /\ out' = Tail(out) => out' \in Seq({1}) /\ Len(out') = 8 - ((n + 1) % 8)
    BY <1>1, <1>2, TOut
  <2> QED
    BY <1>3, <2>1
<1>5. enabled' \in BOOLEAN
  BY <1>3
<1> HIDE DEF n
<1>6. CASE enabled'
  <2>1. n = 15 /\ AsSent(rx', 16)
    BY <1>3, <1>6
  <2>2. n < 31 /\ n + 1 = 16 /\ (n + 1) % 8 = 0
    BY <2>1
  <2>3. Len(rx') = 16 /\ \A i \in 1..15 : rx'[i] = rx[i]
    BY <1>3, <2>1, <2>2
  <2>4. j = 15
    <3>1. \A i \in 1..15 : i \in 1..16
      OBVIOUS
    <3>2. AsSent(rx, n)
      BY <2>1, <2>3, <3>1 DEF AsSent
    <3>3. n \in 1..15
      BY <2>1
    <3>4. j \in Behind(15)
      BY <1>1, <2>1, <3>2, <3>3
    <3> QED
      BY <3>4, BehindMoves
  <2>5. out' = S!Bits(S!Reply(chip, rx'))
    BY <1>3, <1>6, <2>2
  <2>6. out' = S!Bits(83)
    <3>1. Len(rx') \in {16, 24}
      BY <2>3
    <3>2. S!Reply(chip, rx') = 83
      BY <1>3, <2>1, <2>3, <3>1, SEcho
    <3> QED
      BY <2>5, <3>2
  <2>7. out' \in Seq(OneBit) /\ Len(out') = 8 /\ out'[2] = 1
    <3>1. S!Bits(83) \in Seq(OneBit) /\ Len(S!Bits(83)) = 8
      BY BitsTyped
    <3>2. S!Bits(83)[2] = Sent(8 + 2) /\ 8 + 2 = 10
      BY BitsSent
    <3> QED
      BY <2>6, <3>1, <3>2 DEF Sent
  <2>8. CASE k = 16
    <3>1. OnTime(16)'
      BY <1>6, <2>1, <2>3, <2>7, Octets DEF OnTime
    <3> QED
      BY <1>3, <1>4, <1>5, <2>8, <3>1
  <2>9. CASE k = 15
    <3>1. TooEarly(15)'
      BY <1>6, <2>1, <2>3, <2>7, Octets DEF TooEarly, AheadBy
    <3> QED
      BY <1>3, <1>4, <1>5, <2>9, <3>1
  <2> QED
    BY <2>4, <2>8, <2>9
<1>7. CASE ~enabled'
  <2>1. out' \in Seq({1}) /\ Len(out') = 8 - (Len(rx') % 8) /\ Len(rx') < 32
    <3>1. CASE (n + 1) % 8 # 0
      <4>1. Len(rx') = n + 1 /\ n < 31
        BY <1>2, <1>3, <3>1, Octets
      <4>2. \A i \in 0..31 : i < 31 => i + 1 < 32
        OBVIOUS
      <4>3. Len(rx') < 32
        BY <1>2, <4>1, <4>2
      <4> QED
        BY <1>4, <3>1, <4>1, <4>3
    <3>2. CASE (n + 1) % 8 = 0
      <4>1. out' = S!Bits(255)
        BY <1>3, <1>7, <3>2
      <4>2. Len(rx') = 0 \/ (Len(rx') = n + 1 /\ n < 31)
        <5>1. n = 31 \/ n < 31
          BY <1>2
        <5> QED
          BY <1>3, <5>1
      <4>3. Len(rx') % 8 = 0 /\ Len(rx') < 32
        <5>1. \A i \in 0..31 : i < 31 => i + 1 < 32
          OBVIOUS
        <5> QED
          BY <1>2, <3>2, <4>2, <5>1
      <4>4. 8 - (Len(rx') % 8) = 8 - 0 /\ 8 - 0 = 8
        BY <4>3
      <4>5. out' \in Seq({1}) /\ Len(out') = 8
        BY <4>1, AllOnes
      <4> QED
        BY <4>3, <4>4, <4>5
    <3> QED
      BY <3>1, <3>2
  <2>2. ASSUME Len(rx') \in 1..15, AsSent(rx', Len(rx')) PROVE k \in Behind(Len(rx')) /\ (k = 0 => m = 1)
    <3>1. n \in 0..14 /\ Len(rx') = n + 1
      <4>1. n # 31
        <5>0. \A i \in 1..15 : i # 0
          OBVIOUS
        <5>1. Len(rx') # 0
          BY <2>2, <5>0
        <5> QED
          BY <1>3, <5>1
      <4>2. n < 31
        BY <1>2, <4>1
      <4>3. Len(rx') = n + 1
        BY <1>3, <4>2
      <4>4. \A i \in 0..31 : i + 1 \in 1..15 => i \in 0..14
        OBVIOUS
      <4> QED
        BY <1>2, <2>2, <4>3, <4>4
    <3>2. n < 31 /\ \A i \in 1..(n + 1) : rx'[i] = Sent(i)
      BY <2>2, <3>1, SMTT(60) DEF AsSent
    <3>3. m = Sent(n + 1)
      <4>1. n + 1 \in 1..(n + 1)
        BY <3>1
      <4> QED
        BY <1>3, <3>2, <4>1
    <3>4. CASE n = 0
      <4>1. m = Sent(1) /\ Len(rx') = 1
        BY <3>1, <3>3, <3>4
      <4>2. k = j + 1 => k \in Behind(1) /\ k # 0
        <5>1. \A i \in 0..32 : i + 1 # 0
          OBVIOUS
        <5>2. k = j + 1 => Sent(j + 1) = Sent(1) /\ k # 0
          BY <4>1, <5>1
        <5> QED
          BY <5>2, BehindMoves, ZenonT(60)
      <4>3. k = j /\ j > 0 => j \in 1..32
        OBVIOUS
      <4>4. k = j /\ j > 0 => k \in Behind(1)
        BY <4>1, <4>3, BehindMoves
      <4>5. j = 0 \/ j > 0
        OBVIOUS
      <4>6. k = j /\ j = 0 => k \in Behind(1) /\ m = 1
        BY <4>1, BehindMoves
      <4>7. k = j => k \in Behind(1) /\ (k = 0 => m = 1)
        BY <4>4, <4>5, <4>6, BehindMoves, <4>1
      <4> QED
        BY <4>1, <4>2, <4>7
    <3>5. CASE n # 0
      <4>1. n \in 1..14 /\ n \in 1..15
        BY <3>1, <3>5
      <4>2. AsSent(rx, n)
        <5>1. \A i \in 1..n : i \in 1..(n + 1)
          BY <4>1
        <5> QED
          BY <1>3, <3>2, <5>1 DEF AsSent
      <4>3. j \in Behind(n) /\ (j = 0 => pins.mosi = 1)
        BY <1>1, <4>1, <4>2
      <4>4. /\ (j = 0 => n = 1)
            /\ Sent(j + 1) = Sent(n + 1) => j + 1 \in Behind(n + 1)
            /\ j > 0 /\ Sent(j) = Sent(n + 1) => j \in Behind(n + 1)
        BY <4>1, <4>3, BehindMoves
      <4>5. k = j + 1 => k \in Behind(n + 1) /\ k # 0
        BY <3>3, <4>4
      <4>6. k = j => j # 0
        <5>1. ASSUME k = j, j = 0 PROVE FALSE
          <6>1. m = 1 /\ n = 1
            BY <4>3, <4>4, <5>1
          <6>2. m = Sent(2)
            BY <3>3, <6>1
          <6> QED
            BY <6>1, <6>2, BehindMoves
        <5> QED
          BY <5>1
      <4>7. k = j => j > 0
        BY <4>6
      <4>8. k = j => k \in Behind(n + 1) /\ k # 0
        BY <3>3, <4>4, <4>7
      <4> QED
        BY <3>1, <4>5, <4>8
    <3> QED
      BY <3>4, <3>5
  <2>3. Deaf(k)'
    BY <1>7, <2>1, <2>2 DEF Deaf
  <2> QED
    BY <1>3, <1>4, <1>5, <2>3
<1> QED
  BY <1>6, <1>7

\* An enabled target takes another bit of the setup.
LEMMA OnMoves ==
    ASSUME NEW n \in 0..31, enabled = TRUE, rx \in Seq(OneBit), Len(rx) = n, NEW m \in OneBit, S!TargetClock(m),
           n >= 16 => AsSent(rx, 16), NEW T, out \in Seq(T), Len(out) = 8 - (n % 8)
    PROVE  /\ chip' = chip /\ rx' \in Seq(OneBit) /\ enabled' = TRUE
           /\ n = 31 => Len(rx') = 0
           /\ n < 31 => Len(rx') = n + 1
           /\ n < 31 /\ n >= 16 => AsSent(rx', 16)
           /\ Head(out) \in T /\ Head(out) = out[1]
           /\ (n + 1) % 8 # 0 => out' \in Seq(T) /\ Len(out') = 8 - ((n + 1) % 8) /\ out'[1] = out[2]
           /\ (n + 1) % 8 = 0 => \/ out' = S!Bits(255)
                                 \/ n < 31 /\ out' = S!Bits(S!Reply(chip, rx'))
<1>1. enabled \in BOOLEAN /\ enabled /\ Len(rx) < 32 /\ (enabled => (Len(rx) >= 16 => AsSent(rx, 16)))
  OBVIOUS
<1>2. /\ chip' = chip /\ rx' \in Seq(OneBit) /\ enabled' \in BOOLEAN
      /\ Len(rx) = 31 => Len(rx') = 0
      /\ Len(rx) < 31 => /\ Len(rx') = Len(rx) + 1 /\ rx'[Len(rx) + 1] = m
                         /\ \A i \in 1..Len(rx) : rx'[i] = rx[i]
      /\ enabled' <=> enabled \/ (Len(rx) = 15 /\ AsSent(rx', 16))
      /\ (Len(rx) + 1) % 8 # 0 => out' = Tail(out)
      /\ (Len(rx) + 1) % 8 = 0 /\ (Len(rx) = 31 \/ ~enabled') => out' = S!Bits(255)
      /\ (Len(rx) + 1) % 8 = 0 /\ Len(rx) < 31 /\ enabled' => out' = S!Bits(S!Reply(chip, rx'))
  BY <1>1, TPulse
<1>3. n = 31 \/ n < 31
  BY Octets
<1>4. enabled'
  BY <1>1, <1>2
<1>5. enabled' = TRUE
  BY <1>2, <1>4
<1>6. (n + 1) % 8 = 0 => \/ out' = S!Bits(255)
                         \/ n < 31 /\ out' = S!Bits(S!Reply(chip, rx'))
  <2>1. CASE n = 31
    BY <1>2, <2>1
  <2>2. CASE n < 31
    BY <1>2, <1>4, <2>2
  <2> QED
    BY <1>3, <2>1, <2>2
<1>7. ASSUME n < 31, n >= 16 PROVE AsSent(rx', 16)
  <2>1. \A i \in 1..16 : i \in 1..n
    BY <1>7
  <2>2. \A i \in 1..16 : rx'[i] = rx[i]
    BY <1>2, <1>7, <2>1
  <2> QED
    BY <1>7, <2>2 DEF AsSent
<1>8. /\ Head(out) \in T /\ Head(out) = out[1]
      /\ (n + 1) % 8 # 0 => out' \in Seq(T) /\ Len(out') = 8 - ((n + 1) % 8) /\ out'[1] = out[2]
  BY <1>2, TOut
<1> QED
  BY <1>2, <1>5, <1>6, <1>7, <1>8

LEMMA OnTimeArithmetic ==
    \A j \in 16..31 : /\ j \in 0..31 /\ j < 32 /\ j >= 16 /\ j # 32 /\ j + 1 \in 16..32 /\ (j + 1 = 32 <=> j = 31)
                      /\ (j + 1 < 32 <=> j < 31) /\ (j = 31 \/ j < 31)
  OBVIOUS

LEMMA OnPulse ==
    ASSUME NEW j \in 0..31, OnTime(j), rx \in Seq(OneBit), enabled \in BOOLEAN, NEW m \in OneBit, S!TargetClock(m)
    PROVE  chip' = chip /\ rx' \in Seq(OneBit) /\ enabled' = TRUE /\ OnTime(j + 1)'
<1>1. /\ enabled = TRUE /\ j \in 16..31 /\ (j < 32 => AsSent(rx, 16))
      /\ Len(rx) = (IF j = 32 THEN 0 ELSE j) /\ Len(out) = 8 - (j % 8)
  BY DEF OnTime
<1>2. /\ j < 32 /\ j >= 16 /\ j # 32 /\ j + 1 \in 16..32 /\ (j + 1 = 32 <=> j = 31)
      /\ (j + 1 < 32 <=> j < 31) /\ (j = 31 \/ j < 31)
  BY <1>1, OnTimeArithmetic
<1>3. PICK U : out \in Seq(U)
  BY DEF OnTime
<1>4. Len(rx) = j /\ AsSent(rx, 16)
  BY <1>1, <1>2
<1>5. /\ chip' = chip /\ rx' \in Seq(OneBit) /\ enabled' = TRUE
      /\ j = 31 => Len(rx') = 0
      /\ j < 31 => Len(rx') = j + 1
      /\ j < 31 /\ j >= 16 => AsSent(rx', 16)
      /\ (j + 1) % 8 # 0 => out' \in Seq(U) /\ Len(out') = 8 - ((j + 1) % 8)
      /\ (j + 1) % 8 = 0 => \/ out' = S!Bits(255)
                            \/ j < 31 /\ out' = S!Bits(S!Reply(chip, rx'))
  BY <1>1, <1>3, <1>4, OnMoves, ZenonT(60)
<1>6. (\E V : out' \in Seq(V)) /\ Len(out') = 8 - ((j + 1) % 8)
  <2>1. CASE (j + 1) % 8 # 0
    BY <1>5, <2>1
  <2>2. CASE (j + 1) % 8 = 0
    <3>1. Len(out') = 8 /\ \E V : out' \in Seq(V)
      BY <1>5, <2>2, BitsLong
    <3>2. 8 - ((j + 1) % 8) = 8
      BY <2>2
    <3> QED
      BY <3>1, <3>2
  <2> QED
    BY <2>1, <2>2
<1>7. Len(rx') = IF j + 1 = 32 THEN 0 ELSE j + 1
  BY <1>2, <1>5
<1>8. j + 1 < 32 => AsSent(rx', 16)
  BY <1>2, <1>5
<1>9. enabled' /\ j + 1 \in 16..32
  BY <1>2, <1>5
<1>10. OnTime(j + 1)'
  BY <1>6, <1>7, <1>8, <1>9 DEF OnTime
<1> QED
  BY <1>5, <1>10

EarlyFacts(j, n, p) ==
    /\ n \in 0..31 /\ (j + 1) % 8 = n % 8 /\ (j + 2) % 8 = (n + 1) % 8 /\ j + 1 \in 15..32
    /\ (n >= 16 => j < 31)
    /\ (j + 1 < 31 => n < 31 /\ n >= 16)
    /\ (n = 31 => p = 0)
    /\ (n < 31 => p = n + 1)
    /\ ((n + 1) % 8 = 0 => n = 31 \/ (n = 23 /\ n < 31))
    /\ j + 1 # 15
    /\ (j + 1 = 16 => j = 15 /\ (n + 1) % 8 # 0)
    /\ (n = 31 \/ n < 31)
    /\ (j + 1) + 1 = j + 2

LEMMA EarlyArithmetic == \A j \in 15..31 : EarlyFacts(j, AheadBy(j), AheadBy(j + 1))
  BY DEF EarlyFacts, AheadBy

LEMMA EarlyPulse ==
    ASSUME NEW j \in 0..31, TooEarly(j), rx \in Seq(OneBit), enabled \in BOOLEAN, NEW m \in OneBit, S!TargetClock(m)
    PROVE  /\ chip' = chip /\ rx' \in Seq(OneBit) /\ enabled' = TRUE
           /\ Head(out) \in OneBit /\ (j = 16 => Head(out) = 1)
           /\ TooEarly(j + 1)'
<1> DEFINE n == AheadBy(j)
           n1 == AheadBy(j + 1)
<1>1. /\ enabled = TRUE /\ j \in 15..31 /\ Len(rx) = n /\ (j < 31 => AsSent(rx, 16))
      /\ out \in Seq(OneBit) /\ Len(out) = 8 - ((j + 1) % 8)
      /\ (j = 15 => out[2] = 1) /\ (j = 16 => out[1] = 1)
  BY DEF TooEarly
<1>0. EarlyFacts(j, n, n1)
  BY <1>1, EarlyArithmetic
<1> HIDE DEF n, n1
<1>2. /\ n \in 0..31 /\ (j + 1) % 8 = n % 8 /\ (j + 2) % 8 = (n + 1) % 8 /\ j + 1 \in 15..32
      /\ (n >= 16 => j < 31)
      /\ (j + 1 < 31 => n < 31 /\ n >= 16)
      /\ (n = 31 => n1 = 0)
      /\ (n < 31 => n1 = n + 1)
      /\ ((n + 1) % 8 = 0 => n = 31 \/ (n = 23 /\ n < 31))
      /\ j + 1 # 15
      /\ (j + 1 = 16 => j = 15 /\ (n + 1) % 8 # 0)
      /\ (n = 31 \/ n < 31)
      /\ (j + 1) + 1 = j + 2
  BY <1>0 DEF EarlyFacts
<1>3. /\ chip' = chip /\ rx' \in Seq(OneBit) /\ enabled' = TRUE
      /\ n = 31 => Len(rx') = 0
      /\ n < 31 => Len(rx') = n + 1
      /\ n < 31 /\ n >= 16 => AsSent(rx', 16)
      /\ Head(out) \in OneBit /\ Head(out) = out[1]
      /\ (n + 1) % 8 # 0 => out' \in Seq(OneBit) /\ Len(out') = 8 - ((n + 1) % 8) /\ out'[1] = out[2]
      /\ (n + 1) % 8 = 0 => \/ out' = S!Bits(255)
                            \/ n < 31 /\ out' = S!Bits(S!Reply(chip, rx'))
  <2>1. Len(out) = 8 - (n % 8) /\ (n >= 16 => AsSent(rx, 16))
    BY <1>1, <1>2
  <2> HIDE DEF S!TargetClock, S!Reply, S!Bits
  <2> QED
    BY <1>1, <1>2, <2>1, OnMoves
<1>4. out' \in Seq(OneBit) /\ Len(out') = 8 - ((j + 2) % 8)
  <2>1. CASE (n + 1) % 8 # 0
    BY <1>2, <1>3, <2>1
  <2>2. CASE (n + 1) % 8 = 0
    <3>1. (j + 2) % 8 = 0
      BY <1>2, <2>2
    <3>2. 8 - ((j + 2) % 8) = 8 - 0 /\ 8 - 0 = 8
      BY <3>1
    <3>3. 255 \in Nat
      OBVIOUS
    <3>4. CASE out' = S!Bits(255)
      BY <3>2, <3>3, <3>4, BitsTyped, ZenonT(60)
    <3>5. CASE n < 31 /\ out' = S!Bits(S!Reply(chip, rx'))
      <4>1. n = 23
        BY <1>2, <2>2, <3>5
      <4>2. Len(rx') = 24 /\ AsSent(rx', 16)
        BY <1>3, <3>5, <4>1
      <4>3. Len(rx') \in {16, 24}
        BY <4>2
      <4>4. out' \in Seq(OneBit)
        BY <1>3, <3>5, <4>2, <4>3, SEcho
      <4>5. Len(out') = 8
        BY <3>5, BitsLong
      <4> QED
        BY <3>2, <4>4, <4>5
    <3> QED
      BY <1>3, <2>2, <3>4, <3>5
  <2> QED
    BY <2>1, <2>2
<1>5. Len(rx') = n1
  BY <1>2, <1>3
<1>6. j + 1 = 16 => out'[1] = 1
  BY <1>1, <1>2, <1>3
<1>7. j + 1 < 31 => AsSent(rx', 16)
  BY <1>2, <1>3
<1>8. TooEarly(j + 1)'
  <2>1. enabled' /\ j + 1 \in 15..32 /\ j + 1 # 15
    BY <1>2, <1>3
  <2>2. Len(out') = 8 - (((j + 1) + 1) % 8)
    BY <1>2, <1>4
  <2> QED
    BY <1>4, <1>5, <1>6, <1>7, <2>1, <2>2 DEF TooEarly, n1
<1>9. j = 16 => Head(out) = 1
  BY <1>1, <1>3
<1> QED
  BY <1>3, <1>8, <1>9

\* setup_serial_programming() is under way.
SSetting ==
    /\ call.fn = Setup["serial"] /\ Ahead("serial", call, calls) /\ ~chip.busy
    /\ \E a \in TStates : Runs(TRel, todo, a, TAt(3, 0, 0, 0)) /\ TAdmits(a)

LEMMA TGoesOn ==
    ASSUME SSetting, todo # <<>>, todo' = Tail(todo), call' = call, calls' = calls, chip' = chip,
           \A a, c \in TStates : TAdmits(a) /\ TStep(a, S!step, S!value, c) => TAdmits(c)'
    PROVE  SSetting'
<1>1. PICK a \in TStates : Runs(TRel, todo, a, TAt(3, 0, 0, 0)) /\ TAdmits(a)
  BY DEF SSetting
<1>2. PICK c \in TStates : TStep(a, Head(todo)[1], Head(todo)[2], c) /\ Runs(TRel, Tail(todo), c, TAt(3, 0, 0, 0))
  BY <1>1, TFirst
<1>3. TAdmits(c)'
  BY <1>1, <1>2 DEF S!step, S!value
<1> QED
  BY <1>1, <1>2, <1>3 DEF SSetting

LEMMA TFields ==
    ASSUME NEW p, NEW j, NEW z, NEW k
    PROVE  TAt(p, j, z, k).at = p /\ TAt(p, j, z, k).j = j /\ TAt(p, j, z, k).z = z /\ TAt(p, j, z, k).kept = k
  BY DEF TAt

LEMMA BitNext ==
    \A j \in 0..31 : /\ j + 1 \in 0..32 /\ j \in 0..32 /\ j + 1 > 0
                     /\ (j + 1 \in 16..24 /\ j + 1 # 16 => j \in 16..24 /\ j + 1 > 16 /\ (j + 1) - 16 = (j - 16) + 1)
                     /\ (j > 16 \/ j <= 16)
                     /\ (j + 1 = 16 => j + 1 \in {8, 16, 24, 32})
                     /\ (j \in 16..24 /\ ~(j > 16) => j = 16)
                     /\ (j = 16 => j - 16 = 0)
                     /\ (j > 16 => j - 16 \in Nat /\ j - 16 > 0)
  OBVIOUS

LEMMA BetrayedOn ==
    ASSUME NEW a \in TStates, Betrayed(a), a.z = 1, a.j < 32, Head(out) \in OneBit, a.j = 16 => Head(out) = 1,
           rd' = Append(rd, Head(out)), ret' = ret,
           NEW c, c = TAt(2, a.j + 1, IF a.j + 1 \in {8, 16, 24, 32} THEN 0 ELSE 1, a.kept)
    PROVE  Betrayed(c)'
<1> DEFINE j == a.j
           h == Head(out)
<1>1. j \in 0..31
  BY DEF TStates
<1>2. c.j = j + 1 /\ c.z = (IF j + 1 \in {8, 16, 24, 32} THEN 0 ELSE 1) /\ c.kept = a.kept
  BY TFields
<1>3. a.kept = 0 /\ j \in 16..24 => rd \in Seq(OneBit) /\ Len(rd) = j - 16 /\ (j > 16 => rd[1] = 1)
  BY DEF Betrayed
<1>4. a.kept = 1 => ret[1] >= 128
  BY DEF Betrayed
<1>5. h \in OneBit /\ (j = 16 => h = 1) /\ rd' = Append(rd, h)
  OBVIOUS
<1> HIDE DEF j, h
<1>6. /\ (j + 1 \in 16..24 /\ j + 1 # 16 => j \in 16..24 /\ j + 1 > 16 /\ (j + 1) - 16 = (j - 16) + 1)
      /\ (j > 16 \/ j <= 16)
      /\ (j + 1 = 16 => j + 1 \in {8, 16, 24, 32})
      /\ (j \in 16..24 /\ ~(j > 16) => j = 16)
      /\ (j = 16 => j - 16 = 0)
      /\ (j > 16 => j - 16 \in Nat /\ j - 16 > 0)
  BY <1>1, BitNext
<1>7. ASSUME a.kept = 0, j + 1 \in 16..24, j + 1 = 16 => c.z = 1
      PROVE  rd' \in Seq(OneBit) /\ Len(rd') = (j + 1) - 16 /\ (j + 1 > 16 => rd'[1] = 1)
  <2>1. j + 1 # 16
    BY <1>2, <1>6, <1>7
  <2>2. j \in 16..24 /\ (j + 1) - 16 = (j - 16) + 1
    BY <1>6, <1>7, <2>1
  <2>3. rd \in Seq(OneBit) /\ Len(rd) = j - 16 /\ (j > 16 => rd[1] = 1)
    BY <1>3, <1>7, <2>2
  <2>4. /\ rd' \in Seq(OneBit) /\ Len(rd') = Len(rd) + 1 /\ rd'[Len(rd) + 1] = h
        /\ \A i \in 1..Len(rd) : rd'[i] = rd[i]
    BY <1>5, <2>3, Appended
  <2>5. rd'[1] = 1
    <3>1. CASE j > 16
      <4>1. 1 \in 1..Len(rd)
        BY <1>6, <2>3, <3>1
      <4> QED
        BY <2>3, <2>4, <3>1, <4>1
    <3>2. CASE ~(j > 16)
      <4>1. j = 16 /\ Len(rd) = 0
        BY <1>6, <2>2, <2>3, <3>2
      <4>2. Len(rd) + 1 = 1
        BY <4>1
      <4> QED
        BY <1>5, <2>4, <4>1, <4>2
    <3> QED
      BY <3>1, <3>2
  <2> QED
    BY <2>2, <2>3, <2>4, <2>5
<1> QED
  BY <1>2, <1>4, <1>7 DEF Betrayed

LEMMA TClock == ASSUME SShape, SSetting, S!ClockStep PROVE SShape' /\ SSetting'
<1> DEFINE x == S!step
           v == S!value
<1>1. /\ todo # <<>> /\ todo' = Tail(todo) /\ call' = call /\ calls' = calls /\ ret' = ret
      /\ x \in {"mosi", "clock"} /\ rd' = Append(rd, Head(out)) /\ S!TargetClock(pins'.mosi)
      /\ pins' = IF x = "mosi" THEN [pins EXCEPT !.mosi = v] ELSE pins
  BY DEF S!ClockStep
<1>2. pins = [resetb |-> pins.resetb, mosi |-> pins.mosi] /\ pins.mosi \in OneBit /\ rx \in Seq(OneBit)
  BY DEF SShape
<1>3. PICK a \in TStates : Runs(TRel, todo, a, TAt(3, 0, 0, 0)) /\ TAdmits(a)
  BY DEF SSetting
<1>4. PICK c \in TStates : TStep(a, Head(todo)[1], Head(todo)[2], c)
  BY <1>1, <1>3, TFirst
<1>5. x = Head(todo)[1] /\ v = Head(todo)[2]
  BY DEF S!step, S!value
<1> HIDE DEF x, v
<1>6. x = "mosi" /\ v \in OneBit
  <2>1. x # "clock"
    BY <1>4, <1>5 DEF TStep
  <2>2. x = "mosi"
    BY <1>1, <2>1
  <2>3. v = Sent(a.j + 1)
    BY <1>4, <1>5, <2>2 DEF TStep
  <2> QED
    BY <2>2, <2>3, SentBit
<1>7. pins' = [resetb |-> pins.resetb, mosi |-> v]
  BY <1>1, <1>2, <1>6
<1>8. pins'.mosi = v /\ pins' = [resetb |-> pins'.resetb, mosi |-> pins'.mosi]
  BY <1>7
<1>9. S!TargetClock(v)
  BY <1>1, <1>8
<1>10. ASSUME NEW p \in TStates, NEW q \in TStates, TAdmits(p), TStep(p, x, v, q)
       PROVE  chip' = chip /\ rx' \in Seq(OneBit) /\ TAdmits(q)'
  <2> DEFINE j == p.j
             k == j + 1
  <2>1. /\ p.at = 2 /\ p.z = 1 /\ p.j < 32 /\ v = Sent(p.j + 1)
        /\ q = TAt(2, p.j + 1, IF p.j + 1 \in {8, 16, 24, 32} THEN 0 ELSE 1, p.kept)
    BY <1>6, <1>10 DEF TStep
  <2>2. j \in 0..31
    BY <2>1 DEF TStates
  <2>3. q.at = 2 /\ q.j = k /\ q.kept = p.kept
    BY <2>1, TFields
  <2>4. /\ enabled \in BOOLEAN /\ (p.kept = 0 => ret = <<>>)
        /\ OnTime(j) \/ ((Deaf(j) \/ TooEarly(j)) /\ Betrayed(p))
    BY <1>10, <2>1 DEF TAdmits
  <2>5. v = Sent(k)
    BY <2>1
  <2> HIDE DEF j
  <2>6. k \in 0..32 /\ j \in 0..32 /\ k > 0
    BY <2>2, BitNext
  <2>7. /\ chip' = chip /\ rx' \in Seq(OneBit) /\ enabled' \in BOOLEAN
        /\ OnTime(k)' \/ ((Deaf(k)' \/ TooEarly(k)') /\ Betrayed(q)')
    <3>1. CASE OnTime(j)
      <4>1. chip' = chip /\ rx' \in Seq(OneBit) /\ enabled' = TRUE /\ OnTime(j + 1)'
        BY <1>2, <1>6, <1>9, <2>2, <2>4, <3>1, OnPulse
      <4> QED
        BY <4>1
    <3>2. CASE Deaf(j) /\ Betrayed(p)
      <4>1. /\ chip' = chip /\ rx' \in Seq(OneBit) /\ enabled' \in BOOLEAN /\ Head(out) = 1
            /\ Deaf(k)' \/ OnTime(k)' \/ TooEarly(k)'
        <5> HIDE DEF k
        <5>1. k = j + 1 /\ v = Sent(k)
          BY <2>5 DEF k
        <5> QED
          BY <1>2, <1>6, <1>8, <1>9, <2>4, <2>6, <3>2, <5>1, DeafPulse
      <4>2. Betrayed(q)'
        <5>1. Head(out) \in OneBit
          BY <4>1 DEF OneBit
        <5> QED
          BY <1>1, <2>1, <3>2, <4>1, <5>1, BetrayedOn
      <4> QED
        BY <4>1, <4>2
    <3>3. CASE TooEarly(j) /\ Betrayed(p)
      <4>1. /\ chip' = chip /\ rx' \in Seq(OneBit) /\ enabled' = TRUE
            /\ Head(out) \in OneBit /\ (j = 16 => Head(out) = 1)
            /\ TooEarly(j + 1)'
        BY <1>2, <1>6, <1>9, <2>2, <2>4, <3>3, EarlyPulse
      <4>2. Betrayed(q)'
        BY <1>1, <2>1, <3>3, <4>1, BetrayedOn DEF j
      <4> QED
        BY <4>1, <4>2
    <3> QED
      BY <2>4, <3>1, <3>2, <3>3
  <2>8. (q.at = 2 => /\ q.j > 0 => pins.mosi = Sent(q.j)
                     /\ q.kept = 0 => ret = <<>>
                     /\ OnTime(q.j) \/ ((Deaf(q.j) \/ TooEarly(q.j)) /\ Betrayed(q)))'
    BY <1>1, <1>8, <2>3, <2>4, <2>5, <2>7
  <2>9. q.at \notin {0, 1, 3}
    BY <2>3
  <2> QED
    BY <2>7, <2>8, <2>9 DEF TAdmits
<1>11. chip' = chip /\ rx' \in Seq(OneBit)
  BY <1>3, <1>4, <1>5, <1>10
<1>12. SShape'
  <2>1. Shaped(chip)' /\ ~chip'.early
    BY <1>11 DEF SShape, Shaped
  <2> QED
    BY <1>6, <1>8, <1>11, <2>1 DEF SShape
<1>13. SSetting'
  BY <1>1, <1>10, <1>11, TGoesOn DEF x, v
<1> QED
  BY <1>12, <1>13

LEMMA TReset == ASSUME SShape, SSetting, S!ResetPin PROVE SShape' /\ SSetting'
<1> DEFINE x == S!step
           v == S!value
<1>1. /\ todo # <<>> /\ todo' = Tail(todo) /\ call' = call /\ calls' = calls /\ ret' = ret /\ chip' = chip
      /\ x = "reset" /\ pins' = [pins EXCEPT !.resetb = v] /\ rx' = <<>> /\ out' = S!Bits(255)
      /\ enabled' = (enabled /\ v = 0)
  BY DEF S!ResetPin
<1>2. pins = [resetb |-> pins.resetb, mosi |-> pins.mosi] /\ pins.mosi \in OneBit
  BY DEF SShape
<1>3. pins' = [resetb |-> v, mosi |-> pins.mosi]
  BY <1>1, <1>2
<1>4. SShape'
  <2>1. pins' = [resetb |-> pins'.resetb, mosi |-> pins'.mosi] /\ pins'.mosi \in OneBit
    BY <1>2, <1>3
  <2> QED
    BY <1>1, <2>1 DEF SShape, Shaped
<1> HIDE DEF x, v
<1>5. ASSUME NEW a \in TStates, NEW c \in TStates, TAdmits(a), TStep(a, x, v, c)
      PROVE  TAdmits(c)'
  <2>1. enabled \in BOOLEAN /\ enabled' \in BOOLEAN
    BY <1>1, <1>5 DEF TAdmits
  <2>2. CASE v = 1 /\ a.at = 0 /\ c = TAt(1, 0, 0, 0)
    <3>1. c.at = 1
      BY <2>2, TFields
    <3>2. ret' = <<>> /\ ~enabled' /\ pins'.resetb = 1
      BY <1>1, <1>3, <1>5, <2>2 DEF TAdmits
    <3> QED
      BY <2>1, <3>1, <3>2 DEF TAdmits
  <2>3. CASE a.at = 0 /\ c = a
    <3>1. Len(rx') < 32
      BY <1>1
    <3> QED
      BY <1>1, <1>5, <2>1, <2>3, <3>1 DEF TAdmits
  <2>4. CASE v = 0 /\ a.at = 1 /\ c = TAt(2, 0, 0, 0)
    <3>1. c.at = 2 /\ c.j = 0 /\ c.kept = 0
      BY <2>4, TFields
    <3>2. ret' = <<>> /\ ~enabled'
      BY <1>1, <1>5, <2>4 DEF TAdmits
    <3>3. Deaf(0)'
      <4>1. Len(rx') = 0 /\ out' \in Seq({1}) /\ Len(out') = 8
        BY <1>1, AllOnes
      <4>2. Len(rx') < 32 /\ Len(rx') \notin 1..15 /\ 8 - (Len(rx') % 8) = 8
        BY <4>1
      <4> QED
        BY <3>2, <4>1, <4>2 DEF Deaf
    <3>4. Betrayed(c)'
      <4>1. c.j \notin 16..24 /\ c.kept # 1
        BY <3>1
      <4> QED
        BY <4>1 DEF Betrayed
    <3>5. ~(c.j > 0)
      BY <3>1
    <3> QED
      BY <2>1, <3>1, <3>2, <3>3, <3>4, <3>5 DEF TAdmits
  <2> QED
    BY <1>1, <1>5, <2>2, <2>3, <2>4 DEF TStep
<1> QED
  BY <1>1, <1>4, <1>5, TGoesOn DEF x, v

\* What was kept decides whether the target is in step.
LEMMA TCompute == ASSUME SShape, SSetting, S!Compute PROVE SShape' /\ SSetting'
<1>1. todo # <<>> /\ UNCHANGED <<calls, call, pins, noise, rx, out, enabled, chip, want>>
  BY DEF S!Compute
<1>2. SShape'
  BY <1>1 DEF SShape, Shaped
<1> DEFINE x == S!step
           v == S!value
<1>3. PICK a \in TStates : Runs(TRel, todo, a, TAt(3, 0, 0, 0)) /\ TAdmits(a)
  BY DEF SSetting
<1>4. PICK c \in TStates : TStep(a, Head(todo)[1], Head(todo)[2], c)
  BY <1>1, <1>3, TFirst
<1>5. x = Head(todo)[1] /\ v = Head(todo)[2]
  BY DEF S!step, S!value
<1>6. /\ x \in {"zero", "keep", "second"}
      /\ x = "zero" => rd' = <<>> /\ ret' = ret /\ todo' = Tail(todo)
      /\ x = "keep" => rd' = rd /\ ret' = Append(ret, S!Number(rd)) /\ todo' = Tail(todo)
      /\ x = "second" => /\ rd' = rd /\ ret' = <<>>
                         /\ todo' = IF ret[1] = v THEN Tail(todo)
                                    ELSE S!reset \o S!enable_serial_programming
  <2>1. x \notin {"high", "busy"}
    BY <1>4, <1>5 DEF TStep
  <2> QED
    BY <2>1 DEF S!Compute
<1> HIDE DEF x, v
<1>7. \A j : (OnTime(j) => OnTime(j)') /\ (Deaf(j) => Deaf(j)') /\ (TooEarly(j) => TooEarly(j)')
  BY <1>1 DEF OnTime, Deaf, TooEarly
<1>8. CASE x = "zero"
  <2>1. ASSUME NEW p \in TStates, NEW q \in TStates, TAdmits(p), TStep(p, x, v, q)
        PROVE  TAdmits(q)'
    <3>1. p.at = 2 /\ p.j \in {0, 8, 16, 24} /\ (p.j = 24 => p.kept = 1) /\ q = TAt(2, p.j, 1, p.kept)
      BY <1>8, <2>1 DEF TStep
    <3>2. q.at = 2 /\ q.j = p.j /\ q.z = 1 /\ q.kept = p.kept
      BY <3>1, TFields
    <3>3. /\ enabled \in BOOLEAN /\ (p.j > 0 => pins.mosi = Sent(p.j)) /\ (p.kept = 0 => ret = <<>>)
          /\ OnTime(p.j) \/ ((Deaf(p.j) \/ TooEarly(p.j)) /\ Betrayed(p))
      BY <2>1, <3>1 DEF TAdmits
    <3>4. rd' = <<>> /\ ret' = ret
      BY <1>6, <1>8
    <3>5. Betrayed(p) => Betrayed(q)'
      <4> SUFFICES ASSUME Betrayed(p) PROVE Betrayed(q)'
        OBVIOUS
      <4>1. q.kept = 1 => ret'[1] >= 128
        BY <3>2, <3>4 DEF Betrayed
      <4>2. q.kept = 0 /\ q.j \in 16..24 => rd' \in Seq(OneBit) /\ Len(rd') = q.j - 16 /\ ~(q.j > 16)
        <5>1. \A j \in {0, 8, 16, 24} : j # 24 /\ j \in 16..24 => j - 16 = 0 /\ ~(j > 16)
          OBVIOUS
        <5>2. rd' \in Seq(OneBit) /\ Len(rd') = 0
          BY <3>4
        <5>3. q.kept = 0 => q.j \in {0, 8, 16, 24} /\ q.j # 24
          BY <3>1, <3>2
        <5> QED
          BY <5>1, <5>2, <5>3
      <4> QED
        BY <4>1, <4>2 DEF Betrayed
    <3>6. q.at \notin {0, 1, 3}
      BY <3>2
    <3>7. enabled' = enabled /\ pins' = pins
      BY <1>1
    <3> QED
      BY <1>7, <3>2, <3>3, <3>4, <3>5, <3>6, <3>7 DEF TAdmits
  <2>2. todo' = Tail(todo)
    BY <1>6, <1>8
  <2> QED
    BY <1>1, <1>2, <2>1, <2>2, TGoesOn DEF x, v
<1>9. CASE x = "keep"
  <2>1. ASSUME NEW p \in TStates, NEW q \in TStates, TAdmits(p), TStep(p, x, v, q)
        PROVE  TAdmits(q)'
    <3>1. p = TAt(2, 24, 0, 0) /\ q = TAt(2, 24, 0, 1)
      BY <1>9, <2>1 DEF TStep
    <3>2. /\ p.at = 2 /\ p.j = 24 /\ p.z = 0 /\ p.kept = 0
          /\ q.at = 2 /\ q.j = 24 /\ q.z = 0 /\ q.kept = 1
      BY <3>1, TFields
    <3>3. /\ enabled \in BOOLEAN /\ pins.mosi = Sent(24) /\ ret = <<>>
          /\ OnTime(24) \/ ((Deaf(24) \/ TooEarly(24)) /\ Betrayed(p))
      <4>1. 24 > 0
        OBVIOUS
      <4> QED
        BY <2>1, <3>2, <4>1 DEF TAdmits
    <3>4. rd' = rd /\ ret' = Append(<<>>, S!Number(rd))
      BY <1>6, <1>9, <3>3
    <3>5. ret'[1] = S!Number(rd)
      BY <3>4
    <3>6. Betrayed(p) => Betrayed(q)'
      <4> SUFFICES ASSUME Betrayed(p) PROVE Betrayed(q)'
        OBVIOUS
      <4>1. 24 \in 16..24 /\ 24 # 16 /\ 24 > 16 /\ 24 - 16 = 8
        OBVIOUS
      <4>2. rd \in Seq(OneBit) /\ Len(rd) = 8 /\ rd[1] = 1
        BY <3>2, <4>1 DEF Betrayed
      <4>3. ret'[1] >= 128
        BY <3>5, <4>2, NumberIsNat
      <4> QED
        BY <3>2, <4>3 DEF Betrayed
    <3>7. q.at \notin {0, 1, 3} /\ q.kept # 0
      BY <3>2
    <3>8. enabled' = enabled /\ pins' = pins
      BY <1>1
    <3> QED
      BY <1>7, <3>2, <3>3, <3>6, <3>7, <3>8 DEF TAdmits
  <2>2. todo' = Tail(todo)
    BY <1>6, <1>9
  <2> QED
    BY <1>1, <1>2, <2>1, <2>2, TGoesOn DEF x, v
<1>10. CASE x = "second"
  <2>1. v = 83 /\ a = TAt(2, 32, 0, 1) /\ c = TAt(3, 0, 0, 0)
    BY <1>4, <1>5, <1>10 DEF TStep
  <2>2. a.at = 2 /\ a.j = 32 /\ a.kept = 1
    BY <2>1, TFields
  <2>3. /\ enabled \in BOOLEAN
        /\ OnTime(32) \/ ((Deaf(32) \/ TooEarly(32)) /\ Betrayed(a))
    BY <1>3, <2>2 DEF TAdmits
  <2>4. ret' = <<>> /\ enabled' = enabled
    BY <1>1, <1>6, <1>10
  <2>5. CASE ret[1] = 83
    <3>1. OnTime(32)
      <4>1. ~Betrayed(a)
        <5>1. ASSUME Betrayed(a) PROVE FALSE
          <6>1. ret[1] >= 128
            BY <2>2, <5>1 DEF Betrayed
          <6> QED
            BY <2>5, <6>1
        <5> QED
          BY <5>1
      <4> QED
        BY <2>3, <4>1
    <3>2. enabled /\ Len(rx) = 0 /\ (\E U : out \in Seq(U)) /\ Len(out) = 8
      <4>1. 8 - (32 % 8) = 8
        OBVIOUS
      <4> QED
        BY <3>1, <4>1 DEF OnTime
    <3>3. rx = <<>>
      <4>1. rx \in Seq(OneBit)
        BY DEF SShape
      <4> QED
        BY <3>2, <4>1
    <3>4. ASSUME NEW p \in TStates, NEW q \in TStates, TAdmits(p), TStep(p, x, v, q)
          PROVE  TAdmits(q)'
      <4>1. q = TAt(3, 0, 0, 0)
        BY <1>10, <3>4 DEF TStep
      <4>2. q.at = 3
        BY <4>1, TFields
      <4>3. q.at \notin {0, 1, 2}
        BY <4>2
      <4> QED
        BY <1>1, <2>3, <3>2, <3>3, <4>2, <4>3 DEF TAdmits
    <3>5. todo' = Tail(todo)
      BY <1>6, <1>10, <2>1, <2>5
    <3> QED
      BY <1>1, <1>2, <3>4, <3>5, TGoesOn DEF x, v
  <2>6. CASE ret[1] # 83
    <3>1. todo' = S!reset \o S!enable_serial_programming
      BY <1>6, <1>10, <2>1, <2>6
    <3> DEFINE b == TAt(0, 0, 0, 0)
    <3>5. Len(rx') < 32
      <4>1. CASE OnTime(32)
        <5>1. Len(rx) = 0
          BY <4>1 DEF OnTime
        <5> QED
          BY <1>1, <5>1
      <4>2. CASE Deaf(32)
        BY <1>1, <4>2 DEF Deaf
      <4>3. CASE TooEarly(32)
        <5>1. Len(rx) = 1
          BY <4>3 DEF TooEarly, AheadBy
        <5> QED
          BY <1>1, <5>1
      <4> QED
        BY <2>3, <4>1, <4>2, <4>3
    <3>2. b \in TStates /\ b.at = 0
      BY DEF TAt, TStates, OneBit
    <3> HIDE DEF b
    <3>3. TAdmits(b)'
      <4>1. b.at \notin {1, 2, 3}
        BY <3>2
      <4> QED
        BY <2>3, <2>4, <3>2, <3>5, <4>1 DEF TAdmits
    <3>4. Runs(TRel, todo', b, TAt(3, 0, 0, 0))
      BY <3>1, TSetup DEF b
    <3>6. SSetting'
      BY <1>1, <3>2, <3>3, <3>4 DEF SSetting
    <3> QED
      BY <1>2, <3>6
  <2> QED
    BY <2>5, <2>6
<1> QED
  BY <1>6, <1>8, <1>9, <1>10

\* The target hears an edge that the programmer did not send.
LEMMA TNoise == ASSUME SShape, SSetting, S!Noise PROVE SShape' /\ SSetting'
<1>1. /\ ~enabled /\ pins.resetb = 0 /\ todo # <<>> /\ S!TargetClock(pins.mosi)
      /\ UNCHANGED <<calls, call, todo, ret, rd, pins, want>>
  BY DEF S!Noise
<1>2. PICK a \in TStates : Runs(TRel, todo, a, TAt(3, 0, 0, 0)) /\ TAdmits(a)
  BY DEF SSetting
<1>3. PICK c \in TStates : TStep(a, Head(todo)[1], Head(todo)[2], c)
  BY <1>1, <1>2, TFirst
<1>4. a.at \in {0, 1, 2}
  BY <1>3 DEF TStep, TAt
<1>5. rx \in Seq(OneBit) /\ pins.mosi \in OneBit /\ enabled \in BOOLEAN
  BY <1>2 DEF SShape, TAdmits
<1>6. chip' = chip /\ rx' \in Seq(OneBit) /\ TAdmits(a)'
  <2>1. CASE a.at = 0
    <3>1. Len(rx) < 32
      BY <1>2, <2>1 DEF TAdmits
    <3>2. enabled => (Len(rx) >= 16 => AsSent(rx, 16))
      BY <1>1
    <3>3. chip' = chip /\ rx' \in Seq(OneBit) /\ enabled' \in BOOLEAN
      BY <1>1, <1>5, <3>1, <3>2, TPulse
    <3>4. ret' = <<>>
      BY <1>1, <1>2, <2>1 DEF TAdmits
    <3>5. (Len(rx) = 31 => Len(rx') = 0) /\ (Len(rx) < 31 => Len(rx') = Len(rx) + 1)
      BY <1>1, <1>5, <3>1, <3>2, TPulse
    <3>6. Len(rx) \in 0..31
      BY <1>5, <3>1, Short
    <3>7. \A i \in 0..31 : i = 31 \/ (i < 31 /\ i + 1 < 32)
      OBVIOUS
    <3>8. Len(rx') < 32
      <4>1. CASE Len(rx) = 31
        BY <3>5, <4>1
      <4>2. CASE Len(rx) < 31 /\ Len(rx) + 1 < 32
        BY <3>5, <4>2
      <4> QED
        BY <3>6, <3>7, <4>1, <4>2
    <3> QED
      BY <2>1, <3>3, <3>4, <3>8 DEF TAdmits
  <2>2. CASE a.at = 1
    BY <1>1, <1>2, <2>2 DEF TAdmits
  <2>3. CASE a.at = 2
    <3> DEFINE j == a.j
    <3>1. j \in 0..32
      BY DEF TStates
    <3>2. /\ j > 0 => pins.mosi = Sent(j)
          /\ a.kept = 0 => ret = <<>>
          /\ OnTime(j) \/ ((Deaf(j) \/ TooEarly(j)) /\ Betrayed(a))
      BY <1>2, <2>3 DEF TAdmits
    <3>3. Deaf(j) /\ Betrayed(a)
      BY <1>1, <3>2 DEF OnTime, TooEarly
    <3>4. Betrayed(a)'
      BY <1>1, <3>3 DEF Betrayed
    <3>5. pins'.mosi = pins.mosi
      BY <1>1
    <3> HIDE DEF j
    <3>6. /\ chip' = chip /\ rx' \in Seq(OneBit) /\ enabled' \in BOOLEAN
          /\ Deaf(j)' \/ OnTime(j)' \/ TooEarly(j)'
      BY <1>1, <1>5, <3>1, <3>2, <3>3, <3>5, DeafPulse
    <3>7. a.at \notin {0, 1, 3}
      BY <2>3
    <3> QED
      BY <1>1, <2>3, <3>2, <3>4, <3>6, <3>7 DEF TAdmits, j
  <2> QED
    BY <1>4, <2>1, <2>2, <2>3
<1>7. SShape'
  BY <1>1, <1>6 DEF SShape, Shaped
<1>8. SSetting'
  BY <1>1, <1>2, <1>6 DEF SSetting
<1> QED
  BY <1>7, <1>8

-----------------------------------------------------------------------------
(* The serial programmer's steps. *)

SBetween ==
    /\ call = NoCall /\ todo = <<>> /\ ~chip.busy
    /\ \/ calls \in Sessions["serial"] /\ Len(rx) < 32 /\ enabled \in BOOLEAN
       \/ calls = <<>>
       \/ /\ \E c : Ahead("serial", c, calls)
          /\ \E a \in SStates : a.n = 0 /\ a.may = 0 /\ SAdmits(a)

SEnding ==
    /\ call.fn = Reset["serial"] /\ calls = <<>> /\ ~chip.busy
    /\ todo = <<>> \/ (Len(todo) = 1 /\ Head(todo) = <<"reset", 1>> /\ Tail(todo) = <<>>)

SInv == SShape /\ (SBetween \/ SWithin \/ SSetting \/ SEnding)

LEMMA SCallNext == ASSUME SInv, S!CallNext PROVE SInv'
<1>1. SBetween /\ call = NoCall /\ calls # <<>>
  <2>1. call = NoCall /\ calls # <<>>
    BY DEF S!CallNext, S!NoCall, S!Call, NoCall, Call
  <2>2. call.fn = "none"
    BY <2>1 DEF NoCall, Call
  <2>3. call.fn # Setup["serial"] /\ call.fn # Reset["serial"]
    BY <2>2 DEF Setup, Reset
  <2> QED
    BY <2>1, <2>3 DEF SInv, SWithin, SSetting, SEnding
<1> DEFINE c == Head(calls)
           u == Tail(calls)
<1>2. /\ call' = c /\ calls' = u /\ todo' = S!Body(c) /\ ret' = <<>>
      /\ UNCHANGED <<rd, pins, rx, out, enabled, chip>>
  BY DEF S!CallNext
<1>3. SShape'
  BY <1>2 DEF SInv, SShape, Shaped
<1>4. CASE calls \in Sessions["serial"] /\ Len(rx) < 32 /\ enabled \in BOOLEAN
  <2>1. Orderly("serial", calls)
    BY <1>4, SessionsOrderly
  <2>2. c.fn = Setup["serial"] /\ Ahead("serial", c, u)
    BY <2>1, SessionStarts
  <2> HIDE DEF c, u
  <2>3. S!Body(c) = S!setup_serial_programming
    BY <2>2 DEF Setup, S!Body
  <2> DEFINE b == TAt(0, 0, 0, 0)
  <2>4. b \in TStates /\ b.at = 0
    BY DEF TAt, TStates, OneBit
  <2>5. Runs(TRel, todo', b, TAt(3, 0, 0, 0))
    BY <1>2, <2>3, TSetup
  <2> HIDE DEF b
  <2>6. TAdmits(b)'
    <3>1. b.at \notin {1, 2, 3}
      BY <2>4
    <3> QED
      BY <1>2, <1>4, <2>4, <3>1 DEF TAdmits
  <2>7. SSetting'
    <3>1. ~chip'.busy
      BY <1>1, <1>2 DEF SBetween
    <3> QED
      BY <1>2, <2>2, <2>4, <2>5, <2>6, <3>1 DEF SSetting
  <2> QED
    BY <1>3, <2>7 DEF SInv
<1>5. CASE /\ \E b : Ahead("serial", b, calls)
           /\ \E a \in SStates : a.n = 0 /\ a.may = 0 /\ SAdmits(a)
  <2>1. /\ c \in CallRecord /\ Ahead("serial", c, u)
        /\ (u = <<>> /\ c.fn = Reset["serial"]) \/ (c.fn \in Library["serial"] /\ Proper(c))
    BY <1>1, <1>5, SessionGoesOn
  <2> HIDE DEF c, u
  <2>2. CASE u = <<>> /\ c.fn = Reset["serial"]
    <3> DEFINE z == <<"reset", 1>>
               t == <<z>>
    <3>1. S!Body(c) = t
      BY <2>2 DEF Reset, S!Body
    <3> HIDE DEF z
    <3>2. Len(t) = 1 /\ Head(t) = z /\ Tail(t) = <<>>
      OBVIOUS
    <3> HIDE DEF t
    <3>3. ~chip'.busy
      BY <1>1, <1>2 DEF SBetween
    <3>4. SEnding'
      BY <1>2, <2>2, <3>1, <3>2, <3>3 DEF SEnding, z
    <3> QED
      BY <1>3, <3>4 DEF SInv
  <2>3. CASE c.fn \in Library["serial"] /\ Proper(c)
    <3>1. PICK a \in SStates : a.n = 0 /\ a.may = 0 /\ SAdmits(a)
      BY <1>5
    <3>2. a = SAt(0, a.op, 0, a.g) /\ a.op \in Byte /\ a.g \in 0..2
      BY <3>1 DEF SStates, SAt
    <3>3. SWhole(S!Body(c))
      <4>1. c.a \in Nat /\ c.v \in Nat
        BY <2>1 DEF CallRecord
      <4> QED
        BY <2>3, <4>1, SBody
    <3>4. PICK p \in Byte, h \in 0..2 : Runs(SRel, S!Body(c), SAt(0, a.op, 0, a.g), SAt(0, p, 0, h))
      BY <3>2, <3>3 DEF SWhole
    <3> DEFINE b == SAt(0, p, 0, h)
    <3>5. b \in SStates /\ b.n = 0 /\ b.may = 0
      <4>1. 0 \in 0..31 /\ 0 \in OneBit
        BY DEF OneBit
      <4> QED
        BY <4>1, SFields
    <3>6. Runs(SRel, todo', a, b)
      BY <1>2, <3>2, <3>4
    <3> HIDE DEF b
    <3>7. SAdmits(a)'
      BY <1>2, <3>1 DEF SAdmits
    <3>8. c # NoCall
      <4>1. c.fn # "none"
        BY <2>3 DEF Library, Common
      <4> QED
        BY <4>1, IsACall
    <3>9. SWithin'
      BY <1>2, <2>1, <2>3, <3>1, <3>5, <3>6, <3>7, <3>8 DEF SWithin
    <3> QED
      BY <1>3, <3>9 DEF SInv
  <2> QED
    BY <2>1, <2>2, <2>3
<1> QED
  BY <1>1, <1>4, <1>5 DEF SBetween

LEMMA SReturn == ASSUME SInv, S!Return PROVE SInv'
<1>1. /\ call # NoCall /\ todo = <<>> /\ call' = NoCall
      /\ UNCHANGED <<calls, todo, ret, rd, pins, rx, out, enabled, chip>>
  BY DEF S!Return, S!NoCall, S!Call, NoCall, Call
<1>2. SShape'
  BY <1>1 DEF SInv, SShape, Shaped
<1>3. SBetween'
  <2>1. CASE SWithin
    <3>1. PICK a \in SStates, b \in SStates : Runs(SRel, todo, a, b) /\ b.n = 0 /\ b.may = 0 /\ SAdmits(a)
      BY <2>1 DEF SWithin
    <3>2. a = b
      BY <1>1, <3>1, RunsEmpty
    <3>6. a.n = 0 /\ a.may = 0
      BY <3>1, <3>2
    <3>7. chip.busy => a.may = 1
      BY <3>1 DEF SAdmits
    <3>3. a.n = 0 /\ a.may = 0 /\ ~chip.busy
      BY <3>6, <3>7
    <3>4. SAdmits(a)'
      BY <1>1, <3>1 DEF SAdmits
    <3>5. Ahead("serial", call, calls')
      BY <1>1, <2>1 DEF SWithin
    <3> QED
      BY <1>1, <3>3, <3>4, <3>5 DEF SBetween
  <2>2. CASE SSetting
    <3>1. PICK a \in TStates : Runs(TRel, todo, a, TAt(3, 0, 0, 0)) /\ TAdmits(a)
      BY <2>2 DEF SSetting
    <3>2. a = TAt(3, 0, 0, 0)
      BY <1>1, <3>1, RunsEmpty
    <3>3. a.at = 3
      BY <3>2, TFields
    <3>4. enabled /\ rx = <<>> /\ (\E U : out \in Seq(U)) /\ Len(out) = 8
      BY <3>1, <3>3 DEF TAdmits
    <3> DEFINE b == SAt(0, 0, 0, 0)
    <3>5. b \in SStates /\ b.n = 0 /\ b.may = 0 /\ b.g = 0 /\ b.op = 0
      <4>1. 0 \in 0..31 /\ 0 \in OneBit /\ 0 \in Byte /\ 0 \in 0..2
        BY InByte DEF OneBit
      <4> QED
        BY <4>1, SFields
    <3> HIDE DEF b
    <3>6. Len(rx) = 0 /\ 8 - (0 % 8) = 8 /\ ~(0 >= 24) /\ \A i \in 1..8 : ~(i <= 0)
      BY <3>4
    <3>7. ~chip'.busy
      BY <1>1, <2>2 DEF SSetting
    <3>8. SAdmits(b)'
      BY <1>1, <3>4, <3>5, <3>6, <3>7 DEF SAdmits
    <3>9. Ahead("serial", call, calls')
      BY <1>1, <2>2 DEF SSetting
    <3> QED
      BY <1>1, <3>5, <3>7, <3>8, <3>9 DEF SBetween
  <2>3. CASE SEnding
    BY <1>1, <2>3 DEF SEnding, SBetween
  <2> QED
    BY <1>1, <2>1, <2>2, <2>3 DEF SInv, SBetween
<1> QED
  BY <1>2, <1>3 DEF SInv

\* reset_serial_programming() raises RESETb, and does nothing else.
LEMMA SLast ==
    ASSUME SShape, SEnding, todo # <<>>
    PROVE  /\ S!step = "reset"
           /\ S!ResetPin => SShape' /\ SEnding'
<1>1. Head(todo) = <<"reset", 1>> /\ Tail(todo) = <<>>
  BY DEF SEnding
<1>2. S!step = "reset"
  BY <1>1 DEF S!step
<1>3. ASSUME S!ResetPin PROVE SShape' /\ SEnding'
  <2>1. /\ todo' = Tail(todo) /\ call' = call /\ calls' = calls /\ chip' = chip
        /\ pins' = [pins EXCEPT !.resetb = S!value] /\ rx' = <<>>
    BY <1>3 DEF S!ResetPin
  <2>2. pins = [resetb |-> pins.resetb, mosi |-> pins.mosi] /\ pins.mosi \in OneBit
    BY DEF SShape
  <2>3. pins' = [resetb |-> pins'.resetb, mosi |-> pins'.mosi] /\ pins'.mosi \in OneBit
    BY <2>1, <2>2
  <2>4. SShape'
    BY <2>1, <2>3 DEF SShape, Shaped
  <2>5. SEnding'
    BY <1>1, <2>1 DEF SEnding
  <2> QED
    BY <2>4, <2>5
<1> QED
  BY <1>2, <1>3

LEMMA SSteps ==
    ASSUME SInv, S!ClockStep \/ S!ResetPin \/ S!Compute
    PROVE  SInv'
<1>1. todo # <<>> /\ SShape
  BY DEF S!ClockStep, S!ResetPin, S!Compute, SInv
<1>2. CASE SWithin
  <2>1. S!step # "reset"
    <3>1. PICK a \in SStates, b \in SStates : Runs(SRel, todo, a, b)
      BY <1>2 DEF SWithin
    <3>2. PICK c \in SStates : SStep(a, Head(todo)[1], Head(todo)[2], c)
      BY <1>1, <3>1, SFirst
    <3> QED
      BY <3>2 DEF SStep, S!step
  <2>2. ~S!ResetPin
    BY <2>1 DEF S!ResetPin
  <2> QED
    BY <1>1, <1>2, <2>2, SClock, SCompute DEF SInv
<1>3. CASE SSetting
  BY <1>1, <1>3, TClock, TReset, TCompute DEF SInv
<1>4. CASE SEnding
  <2>1. S!step = "reset"
    BY <1>1, <1>4, SLast
  <2>2. ~S!ClockStep /\ ~S!Compute
    BY <2>1 DEF S!ClockStep, S!Compute
  <2> QED
    BY <1>1, <1>4, <2>2, SLast DEF SInv
<1> QED
  BY <1>1, <1>2, <1>3, <1>4 DEF SInv, SBetween

LEMMA SReady == ASSUME SInv, S!Ready PROVE SInv'
<1>1. /\ chip.busy /\ chip' = [chip EXCEPT !.busy = FALSE]
      /\ UNCHANGED <<calls, call, todo, ret, rd, pins, rx, out, enabled>>
  BY DEF S!Ready
<1>2. SWithin /\ SShape
  BY <1>1 DEF SInv, SBetween, SSetting, SEnding
<1>3. SShape' /\ ~chip'.busy
  BY <1>1, <1>2 DEF SShape, Shaped
<1>4. \A a : SAdmits(a) => SAdmits(a)'
  BY <1>1, <1>3 DEF SAdmits
<1>5. SWithin'
  BY <1>1, <1>2, <1>4 DEF SWithin
<1> QED
  BY <1>3, <1>5 DEF SInv

LEMMA SNoise == ASSUME SInv, S!Noise PROVE SInv'
<1>1. call.fn = "setup_serial_programming" /\ todo # <<>>
  BY DEF S!Noise
<1>2. ~SWithin
  BY <1>1 DEF SWithin, Library, Common
<1>3. ~SEnding /\ ~SBetween
  BY <1>1 DEF SEnding, SBetween, Reset
<1>4. SSetting /\ SShape
  BY <1>2, <1>3 DEF SInv
<1> QED
  BY <1>4, TNoise DEF SInv

LEMMA SStays ==
    ASSUME SInv, UNCHANGED <<calls, call, todo, ret, rd, pins, rx, out, enabled, chip>>
    PROVE  SInv'
<1>1. \A a : SAdmits(a) => SAdmits(a)'
  BY DEF SAdmits
<1>2. \A a : TAdmits(a) => TAdmits(a)'
  BY DEF TAdmits, OnTime, Deaf, TooEarly, Betrayed
<1>3. SShape => SShape'
  BY DEF SShape, Shaped
<1>4. SBetween => SBetween'
  BY <1>1 DEF SBetween
<1>5. SWithin => SWithin'
  BY <1>1 DEF SWithin
<1>6. SSetting => SSetting'
  BY <1>2 DEF SSetting
<1>7. SEnding => SEnding'
  BY DEF SEnding
<1> QED
  BY <1>3, <1>4, <1>5, <1>6, <1>7 DEF SInv

LEMMA SNext == ASSUME SInv, S!Next PROVE SInv'
<1>1. CASE S!Done
  BY <1>1, SStays DEF S!Done, S!vars
<1> QED
  BY <1>1, SCallNext, SReturn, SSteps, SReady, SNoise DEF S!Next, S!Program

LEMMA SInit == ASSUME S!Init PROVE SInv
<1>1. /\ calls \in Sessions["serial"] /\ call = NoCall /\ todo = <<>> /\ rx = <<>> /\ enabled = FALSE
      /\ pins = [resetb |-> 0, mosi |-> 0]
      /\ chip = [S!Chip EXCEPT !.mem.flash = [i \in DOMAIN @ |-> 0]]
  BY DEF S!Init, S!NoCall, S!Call, NoCall, Call
<1>2. Shaped(chip) /\ ~chip.early /\ ~chip.busy
  <2> DEFINE m == [S!Factory EXCEPT !.flash = [i \in DOMAIN @ |-> 0]]
  <2>1. chip = [mem |-> m, eng |-> S!Engine, busy |-> FALSE, early |-> FALSE, out |-> 0]
    BY <1>1 DEF S!Chip
  <2> HIDE DEF m
  <2> QED
    BY <2>1 DEF Shaped
<1>3. rx \in Seq(OneBit) /\ Len(rx) < 32 /\ enabled \in BOOLEAN
  <2>1. <<>> \in Seq(OneBit) /\ Len(<<>>) = 0 /\ 0 < 32
    OBVIOUS
  <2>2. rx \in Seq(OneBit) /\ Len(rx) = 0
    BY <1>1, <2>1
  <2>3. enabled \in BOOLEAN
    BY <1>1
  <2> QED
    BY <2>1, <2>2, <2>3
<1>4. SShape
  BY <1>1, <1>2, <1>3 DEF SShape, OneBit
<1>5. SBetween
  BY <1>1, <1>2, <1>3 DEF SBetween
<1> QED
  BY <1>4, <1>5 DEF SInv

LEMMA SSafe == ASSUME SInv PROVE S!SetupInStep /\ ~chip.early
<1>1. ASSUME call.fn = "setup_serial_programming", todo = <<>> PROVE enabled /\ rx = <<>>
  <2>1. ~SWithin
    BY <1>1 DEF SWithin, Library, Common
  <2>2. ~SEnding
    BY <1>1 DEF SEnding, Reset
  <2>3. ~SBetween
    BY <1>1 DEF SBetween, NoCall, Call
  <2>4. SSetting
    BY <2>1, <2>2, <2>3 DEF SInv
  <2>5. PICK a \in TStates : Runs(TRel, todo, a, TAt(3, 0, 0, 0)) /\ TAdmits(a)
    BY <2>4 DEF SSetting
  <2>6. a = TAt(3, 0, 0, 0)
    BY <1>1, <2>5, RunsEmpty
  <2>7. a.at = 3
    BY <2>6, TFields
  <2> QED
    BY <2>5, <2>7 DEF TAdmits
<1>2. ~chip.early
  BY DEF SInv, SShape
<1> QED
  BY <1>1, <1>2 DEF S!SetupInStep

-----------------------------------------------------------------------------
(* The JTAG programmer: the state of the TAP, the instruction, and what of    *)
(* the bits being shifted in matters once they are updated.                   *)

\* W0 to W4: so many TMS ones after a state that is not known.
Unknown == {"W0", "W1", "W2", "W3", "W4"}
JPlaces == Unknown \cup {"TLR", "RTI", "SelDR", "SelIR", "CapDR", "CapIR", "ShDR", "ShIR",
                         "Ex1DR", "Ex1IR", "UpdDR", "UpdIR"}

\* at, and the instruction there; n bits of the value w shifted in; done: how
\* far the target has been handed back.
JStates == [at : JPlaces, ir : 0..15, w : 0..15, n : 0..16, done : 0..3]

JAt(p, i, w, n, d) == [at |-> p, ir |-> i, w |-> w, n |-> n, done |-> d]

\* Where a scan may start.
Ends == {"RTI", "UpdIR", "UpdDR"}

Onward == {<<"W0", 1, "W1">>, <<"W1", 1, "W2">>, <<"W2", 1, "W3">>, <<"W3", 1, "W4">>, <<"W4", 1, "TLR">>,
           <<"TLR", 1, "TLR">>, <<"TLR", 0, "RTI">>, <<"RTI", 0, "RTI">>, <<"RTI", 1, "SelDR">>,
           <<"SelDR", 1, "SelIR">>, <<"SelDR", 0, "CapDR">>, <<"CapDR", 0, "ShDR">>, <<"Ex1DR", 1, "UpdDR">>,
           <<"SelIR", 1, "TLR">>, <<"SelIR", 0, "CapIR">>, <<"CapIR", 0, "ShIR">>, <<"Ex1IR", 1, "UpdIR">>,
           <<"UpdDR", 0, "RTI">>, <<"UpdDR", 1, "SelDR">>, <<"UpdIR", 0, "RTI">>, <<"UpdIR", 1, "SelDR">>}

\* The updates that matter: an instruction, zero to PROG_ENABLE, zero to AVR_RESET.
Instructions == {4, 5, 12}
OfIr == {"ShIR", "Ex1IR", "UpdIR"}
OfDr == {"ShDR", "Ex1DR", "UpdDR"}
Watched(a) == a.at \in OfIr \/ (a.at \in OfDr /\ a.w = 0 /\ a.ir \in {4, 12})
Width(a) == IF a.at \in OfIr THEN 4 ELSE IF a.ir = 4 THEN 16 ELSE 1

IrAfter(a) == IF a.at = "UpdIR" THEN a.w ELSE IF a.at = "TLR" THEN 1 ELSE a.ir
DoneAfter(a) ==
    IF a.at = "UpdDR" /\ a.ir = 4 THEN (IF a.w = 0 THEN 1 ELSE 0)
    ELSE IF a.at = "UpdDR" /\ a.ir = 12 /\ a.done > 0 THEN (IF a.w = 0 THEN 2 ELSE 1)
    ELSE a.done

JMove(a, v, b) ==
    /\ <<a.at, v, b.at>> \in Onward
    /\ b.ir = IrAfter(a) /\ b.done = DoneAfter(a)
    /\ b.at \in {"ShIR", "ShDR"} => b.n = 0
    /\ b.at = "ShIR" => b.w \in Instructions
    /\ b.at \in {"UpdIR", "UpdDR"} => b.w = a.w /\ b.n = a.n

JShift(a, f, v, b) ==
    /\ a.at \in {"ShIR", "ShDR"} /\ v \in OneBit
    /\ Watched(a) => v = J!Bit(a.w, a.n) /\ a.n < Width(a) /\ (f = "last" => a.n + 1 = Width(a))
    /\ b = JAt(IF f = "tdi" THEN a.at ELSE IF a.at = "ShIR" THEN "Ex1IR" ELSE "Ex1DR", a.ir, a.w, a.n + 1, a.done)

Rest(i) == JAt("RTI", i, 0, 0, 0)

JStep(a, f, v, b) ==
    \/ f = "tms" /\ v \in OneBit /\ JMove(a, v, b)
    \/ f \in {"tdi", "last"} /\ JShift(a, f, v, b)
    \/ f = "zero" /\ a.at \in Ends /\ b = a
    \/ f \in {"keep", "high", "const"} /\ b = a
    \/ f = "test" /\ a = Rest(a.ir) /\ b = a
    \/ f = "power" /\ a.at = "W0" /\ a.done = 0 /\ b = a
    \/ f = "reset" /\ b = JAt(a.at, a.ir, a.w, a.n, IF a.done = 2 /\ v = 1 THEN 3 ELSE 0)

JRel == {r \in JStates \X Steps \X JStates : JStep(r[1], r[2][1], r[2][2], r[3])}

LEMMA JPair ==
    ASSUME NEW a \in JStates, NEW b \in JStates, NEW f \in Names, NEW v \in Nat, JStep(a, f, v, b)
    PROVE  <<f, v>> \in Steps /\ <<a, <<f, v>>, b>> \in JRel
<1>1. <<f, v>> \in Steps /\ <<f, v>>[1] = f /\ <<f, v>>[2] = v
  BY DEF Steps
<1> QED
  BY <1>1 DEF JRel

LEMMA JOne ==
    ASSUME NEW a \in JStates, NEW b \in JStates, NEW f \in Names, NEW v \in Nat, JStep(a, f, v, b)
    PROVE  Runs(JRel, <<<<f, v>>>>, a, b)
  BY JPair, RunsOne

LEMMA JFields ==
    ASSUME NEW p \in JPlaces, NEW i \in 0..15, NEW w \in 0..15, NEW n \in 0..16, NEW d \in 0..3
    PROVE  LET a == JAt(p, i, w, n, d)
           IN a \in JStates /\ a.at = p /\ a.ir = i /\ a.w = w /\ a.n = n /\ a.done = d
  BY DEF JAt, JStates

\* A tuple of steps.
LEMMA RunsFour ==
    ASSUME NEW R, NEW a, NEW b, NEW c, NEW d, NEW e,
           NEW x \in Steps, NEW y \in Steps, NEW z \in Steps, NEW u \in Steps,
           <<a, x, b>> \in R, <<b, y, c>> \in R, <<c, z, d>> \in R, <<d, u, e>> \in R
    PROVE  Runs(R, <<x, y, z, u>>, a, e)
<1> DEFINE t == <<a, b, c, d, e>>
           s == <<x, y, z, u>>
<1>1. s \in Seq(Steps) /\ Len(s) = 4 /\ t[1] = a /\ t[5] = e
  OBVIOUS
<1>2. \A i \in 1..4 : <<t[i], s[i], t[i + 1]>> \in R
  OBVIOUS
<1> HIDE DEF t, s
<1>3. t[Len(s) + 1] = e /\ \A i \in 1..Len(s) : <<t[i], s[i], t[i + 1]>> \in R
  BY <1>1, <1>2
<1>4. Runs(R, s, a, e)
  BY <1>1, <1>3 DEF Runs
<1> QED
  BY <1>4 DEF s

LEMMA RunsThree ==
    ASSUME NEW R, NEW a, NEW b, NEW c, NEW d, NEW x \in Steps, NEW y \in Steps, NEW z \in Steps,
           <<a, x, b>> \in R, <<b, y, c>> \in R, <<c, z, d>> \in R
    PROVE  Runs(R, <<x, y, z>>, a, d)
<1> DEFINE t == <<a, b, c, d>>
           s == <<x, y, z>>
<1>1. s \in Seq(Steps) /\ Len(s) = 3 /\ t[1] = a /\ t[4] = d
  OBVIOUS
<1>2. \A i \in 1..3 : <<t[i], s[i], t[i + 1]>> \in R
  OBVIOUS
<1> HIDE DEF t, s
<1>3. t[Len(s) + 1] = d /\ \A i \in 1..Len(s) : <<t[i], s[i], t[i + 1]>> \in R
  BY <1>1, <1>2
<1>4. Runs(R, s, a, d)
  BY <1>1, <1>3 DEF Runs
<1> QED
  BY <1>4 DEF s

LEMMA RunsFive ==
    ASSUME NEW R, NEW a, NEW b, NEW c, NEW d, NEW e, NEW g,
           NEW x \in Steps, NEW y \in Steps, NEW z \in Steps, NEW u \in Steps, NEW v \in Steps,
           <<a, x, b>> \in R, <<b, y, c>> \in R, <<c, z, d>> \in R, <<d, u, e>> \in R, <<e, v, g>> \in R
    PROVE  Runs(R, <<x, y, z, u, v>>, a, g)
<1> DEFINE t == <<a, b, c, d, e, g>>
           s == <<x, y, z, u, v>>
<1>1. s \in Seq(Steps) /\ Len(s) = 5 /\ t[1] = a /\ t[6] = g
  OBVIOUS
<1>2. \A i \in 1..5 : <<t[i], s[i], t[i + 1]>> \in R
  OBVIOUS
<1> HIDE DEF t, s
<1>3. t[Len(s) + 1] = g /\ \A i \in 1..Len(s) : <<t[i], s[i], t[i + 1]>> \in R
  BY <1>1, <1>2
<1>4. Runs(R, s, a, g)
  BY <1>1, <1>3 DEF Runs
<1> QED
  BY <1>4 DEF s

LEMMA RunsSix ==
    ASSUME NEW R, NEW a, NEW b, NEW c, NEW d, NEW e, NEW g, NEW h,
           NEW x \in Steps, NEW y \in Steps, NEW z \in Steps, NEW u \in Steps, NEW v \in Steps, NEW w \in Steps,
           <<a, x, b>> \in R, <<b, y, c>> \in R, <<c, z, d>> \in R, <<d, u, e>> \in R, <<e, v, g>> \in R,
           <<g, w, h>> \in R
    PROVE  Runs(R, <<x, y, z, u, v, w>>, a, h)
<1> DEFINE t == <<a, b, c, d, e, g, h>>
           s == <<x, y, z, u, v, w>>
<1>1. s \in Seq(Steps) /\ Len(s) = 6 /\ t[1] = a /\ t[7] = h
  OBVIOUS
<1>2. \A i \in 1..6 : <<t[i], s[i], t[i + 1]>> \in R
  OBVIOUS
<1> HIDE DEF t, s
<1>3. t[Len(s) + 1] = h /\ \A i \in 1..Len(s) : <<t[i], s[i], t[i + 1]>> \in R
  BY <1>1, <1>2
<1>4. Runs(R, s, a, h)
  BY <1>1, <1>3 DEF Runs
<1> QED
  BY <1>4 DEF s

LEMMA MorePowers == ASSUME NEW i \in 0..15 PROVE 2^i \in Nat \ {0}
<1>1. CASE i \in 0..7
  BY <1>1, Powers
<1>2. i = 8 => 2^i = 256
  OBVIOUS
<1>3. i = 9 => 2^i = 512
  OBVIOUS
<1>4. i = 10 => 2^i = 1024
  OBVIOUS
<1>5. i = 11 => 2^i = 2048
  OBVIOUS
<1>6. i = 12 => 2^i = 4096
  OBVIOUS
<1>7. i = 13 => 2^i = 8192
  OBVIOUS
<1>8. i = 14 => 2^i = 16384
  OBVIOUS
<1>9. i = 15 => 2^i = 32768
  OBVIOUS
<1> QED
  BY <1>1, <1>2, <1>3, <1>4, <1>5, <1>6, <1>7, <1>8, <1>9

LEMMA JBitTyped == ASSUME NEW w \in Nat, NEW i \in 0..15 PROVE J!Bit(w, i) \in OneBit
<1> DEFINE p == 2^i
<1>1. p \in Nat \ {0}
  BY MorePowers
<1> HIDE DEF p
<1>2. (w \div p) \in Nat
  BY <1>1
<1>3. (w \div p) % 2 \in OneBit
  BY <1>2 DEF OneBit
<1> QED
  BY <1>3 DEF J!Bit, p

LEMMA OneStep ==
    /\ \A v \in OneBit : v \in Nat
    /\ \A m \in 1..16 : \A j \in 1..m : j - 1 \in 0..15 /\ j - 1 \in 0..16 /\ j \in 0..16 /\ (j - 1) + 1 = j
    /\ \A m \in 1..16 : m + 1 \in 1..(m + 1) /\ 1 \in 1..(m + 1) /\ 1 # m + 1 /\ m \in 0..16 /\ (m + 1) - 1 = m
    /\ \A m \in 1..16 : \A j \in 1..m : j \in 1..(m + 1) /\ j + 1 \in 1..(m + 1) /\ j # m + 1
                                        /\ (j + 1) - 1 = j /\ (j + 1 = m + 1 <=> j = m) /\ j - 1 < m
    /\ 1 - 1 = 0
  BY DEF OneBit

\* The bits of v, the last with TMS raised.
LEMMA JShifts ==
    ASSUME NEW p \in {"ShIR", "ShDR"}, NEW q, q = IF p = "ShIR" THEN "Ex1IR" ELSE "Ex1DR",
           NEW m \in 1..16, NEW v \in Nat, NEW i \in 0..15, NEW w \in 0..15, NEW d \in 0..3,
           Watched(JAt(p, i, w, 0, d)) => v = w /\ m = Width(JAt(p, i, w, 0, d))
    PROVE  Runs(JRel, J!Shift(v, m), JAt(p, i, w, 0, d), JAt(q, i, w, m, d))
<1> DEFINE s == J!Shift(v, m)
           F(j) == <<IF j = m THEN "last" ELSE "tdi", J!Bit(v, j - 1)>>
           G(j) == IF j = m + 1 THEN JAt(q, i, w, m, d) ELSE JAt(p, i, w, j - 1, d)
           t == [j \in 1..(m + 1) |-> G(j)]
<1>1. p \in JPlaces /\ q \in JPlaces /\ p \in {"ShIR", "ShDR"} /\ p # q
  BY DEF JPlaces, Unknown
<1>2. ASSUME NEW j \in 1..m PROVE F(j) \in Steps /\ <<G(j), F(j), G(j + 1)>> \in JRel
  <2> DEFINE f == IF j = m THEN "last" ELSE "tdi"
             x == J!Bit(v, j - 1)
             a == JAt(p, i, w, j - 1, d)
             b == JAt(IF j = m THEN q ELSE p, i, w, j, d)
  <2>1. x \in OneBit /\ x \in Nat
    BY JBitTyped, OneStep
  <2>2. f \in Names /\ f \in {"tdi", "last"}
    BY DEF Names
  <2>3. G(j) = a /\ G(j + 1) = b
    BY OneStep
  <2> DEFINE c == JAt(p, i, w, 0, d)
             r == IF j = m THEN q ELSE p
  <2>10. j - 1 \in 0..16 /\ j \in 0..16 /\ 0 \in 0..16 /\ r \in JPlaces
    BY <1>1, OneStep
  <2>11. c.at = p /\ c.ir = i /\ c.w = w
    BY DEF JAt
  <2> HIDE DEF r, c
  <2>12. b = JAt(r, i, w, j, d)
    BY DEF r
  <2>14. PICK k \in 0..16 : k = j - 1
    BY <2>10
  <2>15. a = JAt(p, i, w, k, d)
    BY <2>14
  <2>16. b \in JStates
    <3>1. PICK l \in 0..16 : l = j
      BY <2>10
    <3>2. JAt(r, i, w, l, d) \in JStates
      BY <2>10, JFields, ZenonT(60)
    <3> QED
      BY <2>12, <3>1, <3>2
  <2>4. a \in JStates /\ a.at = p /\ a.ir = i /\ a.w = w /\ a.n = j - 1 /\ a.done = d /\ b \in JStates
    <3> HIDE DEF a, b
    <3>1. JAt(p, i, w, k, d) \in JStates
      BY <1>1, JFields, ZenonT(60)
    <3>2. a.at = p /\ a.ir = i /\ a.w = w /\ a.n = k /\ a.done = d
      BY <2>15 DEF JAt
    <3>3. a \in JStates
      BY <2>15, <3>1
    <3>4. a.n = j - 1
      BY <2>14, <3>2
    <3> QED
      BY <2>16, <3>2, <3>3, <3>4
  <2> HIDE DEF a, b
  <2>13. Watched(a) => Watched(c) /\ Width(a) = Width(c)
    BY <1>1, <2>4, <2>11 DEF Watched, Width, OfIr, OfDr
  <2> USE DEF a, b
  <2>5. Watched(a) => Watched(JAt(p, i, w, 0, d)) /\ Width(a) = Width(JAt(p, i, w, 0, d))
    BY <2>13 DEF c
  <2>6. Watched(a) => x = J!Bit(a.w, a.n) /\ a.n < Width(a) /\ (f = "last" => a.n + 1 = Width(a))
    BY <2>4, <2>5, OneStep
  <2>7. b = JAt(IF f = "tdi" THEN a.at ELSE IF a.at = "ShIR" THEN "Ex1IR" ELSE "Ex1DR", a.ir, a.w, a.n + 1, a.done)
    BY <2>4, OneStep
  <2> HIDE DEF f, x, a, b
  <2>8. JStep(a, f, x, b)
    BY <1>1, <2>1, <2>2, <2>4, <2>6, <2>7 DEF JStep, JShift
  <2>9. <<f, x>> \in Steps /\ <<a, <<f, x>>, b>> \in JRel
    BY <2>1, <2>2, <2>4, <2>8, JPair
  <2> QED
    BY <2>3, <2>9 DEF f, x
<1>3. s = [j \in 1..m |-> F(j)]
  BY DEF J!Shift
<1> HIDE DEF F, G, s
<1>4. s \in [1..m -> Steps]
  BY <1>2, <1>3
<1>5. s \in Seq(Steps) /\ Len(s) = m /\ \A j \in 1..m : s[j] = F(j)
  BY <1>3, <1>4
<1>6. t[1] = JAt(p, i, w, 0, d) /\ t[m + 1] = JAt(q, i, w, m, d)
  BY OneStep DEF G
<1>7. \A j \in 1..m : t[j] = G(j) /\ t[j + 1] = G(j + 1)
  BY OneStep
<1> HIDE DEF t
<1>8. \A j \in 1..Len(s) : <<t[j], s[j], t[j + 1]>> \in JRel
  BY <1>2, <1>5, <1>7
<1>9. Runs(JRel, s, JAt(p, i, w, 0, d), JAt(q, i, w, m, d))
  BY <1>5, <1>6, <1>8 DEF Runs
<1> QED
  BY <1>9 DEF s

\* One clock with TMS.
LEMMA JTms ==
    ASSUME NEW a \in JStates, NEW b \in JStates, NEW v \in OneBit, JMove(a, v, b)
    PROVE  <<"tms", v>> \in Steps /\ <<a, <<"tms", v>>, b>> \in JRel
<1>1. JStep(a, "tms", v, b) /\ "tms" \in Names /\ v \in Nat
  BY DEF JStep, Names, OneBit
<1> QED
  BY <1>1, JPair

LEMMA AfterTyped ==
    ASSUME NEW a \in JStates
    PROVE  IrAfter(a) \in 0..15 /\ DoneAfter(a) \in 0..3
<1>1. a.ir \in 0..15 /\ a.w \in 0..15 /\ a.done \in 0..3
  BY DEF JStates
<1>2. 1 \in 0..15 /\ 0 \in 0..3 /\ 1 \in 0..3 /\ 2 \in 0..3
  OBVIOUS
<1> QED
  BY <1>1, <1>2 DEF IrAfter, DoneAfter

LEMMA JGo ==
    ASSUME NEW p \in JPlaces, NEW q \in JPlaces, NEW v \in OneBit, <<p, v, q>> \in Onward,
           p \notin {"UpdIR", "UpdDR", "TLR"},
           NEW i \in 0..15, NEW d \in 0..3, NEW w \in 0..15, NEW n \in 0..16, NEW x \in 0..15, NEW m \in 0..16,
           q \in {"ShIR", "ShDR"} => m = 0, q = "ShIR" => x \in Instructions,
           q \in {"UpdIR", "UpdDR"} => x = w /\ m = n
    PROVE  <<"tms", v>> \in Steps /\ <<JAt(p, i, w, n, d), <<"tms", v>>, JAt(q, i, x, m, d)>> \in JRel
<1> DEFINE a == JAt(p, i, w, n, d)
           b == JAt(q, i, x, m, d)
<1>1. a \in JStates /\ b \in JStates
  BY JFields, ZenonT(60)
<1>2. a.at = p /\ a.ir = i /\ a.w = w /\ a.n = n /\ a.done = d
  BY DEF JAt
<1>3. b.at = q /\ b.ir = i /\ b.w = x /\ b.n = m /\ b.done = d
  BY DEF JAt
<1> HIDE DEF a, b
<1>4. IrAfter(a) = i /\ DoneAfter(a) = d
  BY <1>2 DEF IrAfter, DoneAfter
<1>5. JMove(a, v, b)
  BY <1>2, <1>3, <1>4 DEF JMove
<1>6. <<"tms", v>> \in Steps /\ <<a, <<"tms", v>>, b>> \in JRel
  BY <1>1, <1>5, JTms
<1> QED
  BY <1>6 DEF a, b

\* Out of a state where a scan may start, or the TAP is reset: what was updated settles.
LEMMA JLeave ==
    ASSUME NEW a \in JStates, NEW q \in {"RTI", "SelDR", "TLR"}, NEW v \in OneBit, <<a.at, v, q>> \in Onward
    PROVE  <<"tms", v>> \in Steps /\ <<a, <<"tms", v>>, JAt(q, IrAfter(a), 0, 0, DoneAfter(a))>> \in JRel
<1> DEFINE b == JAt(q, IrAfter(a), 0, 0, DoneAfter(a))
<1>1. IrAfter(a) \in 0..15 /\ DoneAfter(a) \in 0..3 /\ 0 \in 0..15 /\ 0 \in 0..16 /\ q \in JPlaces
  BY AfterTyped DEF JPlaces
<1>2. b \in JStates
  BY <1>1, JFields, ZenonT(60)
<1>3. b.at = q /\ b.ir = IrAfter(a) /\ b.done = DoneAfter(a)
  BY DEF JAt
<1> HIDE DEF b
<1>4. JMove(a, v, b)
  BY <1>3 DEF JMove
<1>5. <<"tms", v>> \in Steps /\ <<a, <<"tms", v>>, b>> \in JRel
  BY <1>2, <1>4, JTms
<1> QED
  BY <1>5 DEF b

LEMMA JZero ==
    ASSUME NEW a \in JStates, a.at \in Ends
    PROVE  <<"zero", 0>> \in Steps /\ <<a, <<"zero", 0>>, a>> \in JRel
<1>1. JStep(a, "zero", 0, a) /\ "zero" \in Names /\ 0 \in Nat
  BY DEF JStep, Names
<1> QED
  BY <1>1, JPair

LEMMA Places == Ends \subseteq JPlaces /\ \A p \in {"SelDR", "SelIR", "CapIR", "CapDR", "ShIR", "ShDR", "Ex1IR", "Ex1DR", "UpdIR", "UpdDR", "RTI", "TLR", "W0", "W1", "W2", "W3", "W4"} : p \in JPlaces
  BY DEF Ends, JPlaces, Unknown

LEMMA JLoadInstruction ==
    ASSUME NEW a \in JStates, a.at \in Ends, NEW k \in Instructions
    PROVE  Runs(JRel, J!_load_instruction(k), a, JAt("UpdIR", IrAfter(a), k, 4, DoneAfter(a)))
<1> DEFINE i == IrAfter(a)
           d == DoneAfter(a)
<1>1. i \in 0..15 /\ d \in 0..3
  BY AfterTyped
<1>2. k \in 0..15 /\ k \in Nat /\ 0 \in 0..15 /\ 0 \in 0..16 /\ 4 \in 0..16 /\ 4 \in 1..16 /\ 0 \in OneBit /\ 1 \in OneBit
  BY DEF Instructions, OneBit
<1>3. <<a.at, 1, "SelDR">> \in Onward
  BY DEF Ends, Onward
<1>4. <<a, <<"tms", 1>>, JAt("SelDR", i, 0, 0, d)>> \in JRel /\ <<"tms", 1>> \in Steps
  BY <1>2, <1>3, JLeave
<1> HIDE DEF i, d
<1>5. <<JAt("SelDR", i, 0, 0, d), <<"tms", 1>>, JAt("SelIR", i, 0, 0, d)>> \in JRel
  <2>1. <<"SelDR", 1, "SelIR">> \in Onward
    BY DEF Onward
  <2> QED
    BY <1>1, <1>2, <2>1, Places, JGo, ZenonT(60)
<1>6. <<JAt("SelIR", i, 0, 0, d), <<"tms", 0>>, JAt("CapIR", i, 0, 0, d)>> \in JRel /\ <<"tms", 0>> \in Steps
  <2>1. <<"SelIR", 0, "CapIR">> \in Onward
    BY DEF Onward
  <2> QED
    BY <1>1, <1>2, <2>1, Places, JGo, ZenonT(60)
<1>7. <<JAt("CapIR", i, 0, 0, d), <<"tms", 0>>, JAt("ShIR", i, k, 0, d)>> \in JRel
  <2>1. <<"CapIR", 0, "ShIR">> \in Onward
    BY DEF Onward
  <2> QED
    BY <1>1, <1>2, <2>1, Places, JGo, ZenonT(60)
<1>8. <<JAt("Ex1IR", i, k, 4, d), <<"tms", 1>>, JAt("UpdIR", i, k, 4, d)>> \in JRel
  <2>1. <<"Ex1IR", 1, "UpdIR">> \in Onward
    BY DEF Onward
  <2> QED
    BY <1>1, <1>2, <2>1, Places, JGo, ZenonT(60)
<1>9. Runs(JRel, <<<<"zero", 0>>, J!tms_one, J!tms_one, J!tms_zero, J!tms_zero>>, a, JAt("ShIR", i, k, 0, d))
  BY <1>4, <1>5, <1>6, <1>7, JZero, RunsFive DEF J!tms_one, J!tms_zero
<1>10. Runs(JRel, J!Shift(k, 4), JAt("ShIR", i, k, 0, d), JAt("Ex1IR", i, k, 4, d))
  <2>1. Width(JAt("ShIR", i, k, 0, d)) = 4
    BY DEF Width, JAt, OfIr
  <2> QED
    BY <1>1, <1>2, <2>1, JShifts, ZenonT(60)
<1>11. Runs(JRel, <<J!tms_one>>, JAt("Ex1IR", i, k, 4, d), JAt("UpdIR", i, k, 4, d))
  BY <1>4, <1>8, RunsOne DEF J!tms_one
<1>12. Runs(JRel, <<<<"zero", 0>>, J!tms_one, J!tms_one, J!tms_zero, J!tms_zero>> \o J!Shift(k, 4), a, JAt("Ex1IR", i, k, 4, d))
  BY <1>9, <1>10, RunsThen
<1>13. Runs(JRel, J!_load_instruction(k), a, JAt("UpdIR", i, k, 4, d))
  BY <1>11, <1>12, RunsThen DEF J!_load_instruction
<1> QED
  BY <1>13 DEF i, d

\* w = 0 for a zero that matters, 1 for anything else.
LEMMA JLoadData ==
    ASSUME NEW a \in JStates, a.at \in Ends, NEW v \in Nat, NEW m \in 1..16, NEW w \in OneBit,
           w = 0 => v = 0 /\ m = IF IrAfter(a) = 4 THEN 16 ELSE 1
    PROVE  Runs(JRel, J!_load_data(v, m), a, JAt("UpdDR", IrAfter(a), w, m, DoneAfter(a)))
<1> DEFINE i == IrAfter(a)
           d == DoneAfter(a)
<1>1. i \in 0..15 /\ d \in 0..3
  BY AfterTyped
<1>2. w \in 0..15 /\ 0 \in 0..15 /\ 0 \in 0..16 /\ m \in 0..16 /\ 0 \in OneBit /\ 1 \in OneBit
  BY DEF OneBit
<1>3. <<a.at, 1, "SelDR">> \in Onward
  BY DEF Ends, Onward
<1>4. <<a, <<"tms", 1>>, JAt("SelDR", i, 0, 0, d)>> \in JRel /\ <<"tms", 1>> \in Steps
  BY <1>2, <1>3, JLeave
<1> HIDE DEF i, d
<1>5. <<JAt("SelDR", i, 0, 0, d), <<"tms", 0>>, JAt("CapDR", i, 0, 0, d)>> \in JRel /\ <<"tms", 0>> \in Steps
  <2>1. <<"SelDR", 0, "CapDR">> \in Onward
    BY DEF Onward
  <2>2. <<JAt("SelDR", i, 0, 0, d), <<"tms", 0>>, JAt("CapDR", i, 0, 0, d)>> \in JRel
    BY <1>1, <1>2, <2>1, Places, JGo, ZenonT(60)
  <2>3. <<"tms", 0>> \in Steps
    BY DEF Steps, Names
  <2> QED
    BY <2>2, <2>3
<1>6. <<JAt("CapDR", i, 0, 0, d), <<"tms", 0>>, JAt("ShDR", i, w, 0, d)>> \in JRel
  <2>1. <<"CapDR", 0, "ShDR">> \in Onward
    BY DEF Onward
  <2> QED
    BY <1>1, <1>2, <2>1, Places, JGo, ZenonT(60)
<1>7. <<JAt("Ex1DR", i, w, m, d), <<"tms", 1>>, JAt("UpdDR", i, w, m, d)>> \in JRel
  <2>1. <<"Ex1DR", 1, "UpdDR">> \in Onward
    BY DEF Onward
  <2> QED
    BY <1>1, <1>2, <2>1, Places, JGo, ZenonT(60)
<1>8. Runs(JRel, <<<<"zero", 0>>, J!tms_one, J!tms_zero, J!tms_zero>>, a, JAt("ShDR", i, w, 0, d))
  BY <1>4, <1>5, <1>6, JZero, RunsFour DEF J!tms_one, J!tms_zero
<1>9. Runs(JRel, J!Shift(v, m), JAt("ShDR", i, w, 0, d), JAt("Ex1DR", i, w, m, d))
  <2> DEFINE b == JAt("ShDR", i, w, 0, d)
  <2>1. b.at = "ShDR" /\ b.w = w /\ b.ir = i
    BY DEF JAt
  <2> HIDE DEF b
  <2>2. Watched(b) => v = w /\ m = Width(b)
    BY <2>1 DEF Watched, Width, OfIr, OfDr, i
  <2>3. Watched(JAt("ShDR", i, w, 0, d)) => v = w /\ m = Width(JAt("ShDR", i, w, 0, d))
    BY <2>2 DEF b
  <2> QED
    BY <1>1, <1>2, <2>3, JShifts, ZenonT(60)
<1>10. Runs(JRel, <<J!tms_one>>, JAt("Ex1DR", i, w, m, d), JAt("UpdDR", i, w, m, d))
  BY <1>4, <1>7, RunsOne DEF J!tms_one
<1>11. Runs(JRel, <<<<"zero", 0>>, J!tms_one, J!tms_zero, J!tms_zero>> \o J!Shift(v, m), a, JAt("Ex1DR", i, w, m, d))
  BY <1>8, <1>9, RunsThen
<1>12. Runs(JRel, J!_load_data(v, m), a, JAt("UpdDR", i, w, m, d))
  BY <1>10, <1>11, RunsThen DEF J!_load_data
<1> QED
  BY <1>12 DEF i, d

(* Sequences that lead from one set of states into another. *)

Starts == {a \in JStates : a.at \in Ends /\ a.done = 0 /\ (a.at = "UpdDR" => a.w = 1)}
Rests == {Rest(i) : i \in 0..15}

Leads(s, A, B) == \A a \in A : \E b \in B : Runs(JRel, s, a, b)

\* A sequence of scans that ends in Run-Test/Idle; and one that may need no scan.
Scans(s) == Leads(s, Starts, Rests)
Tame(s) == Leads(s, Rests, Rests)

LEMMA LeadsThen ==
    ASSUME NEW A, NEW B, NEW C, NEW s, NEW u, Leads(s, A, B), Leads(u, B, C)
    PROVE  Leads(s \o u, A, C)
<1> SUFFICES ASSUME NEW a \in A PROVE \E c \in C : Runs(JRel, s \o u, a, c)
  BY DEF Leads
<1>1. PICK b \in B : Runs(JRel, s, a, b)
  BY DEF Leads
<1>2. PICK c \in C : Runs(JRel, u, b, c)
  BY DEF Leads
<1> QED
  BY <1>1, <1>2, RunsThen

LEMMA RestTyped ==
    ASSUME NEW i \in 0..15
    PROVE  /\ Rest(i) \in JStates /\ Rest(i) \in Starts /\ Rest(i) \in Rests
           /\ Rest(i).at = "RTI" /\ Rest(i).ir = i /\ Rest(i).done = 0
<1>1. 0 \in 0..15 /\ 0 \in 0..16 /\ 0 \in 0..3 /\ "RTI" \in JPlaces
  BY Places
<1>2. Rest(i) \in JStates
  BY <1>1, JFields, ZenonT(60) DEF Rest
<1>3. Rest(i).at = "RTI" /\ Rest(i).ir = i /\ Rest(i).done = 0
  BY DEF Rest, JAt
<1> QED
  BY <1>2, <1>3 DEF Starts, Rests, Ends

LEMMA ScansAreTame == ASSUME NEW s, Scans(s) PROVE Tame(s)
<1> SUFFICES ASSUME NEW i \in 0..15 PROVE \E b \in Rests : Runs(JRel, s, Rest(i), b)
  BY DEF Tame, Leads, Rests
<1> QED
  BY RestTyped DEF Scans, Leads

LEMMA ScansThen == ASSUME NEW s, NEW u, Scans(s), Tame(u) PROVE Scans(s \o u)
  BY LeadsThen DEF Scans, Tame

LEMMA TameThen == ASSUME NEW s, NEW u, Tame(s), Tame(u) PROVE Tame(s \o u)
  BY LeadsThen DEF Tame

LEMMA NotDone == ASSUME NEW a \in Starts PROVE a \in JStates /\ a.at \in Ends /\ DoneAfter(a) = 0 /\ IrAfter(a) \in 0..15
<1>1. a \in JStates /\ a.at \in Ends /\ a.done = 0 /\ (a.at = "UpdDR" => a.w = 1)
  BY DEF Starts
<1>2. DoneAfter(a) = 0
  BY <1>1 DEF DoneAfter
<1> QED
  BY <1>1, <1>2, AfterTyped

LEMMA InstructionLeads == ASSUME NEW k \in Instructions PROVE Leads(J!_load_instruction(k), Starts, Starts)
<1> SUFFICES ASSUME NEW a \in Starts PROVE \E b \in Starts : Runs(JRel, J!_load_instruction(k), a, b)
  BY DEF Leads
<1> DEFINE b == JAt("UpdIR", IrAfter(a), k, 4, DoneAfter(a))
<1>1. Runs(JRel, J!_load_instruction(k), a, b)
  BY NotDone, JLoadInstruction
<1>2. k \in 0..15 /\ 4 \in 0..16 /\ "UpdIR" \in JPlaces /\ DoneAfter(a) \in 0..3 /\ IrAfter(a) \in 0..15
  BY NotDone, AfterTyped, Places DEF Instructions
<1>3. b \in JStates
  BY <1>2, JFields, ZenonT(60)
<1>4. b.at = "UpdIR" /\ b.done = 0
  BY NotDone DEF JAt
<1>5. b \in Starts
  BY <1>3, <1>4 DEF Starts, Ends
<1> QED
  BY <1>1, <1>5

LEMMA DataLeads == ASSUME NEW v \in Nat, NEW m \in 1..16 PROVE Leads(J!_load_data(v, m), Starts, Starts)
<1> SUFFICES ASSUME NEW a \in Starts PROVE \E b \in Starts : Runs(JRel, J!_load_data(v, m), a, b)
  BY DEF Leads
<1> DEFINE b == JAt("UpdDR", IrAfter(a), 1, m, DoneAfter(a))
<1>1. Runs(JRel, J!_load_data(v, m), a, b)
  <2>1. 1 \in OneBit /\ 1 # 0
    BY DEF OneBit
  <2> QED
    BY <2>1, NotDone, JLoadData
<1>2. 1 \in 0..15 /\ m \in 0..16 /\ "UpdDR" \in JPlaces /\ DoneAfter(a) \in 0..3 /\ IrAfter(a) \in 0..15
  BY NotDone, AfterTyped, Places
<1>3. b \in JStates
  BY <1>2, JFields, ZenonT(60)
<1>4. b.at = "UpdDR" /\ b.done = 0 /\ b.w = 1
  BY NotDone DEF JAt
<1>5. b \in Starts
  BY <1>3, <1>4 DEF Starts, Ends
<1> QED
  BY <1>1, <1>5

LEMMA ZeroLeads == Leads(<<J!tms_zero>>, Starts, Rests)
<1> SUFFICES ASSUME NEW a \in Starts PROVE \E b \in Rests : Runs(JRel, <<J!tms_zero>>, a, b)
  BY DEF Leads
<1>1. <<a.at, 0, "RTI">> \in Onward
  BY NotDone DEF Ends, Onward
<1>2. 0 \in OneBit /\ "RTI" \in {"RTI", "SelDR", "TLR"}
  BY DEF OneBit
<1>3. <<"tms", 0>> \in Steps /\ <<a, <<"tms", 0>>, JAt("RTI", IrAfter(a), 0, 0, DoneAfter(a))>> \in JRel
  BY <1>1, <1>2, NotDone, JLeave
<1>4. JAt("RTI", IrAfter(a), 0, 0, DoneAfter(a)) = Rest(IrAfter(a)) /\ Rest(IrAfter(a)) \in Rests
  BY NotDone DEF Rest, Rests
<1> QED
  BY <1>3, <1>4, RunsOne DEF J!tms_zero

\* The functions that the others are made of.
LEMMA ScanParts ==
    ASSUME NEW c \in Nat, NEW m \in 1..16, NEW k \in Instructions
    PROVE  /\ Scans(J!load_data(c, m)) /\ Scans(J!load_instruction_n_data(k, c, m))
           /\ Leads(J!_load_instruction(k) \o J!_load_data(c, m), Starts, Starts)
<1>1. Scans(J!load_data(c, m))
  BY DataLeads, ZeroLeads, LeadsThen DEF Scans, J!load_data
<1>2. Scans(J!load_instruction_n_data(k, c, m))
  BY <1>1, InstructionLeads, LeadsThen DEF Scans, J!load_instruction_n_data
<1>3. Leads(J!_load_instruction(k) \o J!_load_data(c, m), Starts, Starts)
  BY InstructionLeads, DataLeads, LeadsThen
<1> QED
  BY <1>1, <1>2, <1>3

LEMMA ScanCommands ==
    ASSUME NEW c \in Nat, NEW d \in Nat, NEW e \in Nat, NEW f \in Nat
    PROVE  /\ Scans(J!load_cmd(c)) /\ Scans(J!load_cmd2(c, d)) /\ Scans(J!load_cmd3(c, d, e))
           /\ Scans(J!load_cmd4(c, d, e, f))
           /\ Scans(J!program_cmd(c)) /\ Scans(J!program_cmd2(c, d)) /\ Scans(J!program_cmd4(c, d, e, f))
<1>1. 15 \in 1..16 /\ 5 \in Instructions
  BY DEF Instructions
<1>2. \A x \in Nat : Scans(J!load_cmd(x)) /\ Leads(J!_load_data(x, 15), Starts, Starts)
  BY <1>1, ScanParts, DataLeads DEF J!load_cmd
<1>3. \A x, y \in Nat : Scans(J!load_cmd2(x, y))
  BY <1>2, LeadsThen DEF Scans, J!load_cmd2
<1>4. \A x, y, z \in Nat : Scans(J!load_cmd3(x, y, z))
  BY <1>2, <1>3, LeadsThen DEF Scans, J!load_cmd3
<1>5. Scans(J!load_cmd4(c, d, e, f))
  BY <1>2, <1>4, LeadsThen DEF Scans, J!load_cmd4
<1>6. Scans(J!program_cmd(c))
  BY <1>1, ScanParts DEF J!program_cmd, J!aji_prog_commands
<1>7. Scans(J!program_cmd2(c, d))
  BY <1>2, <1>6, ScansThen, ScansAreTame DEF J!program_cmd2
<1>8. Scans(J!program_cmd4(c, d, e, f))
  BY <1>4, <1>6, ScansThen, ScansAreTame DEF J!program_cmd4
<1> QED
  BY <1>2, <1>3, <1>4, <1>5, <1>6, <1>7, <1>8

\* Between the scans.
LEMMA TameSteps ==
    ASSUME NEW v \in Nat
    PROVE  Tame(J!Keep) /\ Tame(J!KeepHigh) /\ Tame(<<<<"const", v>>>>) /\ Tame(<<<<"test", v>>>>)
<1>1. ASSUME NEW f \in {"keep", "high", "const", "test"}, NEW x \in Nat PROVE Tame(<<<<f, x>>>>)
  <2> SUFFICES ASSUME NEW i \in 0..15 PROVE \E b \in Rests : Runs(JRel, <<<<f, x>>>>, Rest(i), b)
    BY DEF Tame, Leads, Rests
  <2>1. JStep(Rest(i), f, x, Rest(i))
    BY RestTyped DEF JStep
  <2>2. f \in Names
    BY DEF Names
  <2> QED
    BY <2>1, <2>2, RestTyped, JOne
<1> DEFINE k == 256
<1>2. k \in Nat
  OBVIOUS
<1> HIDE DEF k
<1>3. Tame(<<<<"keep", k>>>>) /\ Tame(<<<<"high", k>>>>)
  BY <1>1, <1>2
<1> QED
  BY <1>1, <1>3 DEF J!Keep, J!KeepHigh, k

LEMMA ScanPoll == ASSUME NEW c \in Nat PROVE Scans(J!WaitBusy(c))
  BY ScanCommands, TameSteps, ScansThen DEF J!WaitBusy

LEMMA JHexes ==
    /\ J!H.x0300 \in Nat /\ J!H.x0700 \in Nat /\ J!H.x1300 \in Nat /\ J!H.x13C0 \in Nat /\ J!H.x1700 \in Nat
    /\ J!H.x2300 \in Nat /\ J!H.x2302 \in Nat /\ J!H.x2303 \in Nat /\ J!H.x2304 \in Nat /\ J!H.x2308 \in Nat
    /\ J!H.x2310 \in Nat /\ J!H.x2311 \in Nat /\ J!H.x2320 \in Nat /\ J!H.x2340 \in Nat /\ J!H.x2380 \in Nat
    /\ J!H.x3100 \in Nat /\ J!H.x3180 \in Nat /\ J!H.x3200 \in Nat /\ J!H.x3300 \in Nat
    /\ J!H.x3380 \in Nat /\ J!H.x3500 \in Nat /\ J!H.x3600 \in Nat /\ J!H.x3700 \in Nat
    /\ J!H.x3E00 \in Nat /\ J!H.x3F00 \in Nat /\ J!H.x7700 \in Nat /\ J!H.xA370 \in Nat
  BY DEF J!H

LEMMA JBytes ==
    ASSUME NEW w \in Nat
    PROVE  /\ J!Low(w) \in Nat /\ J!High(w) \in Nat
           /\ J!H.x0700 + (J!High(w) % 256) \in Nat /\ J!H.x0300 + J!Low(w) \in Nat
           /\ J!H.x1300 + J!Low(w) \in Nat /\ J!H.x1300 + (J!High(w) % 256) \in Nat
           /\ J!H.x1700 + J!High(w) \in Nat
           /\ J!H.x1300 + w \in Nat /\ J!H.x0300 + w \in Nat /\ J!H.x13C0 + (w % 64) \in Nat
<1>1. J!Low(w) \in Nat /\ J!High(w) \in Nat
  BY DEF J!Low, J!High
<1> DEFINE l == J!Low(w)
           h == J!High(w)
           k == h % 256
           b == w % 64
<1>2. l \in Nat /\ h \in Nat /\ k \in Nat /\ b \in Nat
  BY <1>1
<1> HIDE DEF l, h, k, b
<1>3. \A x, y \in Nat : x + y \in Nat
  OBVIOUS
<1>4. /\ J!H.x0700 + k \in Nat /\ J!H.x0300 + l \in Nat /\ J!H.x1300 + l \in Nat /\ J!H.x1300 + k \in Nat
      /\ J!H.x1700 + h \in Nat /\ J!H.x1300 + w \in Nat /\ J!H.x0300 + w \in Nat /\ J!H.x13C0 + b \in Nat
  BY <1>2, <1>3, JHexes, Zenon
<1> QED
  BY <1>1, <1>4 DEF l, h, k, b

LEMMA EveryCommand == \A c \in Nat : Scans(J!load_cmd(c))
  BY ScanCommands

LEMMA AddressScans == ASSUME NEW a \in Nat PROVE Scans(J!LoadAddress(a)) /\ Scans(J!load_cmd(J!HighAddr(a))) /\ Scans(J!load_cmd(J!LowAddr(a)))
<1>1. J!HighAddr(a) \in Nat /\ J!LowAddr(a) \in Nat
  BY JBytes DEF J!HighAddr, J!LowAddr
<1> QED
  BY <1>1, ScanCommands DEF J!LoadAddress

LEMMA JReads ==
    ASSUME NEW a \in Nat
    PROVE  /\ Scans(J!read_sign) /\ Scans(J!read_cali) /\ Scans(J!read_lock) /\ Scans(J!read_fuse)
           /\ Scans(J!read_eeprom(a)) /\ Scans(J!read_pgm_mem_word(a))
<1>1. ASSUME NEW x \in {0, 1, 2} PROVE Tame(J!SigByte(x))
  <2>1. x \in Nat
    OBVIOUS
  <2>3. J!H.x0300 + x \in Nat
    BY <2>1, JBytes
  <2>4. Scans(J!load_cmd(J!H.x0300 + x))
    BY <2>3, EveryCommand, Zenon
  <2>2. Tame(J!load_cmd(J!H.x0300 + x)) /\ Tame(J!load_cmd2(J!H.x3200, J!H.x3300)) /\ Tame(J!Keep)
    BY <2>4, JHexes, ScanCommands, ScansAreTame, TameSteps
  <2> QED
    BY <2>2, TameThen DEF J!SigByte
<1>2. Scans(J!read_sign)
  <2>1. Scans(J!program_cmd(J!H.x2308))
    BY JHexes, ScanCommands
  <2>2. Tame(J!SigByte(0)) /\ Tame(J!SigByte(1)) /\ Tame(J!SigByte(2))
    BY <1>1
  <2> QED
    BY <2>1, <2>2, ScansThen DEF J!read_sign
<1>3. Scans(J!read_cali)
  <2>1. Scans(J!program_cmd(J!H.x2308)) /\ Tame(J!load_cmd(J!H.x0300)) /\ Tame(J!load_cmd2(J!H.x3600, J!H.x3700))
    BY JHexes, ScanCommands, ScansAreTame
  <2> QED
    BY <2>1, TameSteps, ScansThen DEF J!read_cali
<1>4. Scans(J!read_lock)
  <2>1. Scans(J!program_cmd(J!H.x2304)) /\ Tame(J!load_cmd2(J!H.x3600, J!H.x3700))
    BY JHexes, ScanCommands, ScansAreTame
  <2> QED
    BY <2>1, TameSteps, ScansThen DEF J!read_lock
<1>5. Scans(J!read_fuse)
  <2>1. /\ Scans(J!program_cmd(J!H.x2304)) /\ Tame(J!load_cmd2(J!H.x3E00, J!H.x3F00))
        /\ Tame(J!load_cmd2(J!H.x3200, J!H.x3300)) /\ Tame(<<<<"const", 0>>>>) /\ Tame(J!Keep)
    BY JHexes, ScanCommands, ScansAreTame, TameSteps
  <2> QED
    BY <2>1, ScansThen DEF J!read_fuse
<1>6. Scans(J!read_eeprom(a))
  <2>1. /\ Scans(J!program_cmd(J!H.x2303)) /\ Tame(J!LoadAddress(a))
        /\ Tame(J!load_cmd3(J!H.x3300, J!H.x3200, J!H.x3300)) /\ Tame(J!Keep)
    BY JHexes, ScanCommands, AddressScans, ScansAreTame, TameSteps
  <2> QED
    BY <2>1, ScansThen DEF J!read_eeprom
<1>7. Scans(J!read_pgm_mem_word(a))
  <2>1. /\ Scans(J!program_cmd(J!H.x2302)) /\ Tame(J!LoadAddress(a))
        /\ Tame(J!load_cmd2(J!H.x3200, J!H.x3600)) /\ Tame(J!Keep) /\ Tame(J!load_cmd(J!H.x3700)) /\ Tame(J!KeepHigh)
    BY JHexes, ScanCommands, AddressScans, ScansAreTame, TameSteps
  <2> QED
    BY <2>1, ScansThen DEF J!read_pgm_mem_word
<1> QED
  BY <1>2, <1>3, <1>4, <1>5, <1>6, <1>7

LEMMA JWrites ==
    ASSUME NEW a \in Nat, NEW v \in Nat
    PROVE  /\ Scans(J!write_lock(v)) /\ Scans(J!write_fuse(v)) /\ Scans(J!erase_chip)
           /\ Scans(J!load_eep_mem_byte(a, v)) /\ Scans(J!load_pgm_mem_word(a, v))
           /\ Scans(J!write_eep_mem_page) /\ Scans(J!write_pgm_mem_page)
<1>1. /\ Scans(J!WaitBusy(J!H.x3300)) /\ Scans(J!WaitBusy(J!H.x3700)) /\ Scans(J!WaitBusy(J!H.x3380))
      /\ Scans(J!load_cmd4(J!H.x3300, J!H.x3100, J!H.x3300, J!H.x3300))
      /\ Scans(J!load_cmd4(J!H.x3700, J!H.x3500, J!H.x3700, J!H.x3700))
  BY JHexes, ScanCommands, ScanPoll
<1>2. Scans(J!load_cmd(J!H.x13C0 + (v % 64))) /\ Scans(J!load_cmd(J!H.x1300 + (J!High(v) % 256)))
      /\ Scans(J!load_cmd(J!H.x1300 + J!Low(v))) /\ Scans(J!load_cmd(J!H.x1300 + v))
      /\ Scans(J!load_cmd(J!H.x1700 + J!High(v)))
  <2>1. /\ J!H.x13C0 + (v % 64) \in Nat /\ J!H.x1300 + (J!High(v) % 256) \in Nat
        /\ J!H.x1300 + J!Low(v) \in Nat /\ J!H.x1300 + v \in Nat /\ J!H.x1700 + J!High(v) \in Nat
    BY JBytes
  <2> QED
    BY <2>1, EveryCommand, Zenon
<1>3. Scans(J!program_cmd(J!H.x2320)) /\ Scans(J!program_cmd(J!H.x2340)) /\ Scans(J!LatchData)
      /\ Scans(J!program_cmd4(J!H.x2380, J!H.x3180, J!H.x3380, J!H.x3380))
  BY JHexes, ScanCommands DEF J!LatchData
<1>4. Scans(J!write_lock(v))
  BY <1>1, <1>2, <1>3, ScansThen, ScansAreTame DEF J!write_lock
<1>5. Scans(J!write_fuse(v))
  BY <1>1, <1>2, <1>3, ScansThen, ScansAreTame DEF J!write_fuse
<1>6. Scans(J!erase_chip)
  BY <1>1, <1>3, ScansThen, ScansAreTame DEF J!erase_chip
<1>7. Scans(J!load_eep_mem_byte(a, v))
  BY <1>2, <1>3, AddressScans, ScansThen, ScansAreTame DEF J!load_eep_mem_byte
<1>8. Scans(J!load_pgm_mem_word(a, v))
  BY <1>2, <1>3, AddressScans, ScansThen, ScansAreTame DEF J!load_pgm_mem_word
<1>9. Scans(J!write_eep_mem_page) /\ Scans(J!write_pgm_mem_page)
  BY <1>1, ScansThen, ScansAreTame DEF J!write_eep_mem_page, J!write_pgm_mem_page
<1> QED
  BY <1>4, <1>5, <1>6, <1>7, <1>8, <1>9

LEMMA JBody ==
    ASSUME NEW c, c.fn \in Library["jtag"], c.a \in Nat, c.v \in Nat
    PROVE  Tame(J!Body(c))
<1>1. Library["jtag"] = Common \cup Initiate
  BY DEF Library
<1>2. CASE c.fn = "read_sign"
  BY <1>2, JReads, ScansAreTame DEF J!Body
<1>3. CASE c.fn = "read_cali"
  BY <1>3, JReads, ScansAreTame DEF J!Body
<1>4. CASE c.fn = "read_lock"
  BY <1>4, JReads, ScansAreTame DEF J!Body
<1>5. CASE c.fn = "read_fuse"
  BY <1>5, JReads, ScansAreTame DEF J!Body
<1>6. CASE c.fn = "write_lock"
  BY <1>6, JWrites, ScansAreTame DEF J!Body
<1>7. CASE c.fn = "write_fuse"
  BY <1>7, JWrites, ScansAreTame DEF J!Body
<1>8. CASE c.fn = "erase_chip"
  BY <1>8, JWrites, ScansAreTame DEF J!Body
<1>9. CASE c.fn = "read_eeprom"
  BY <1>9, JReads, ScansAreTame DEF J!Body
<1>10. CASE c.fn = "read_pgm_mem_word"
  BY <1>10, JReads, ScansAreTame DEF J!Body
<1>11. CASE c.fn = "initiate_eep_mem_write"
  BY <1>11, JHexes, ScanCommands, ScansAreTame DEF J!Body
<1>12. CASE c.fn = "initiate_pgm_mem_write"
  BY <1>12, JHexes, ScanCommands, ScansAreTame DEF J!Body
<1>13. CASE c.fn = "load_eep_mem_byte"
  BY <1>13, JWrites, ScansAreTame DEF J!Body
<1>14. CASE c.fn = "load_pgm_mem_word"
  BY <1>14, JWrites, ScansAreTame DEF J!Body
<1>15. CASE c.fn = "write_eep_mem_page"
  BY <1>15, JWrites, ScansAreTame DEF J!Body
<1>16. CASE c.fn = "write_pgm_mem_page"
  BY <1>16, JWrites, ScansAreTame DEF J!Body
<1> QED
  BY <1>1, <1>2, <1>3, <1>4, <1>5, <1>6, <1>7, <1>8, <1>9, <1>10, <1>11, <1>12, <1>13, <1>14, <1>15, <1>16 DEF Common, Initiate

\* Five TMS ones reset the TAP from any state.
LEMMA JFromUnknown ==
    Runs(JRel, J!run_test_idle_state, JAt("W0", 0, 0, 0, 0), Rest(1))
<1>1. 0 \in 0..15 /\ 0 \in 0..16 /\ 0 \in 0..3 /\ 0 \in OneBit /\ 1 \in OneBit
  BY DEF OneBit
<1> DEFINE W(p) == JAt(p, 0, 0, 0, 0)
<1>2. <<W("W0"), <<"tms", 1>>, W("W1")>> \in JRel /\ <<"tms", 1>> \in Steps
  <2>1. <<"W0", 1, "W1">> \in Onward
    BY DEF Onward
  <2>2. <<W("W0"), <<"tms", 1>>, W("W1")>> \in JRel
    BY <1>1, <2>1, Places, JGo, ZenonT(60)
  <2>3. <<"tms", 1>> \in Steps
    BY DEF Steps, Names
  <2> QED
    BY <2>2, <2>3
<1>3. <<W("W1"), <<"tms", 1>>, W("W2")>> \in JRel
  <2>1. <<"W1", 1, "W2">> \in Onward
    BY DEF Onward
  <2> QED
    BY <1>1, <2>1, Places, JGo, ZenonT(60)
<1>4. <<W("W2"), <<"tms", 1>>, W("W3")>> \in JRel
  <2>1. <<"W2", 1, "W3">> \in Onward
    BY DEF Onward
  <2> QED
    BY <1>1, <2>1, Places, JGo, ZenonT(60)
<1>5. <<W("W3"), <<"tms", 1>>, W("W4")>> \in JRel
  <2>1. <<"W3", 1, "W4">> \in Onward
    BY DEF Onward
  <2> QED
    BY <1>1, <2>1, Places, JGo, ZenonT(60)
<1>6. <<W("W4"), <<"tms", 1>>, W("TLR")>> \in JRel
  <2>1. <<"W4", 1, "TLR">> \in Onward
    BY DEF Onward
  <2> QED
    BY <1>1, <2>1, Places, JGo, ZenonT(60)
<1>7. <<W("TLR"), <<"tms", 0>>, Rest(1)>> \in JRel /\ <<"tms", 0>> \in Steps
  <2> DEFINE a == W("TLR")
  <2>1. a \in JStates
    BY <1>1, Places, JFields, ZenonT(60)
  <2>2. a.at = "TLR" /\ a.done = 0
    BY DEF JAt
  <2>3. <<"TLR", 0, "RTI">> \in Onward
    BY DEF Onward
  <2> HIDE DEF a
  <2>4. IrAfter(a) = 1 /\ DoneAfter(a) = 0
    BY <2>2 DEF IrAfter, DoneAfter
  <2>5. <<"tms", 0>> \in Steps /\ <<a, <<"tms", 0>>, JAt("RTI", IrAfter(a), 0, 0, DoneAfter(a))>> \in JRel
    BY <1>1, <2>1, <2>2, <2>3, JLeave
  <2> QED
    BY <2>4, <2>5 DEF Rest, a
<1> HIDE DEF W
<1>8. Runs(JRel, J!run_test_idle_state, W("W0"), Rest(1))
  BY <1>2, <1>3, <1>4, <1>5, <1>6, <1>7, RunsSix, SMTT(60) DEF J!run_test_idle_state, J!tms_one, J!tms_zero
<1> QED
  BY <1>8 DEF W

LEMMA JSetup == \E b \in Rests : Runs(JRel, J!setup_jtag_programming, JAt("W0", 0, 0, 0, 0), b)
<1> DEFINE a == JAt("W0", 0, 0, 0, 0)
<1>1. a \in JStates
  <2>1. 0 \in 0..15 /\ 0 \in 0..16 /\ 0 \in 0..3
    OBVIOUS
  <2> QED
    BY <2>1, Places, JFields, ZenonT(60)
<1>2. a.at = "W0" /\ a.done = 0 /\ a.ir = 0 /\ a.w = 0 /\ a.n = 0 /\ a = JAt("W0", 0, 0, 0, 0)
  BY DEF JAt
<1>3. Runs(JRel, J!run_test_idle_state, a, Rest(1))
  BY JFromUnknown
<1> HIDE DEF a
<1>4. <<"power", 0>> \in Steps /\ <<a, <<"power", 0>>, a>> \in JRel
  <2>1. JStep(a, "power", 0, a) /\ "power" \in Names /\ 0 \in Nat
    BY <1>2 DEF JStep, Names
  <2> QED
    BY <1>1, <2>1, JPair
<1>5. ASSUME NEW v \in OneBit PROVE <<"reset", v>> \in Steps /\ <<a, <<"reset", v>>, a>> \in JRel
  <2>1. JStep(a, "reset", v, a) /\ "reset" \in Names /\ v \in Nat
    BY <1>2 DEF JStep, Names, OneBit
  <2> QED
    BY <1>1, <2>1, JPair
<1>6. Runs(JRel, <<<<"power", 0>>, <<"reset", 1>>, <<"reset", 0>>>>, a, a)
  <2>1. 0 \in OneBit /\ 1 \in OneBit
    BY DEF OneBit
  <2> QED
    BY <1>4, <1>5, <2>1, RunsThree
<1> DEFINE head == <<<<"power", 0>>, <<"reset", 1>>, <<"reset", 0>>>> \o J!run_test_idle_state
           scan == J!load_instruction_n_data(J!aji_prog_enable, J!H.xA370, 16)
<1>7. Runs(JRel, head, a, Rest(1))
  BY <1>3, <1>6, RunsThen
<1>8. Leads(J!_avr_reset(1), Starts, Starts)
  <2>1. 1 \in Nat /\ 1 \in 1..16 /\ 12 \in Instructions
    BY DEF Instructions
  <2> QED
    BY <2>1, ScanParts DEF J!_avr_reset, J!aji_avr_reset
<1>9. Leads(scan, Starts, Rests)
  <2>1. 16 \in 1..16 /\ 4 \in Instructions
    BY DEF Instructions
  <2> QED
    BY <2>1, JHexes, ScanParts DEF J!aji_prog_enable, Scans
<1> HIDE DEF head, scan
<1>10. Leads(J!_avr_reset(1) \o scan, Starts, Rests)
  BY <1>8, <1>9, LeadsThen
<1>11. 1 \in 0..15
  OBVIOUS
<1>12. PICK b \in Starts : Runs(JRel, J!_avr_reset(1), Rest(1), b)
  BY <1>8, <1>11, RestTyped DEF Leads
<1>13. PICK c \in Rests : Runs(JRel, scan, b, c)
  BY <1>9 DEF Leads
<1>14. Runs(JRel, head \o J!_avr_reset(1) \o scan, a, c)
  BY <1>7, <1>12, <1>13, RunsThen
<1> QED
  BY <1>2, <1>14 DEF J!setup_jtag_programming, head, scan

\* A TAP that was told where it is.
LEMMA JFromIdle ==
    ASSUME NEW i \in 0..15, NEW d \in 0..3
    PROVE  Runs(JRel, J!run_test_idle_state, JAt("RTI", i, 0, 0, d), JAt("RTI", 1, 0, 0, d))
<1>1. 0 \in 0..15 /\ 1 \in 0..15 /\ 0 \in 0..16 /\ 0 \in OneBit /\ 1 \in OneBit
  BY DEF OneBit
<1>2. <<JAt("RTI", i, 0, 0, d), <<"tms", 1>>, JAt("SelDR", i, 0, 0, d)>> \in JRel /\ <<"tms", 1>> \in Steps
  <2>1. <<"RTI", 1, "SelDR">> \in Onward
    BY DEF Onward
  <2>2. <<JAt("RTI", i, 0, 0, d), <<"tms", 1>>, JAt("SelDR", i, 0, 0, d)>> \in JRel
    BY <1>1, <2>1, Places, JGo, ZenonT(60)
  <2>3. <<"tms", 1>> \in Steps
    BY DEF Steps, Names
  <2> QED
    BY <2>2, <2>3
<1>3. <<JAt("SelDR", i, 0, 0, d), <<"tms", 1>>, JAt("SelIR", i, 0, 0, d)>> \in JRel
  <2>1. <<"SelDR", 1, "SelIR">> \in Onward
    BY DEF Onward
  <2> QED
    BY <1>1, <2>1, Places, JGo, ZenonT(60)
<1>4. <<JAt("SelIR", i, 0, 0, d), <<"tms", 1>>, JAt("TLR", i, 0, 0, d)>> \in JRel
  <2>1. <<"SelIR", 1, "TLR">> \in Onward
    BY DEF Onward
  <2> QED
    BY <1>1, <2>1, Places, JGo, ZenonT(60)
<1>5. ASSUME NEW k \in 0..15, NEW q \in {"TLR", "RTI"}, NEW v \in OneBit, <<"TLR", v, q>> \in Onward
      PROVE  <<JAt("TLR", k, 0, 0, d), <<"tms", v>>, JAt(q, 1, 0, 0, d)>> \in JRel /\ <<"tms", v>> \in Steps
  <2> DEFINE a == JAt("TLR", k, 0, 0, d)
  <2>1. a \in JStates
    BY <1>1, Places, JFields, ZenonT(60)
  <2>2. a.at = "TLR" /\ a.done = d
    BY DEF JAt
  <2> HIDE DEF a
  <2>3. IrAfter(a) = 1 /\ DoneAfter(a) = d
    BY <2>2 DEF IrAfter, DoneAfter
  <2>4. <<"tms", v>> \in Steps /\ <<a, <<"tms", v>>, JAt(q, IrAfter(a), 0, 0, DoneAfter(a))>> \in JRel
    BY <1>5, <2>1, <2>2, JLeave
  <2> QED
    BY <2>3, <2>4 DEF a
<1>6. <<"TLR", 1, "TLR">> \in Onward /\ <<"TLR", 0, "RTI">> \in Onward
  BY DEF Onward
<1>7. <<JAt("TLR", i, 0, 0, d), <<"tms", 1>>, JAt("TLR", 1, 0, 0, d)>> \in JRel
  BY <1>1, <1>5, <1>6
<1>8. <<JAt("TLR", 1, 0, 0, d), <<"tms", 1>>, JAt("TLR", 1, 0, 0, d)>> \in JRel
  BY <1>1, <1>5, <1>6
<1>9. <<JAt("TLR", 1, 0, 0, d), <<"tms", 0>>, JAt("RTI", 1, 0, 0, d)>> \in JRel /\ <<"tms", 0>> \in Steps
  BY <1>1, <1>5, <1>6
<1> QED
  BY <1>2, <1>3, <1>4, <1>7, <1>8, <1>9, RunsSix, SMTT(60) DEF J!run_test_idle_state, J!tms_one, J!tms_zero

\* A zero to PROG_ENABLE or AVR_RESET, and on to Run-Test/Idle.
LEMMA JZeroData ==
    ASSUME NEW k \in {4, 12}, NEW m, m = IF k = 4 THEN 16 ELSE 1, NEW i \in 0..15, NEW d \in 0..3,
           NEW e \in 0..3, k = 4 => e = 1, k = 12 => d > 0 /\ e = 2
    PROVE  \E b, c : /\ Runs(JRel, J!_load_instruction(k), JAt("RTI", i, 0, 0, d), b)
                      /\ Runs(JRel, J!_load_data(0, m), b, c)
                      /\ Runs(JRel, <<J!tms_zero>>, c, JAt("RTI", k, 0, 0, e))
<1> DEFINE a == JAt("RTI", i, 0, 0, d)
           b == JAt("UpdIR", i, k, 4, d)
           c == JAt("UpdDR", k, 0, m, d)
<1>1. k \in Instructions /\ k \in 0..15 /\ m \in 1..16 /\ m \in 0..16 /\ 0 \in 0..15 /\ 0 \in 0..16 /\ 4 \in 0..16 /\ 0 \in OneBit /\ 0 \in Nat
  BY DEF Instructions, OneBit
<1>2. a \in JStates /\ b \in JStates /\ c \in JStates
  <2>1. a \in JStates
    BY <1>1, Places, JFields, ZenonT(60)
  <2>2. b \in JStates
    BY <1>1, Places, JFields, ZenonT(60)
  <2>3. c \in JStates
    <3>1. PICK x \in 0..16 : x = m
      BY <1>1
    <3>2. JAt("UpdDR", k, 0, x, d) \in JStates
      BY <1>1, Places, JFields, ZenonT(60)
    <3> QED
      BY <3>1, <3>2
  <2> QED
    BY <2>1, <2>2, <2>3
<1>3. a.at = "RTI" /\ a.ir = i /\ a.done = d
  BY DEF JAt
<1>4. b.at = "UpdIR" /\ b.w = k /\ b.done = d
  BY DEF JAt
<1>5. c.at = "UpdDR" /\ c.ir = k /\ c.w = 0 /\ c.done = d
  BY DEF JAt
<1> HIDE DEF a, b, c
<1>6. IrAfter(a) = i /\ DoneAfter(a) = d
  BY <1>3 DEF IrAfter, DoneAfter
<1>7. IrAfter(b) = k /\ DoneAfter(b) = d
  BY <1>4 DEF IrAfter, DoneAfter
<1>8. IrAfter(c) = k /\ DoneAfter(c) = e
  BY <1>5 DEF IrAfter, DoneAfter
<1>9. Runs(JRel, J!_load_instruction(k), a, b)
  <2>1. Runs(JRel, J!_load_instruction(k), a, JAt("UpdIR", IrAfter(a), k, 4, DoneAfter(a)))
    BY <1>1, <1>2, <1>3, JLoadInstruction DEF Ends
  <2> QED
    BY <1>6, <2>1 DEF b
<1>10. Runs(JRel, J!_load_data(0, m), b, c)
  <2>1. m = IF IrAfter(b) = 4 THEN 16 ELSE 1
    BY <1>7
  <2>2. Runs(JRel, J!_load_data(0, m), b, JAt("UpdDR", IrAfter(b), 0, m, DoneAfter(b)))
    BY <1>1, <1>2, <1>4, <2>1, JLoadData DEF Ends
  <2> QED
    BY <1>7, <2>2 DEF c
<1>11. Runs(JRel, <<J!tms_zero>>, c, JAt("RTI", k, 0, 0, e))
  <2>1. <<"UpdDR", 0, "RTI">> \in Onward
    BY DEF Onward
  <2>2. <<"tms", 0>> \in Steps /\ <<c, <<"tms", 0>>, JAt("RTI", IrAfter(c), 0, 0, DoneAfter(c))>> \in JRel
    BY <1>1, <1>2, <1>5, <2>1, JLeave
  <2> QED
    BY <1>8, <2>2, RunsOne DEF J!tms_zero
<1> QED
  BY <1>9, <1>10, <1>11 DEF a

LEMMA JReset ==
    ASSUME NEW i \in 0..15
    PROVE  Runs(JRel, J!reset_jtag_programming, Rest(i), JAt("RTI", 1, 0, 0, 3))
<1>1. PICK a \in Rests : Runs(JRel, J!program_cmd2(J!H.x2300, J!H.x3300), Rest(i), a)
  BY JHexes, ScanCommands, ScansAreTame DEF Tame, Leads, Rests
<1>2. PICK j \in 0..15 : a = JAt("RTI", j, 0, 0, 0)
  BY DEF Rests, Rest
<1>3. 4 \in 0..15 /\ 12 \in 0..15 /\ 1 \in 0..15 /\ 0 \in 0..15 /\ 0 \in 0..16 /\ 0 \in 0..3 /\ 1 \in 0..3 /\ 2 \in 0..3 /\ 3 \in 0..3 /\ 1 > 0
  OBVIOUS
<1>4. PICK b, c : /\ Runs(JRel, J!_load_instruction(4), JAt("RTI", j, 0, 0, 0), b)
                  /\ Runs(JRel, J!_load_data(0, 16), b, c)
                  /\ Runs(JRel, <<J!tms_zero>>, c, JAt("RTI", 4, 0, 0, 1))
  BY <1>3, JZeroData, SMTT(60)
<1>5. PICK d, e : /\ Runs(JRel, J!_load_instruction(12), JAt("RTI", 4, 0, 0, 1), d)
                  /\ Runs(JRel, J!_load_data(0, 1), d, e)
                  /\ Runs(JRel, <<J!tms_zero>>, e, JAt("RTI", 12, 0, 0, 2))
  BY <1>3, JZeroData
<1>6. Runs(JRel, J!load_instruction_n_data(J!aji_prog_enable, 0, 16), a, JAt("RTI", 4, 0, 0, 1))
  <2>1. Runs(JRel, J!load_data(0, 16), b, JAt("RTI", 4, 0, 0, 1))
    BY <1>4, RunsThen DEF J!load_data
  <2> QED
    BY <1>2, <1>4, <2>1, RunsThen DEF J!load_instruction_n_data, J!aji_prog_enable
<1>7. Runs(JRel, J!_avr_reset(0), JAt("RTI", 4, 0, 0, 1), e)
  BY <1>5, RunsThen DEF J!_avr_reset, J!aji_avr_reset
<1>8. Runs(JRel, J!run_test_idle_state, JAt("RTI", 12, 0, 0, 2), JAt("RTI", 1, 0, 0, 2))
  BY <1>3, JFromIdle
<1>9. Runs(JRel, <<<<"reset", 1>>>>, JAt("RTI", 1, 0, 0, 2), JAt("RTI", 1, 0, 0, 3))
  <2> DEFINE x == JAt("RTI", 1, 0, 0, 2)
             y == JAt("RTI", 1, 0, 0, 3)
  <2>1. x \in JStates /\ y \in JStates
    <3>1. \A k \in 0..15, m \in 0..16, z \in 0..3 : JAt("RTI", k, 0, m, z) \in JStates
      BY <1>3, Places, JFields, ZenonT(60)
    <3> QED
      BY <1>3, <3>1
  <2>2. x.at = "RTI" /\ x.ir = 1 /\ x.w = 0 /\ x.n = 0 /\ x.done = 2 /\ y = JAt("RTI", 1, 0, 0, 3)
    BY DEF JAt
  <2> HIDE DEF x, y
  <2>3. JStep(x, "reset", 1, y) /\ "reset" \in Names /\ 1 \in Nat
    BY <2>2 DEF JStep, Names
  <2>4. Runs(JRel, <<<<"reset", 1>>>>, x, y)
    BY <2>1, <2>3, JOne
  <2> QED
    BY <2>4 DEF x, y
<1> QED
  BY <1>1, <1>5, <1>6, <1>7, <1>8, <1>9, RunsThen DEF J!reset_jtag_programming

\* A poll that has to be repeated leaves the TAP where it was.
LEMMA JPoll == ASSUME NEW i \in 0..15, NEW c \in Nat PROVE Runs(JRel, J!load_cmd(c), Rest(i), Rest(i))
<1> DEFINE a == Rest(i)
           b == JAt("UpdDR", i, 1, 15, 0)
<1>1. a \in JStates /\ a.at = "RTI" /\ a.ir = i /\ a.done = 0
  BY RestTyped
<1>2. 15 \in 1..16 /\ 15 \in 0..16 /\ 1 \in OneBit /\ 1 # 0 /\ 1 \in 0..15 /\ 0 \in 0..3 /\ 0 \in OneBit
  BY DEF OneBit
<1>3. b \in JStates
  <2>1. \A x \in 0..15, y \in 0..16, z \in 0..3 : JAt("UpdDR", i, x, y, z) \in JStates
    BY Places, JFields, ZenonT(60)
  <2> QED
    BY <1>2, <2>1
<1>4. b.at = "UpdDR" /\ b.ir = i /\ b.w = 1 /\ b.done = 0
  BY DEF JAt
<1> HIDE DEF a, b
<1>5. IrAfter(a) = i /\ DoneAfter(a) = 0
  BY <1>1 DEF IrAfter, DoneAfter
<1>6. IrAfter(b) = i /\ DoneAfter(b) = 0
  BY <1>4 DEF IrAfter, DoneAfter
<1>7. Runs(JRel, J!_load_data(c, 15), a, b)
  <2>1. Runs(JRel, J!_load_data(c, 15), a, JAt("UpdDR", IrAfter(a), 1, 15, DoneAfter(a)))
    BY <1>1, <1>2, JLoadData DEF Ends
  <2> QED
    BY <1>5, <2>1 DEF b
<1>8. Runs(JRel, <<J!tms_zero>>, b, a)
  <2>1. <<"UpdDR", 0, "RTI">> \in Onward
    BY DEF Onward
  <2>2. <<"tms", 0>> \in Steps /\ <<b, <<"tms", 0>>, JAt("RTI", IrAfter(b), 0, 0, DoneAfter(b))>> \in JRel
    BY <1>2, <1>3, <1>4, <2>1, JLeave
  <2> QED
    BY <1>6, <2>2, RunsOne DEF J!tms_zero, Rest, a
<1>9. Runs(JRel, J!load_cmd(c), a, a)
  BY <1>7, <1>8, RunsThen DEF J!load_cmd, J!load_data
<1> QED
  BY <1>9 DEF a

-----------------------------------------------------------------------------
(* The states of the TAP, and of the target behind it, that an abstract state *)
(* stands for.                                                                *)

\* The states that so many TMS ones may have led to.
Where(p) ==
    CASE p = "W0" -> J!TapStates
      [] p = "W1" -> {"TLR", "SelDR", "Ex1DR", "UpdDR", "Ex2DR", "SelIR", "Ex1IR", "UpdIR", "Ex2IR"}
      [] p = "W2" -> {"TLR", "SelDR", "UpdDR", "SelIR", "UpdIR"}
      [] p = "W3" -> {"TLR", "SelDR", "SelIR"}
      [] p = "W4" -> {"TLR", "SelIR"}
      [] OTHER    -> {p}

\* The last n of the bits in the shift register are those of w.
Shifted(s, w, n, m) ==
    /\ \E U : s \in Seq(U)
    /\ Len(s) = m /\ n \in 0..m
    /\ \A i \in 1..n : s[(m - n) + i] = J!Bit(w, i - 1)

JAdmits(a) ==
    /\ tap \in Where(a.at)
    /\ a.at \in Unknown => a.done = 0
    /\ a.at \notin Unknown \cup {"TLR"} => ir = a.ir
    /\ a.at \in {"ShIR", "ShDR"} => pins.tms = 0
    /\ a.at \in OfIr => a.w \in Instructions
    /\ Watched(a) => Shifted(sr, a.w, a.n, Width(a)) /\ (a.at \notin {"ShIR", "ShDR"} => a.n = Width(a))
    /\ a.done >= 1 => ~prog
    /\ a.done >= 2 => rst = 0
    /\ a.done = 3 => pins.resetb = 1

JShape == tap \in J!TapStates /\ pins \in [resetb : Nat, tms : Nat, tdi : Nat]

LEMMA TapOnes ==
    /\ J!TapNext["TLR"][2] = "TLR"     /\ J!TapNext["RTI"][2] = "SelDR"
    /\ J!TapNext["SelDR"][2] = "SelIR" /\ J!TapNext["CapDR"][2] = "Ex1DR"
    /\ J!TapNext["ShDR"][2] = "Ex1DR"  /\ J!TapNext["Ex1DR"][2] = "UpdDR"
    /\ J!TapNext["PauDR"][2] = "Ex2DR" /\ J!TapNext["Ex2DR"][2] = "UpdDR"
    /\ J!TapNext["UpdDR"][2] = "SelDR" /\ J!TapNext["SelIR"][2] = "TLR"
    /\ J!TapNext["CapIR"][2] = "Ex1IR" /\ J!TapNext["ShIR"][2] = "Ex1IR"
    /\ J!TapNext["Ex1IR"][2] = "UpdIR" /\ J!TapNext["PauIR"][2] = "Ex2IR"
    /\ J!TapNext["Ex2IR"][2] = "UpdIR" /\ J!TapNext["UpdIR"][2] = "SelDR"
  BY DEF J!TapNext

LEMMA TapZeros ==
    /\ J!TapNext["TLR"][1] = "RTI"     /\ J!TapNext["RTI"][1] = "RTI"
    /\ J!TapNext["SelDR"][1] = "CapDR" /\ J!TapNext["CapDR"][1] = "ShDR"
    /\ J!TapNext["ShDR"][1] = "ShDR"   /\ J!TapNext["Ex1DR"][1] = "PauDR"
    /\ J!TapNext["PauDR"][1] = "PauDR" /\ J!TapNext["Ex2DR"][1] = "ShDR"
    /\ J!TapNext["UpdDR"][1] = "RTI"   /\ J!TapNext["SelIR"][1] = "CapIR"
    /\ J!TapNext["CapIR"][1] = "ShIR"  /\ J!TapNext["ShIR"][1] = "ShIR"
    /\ J!TapNext["Ex1IR"][1] = "PauIR" /\ J!TapNext["PauIR"][1] = "PauIR"
    /\ J!TapNext["Ex2IR"][1] = "ShIR"  /\ J!TapNext["UpdIR"][1] = "RTI"
  BY DEF J!TapNext

LEMMA TapGoes ==
    ASSUME NEW p, NEW v \in OneBit, NEW q, <<p, v, q>> \in Onward, NEW x \in Where(p)
    PROVE  J!TapNext[x][v + 1] \in Where(q)
<1>1. CASE v = 0
  <2>1. v + 1 = 1
    BY <1>1
  <2>2. /\ p \in {"TLR", "RTI", "SelDR", "CapDR", "SelIR", "CapIR", "UpdDR", "UpdIR"}
        /\ q = J!TapNext[p][1] /\ p \notin Unknown /\ q \notin Unknown
    BY <1>1, TapZeros DEF Onward, Unknown
  <2>3. x = p /\ Where(q) = {q}
    BY <2>2 DEF Where, Unknown
  <2> QED
    BY <2>1, <2>2, <2>3
<1>2. CASE v = 1
  <2>1. v + 1 = 2
    BY <1>2
  <2>2. CASE p \in Unknown
    <3>1. <<p, q>> \in {<<"W0", "W1">>, <<"W1", "W2">>, <<"W2", "W3">>, <<"W3", "W4">>, <<"W4", "TLR">>}
      BY <1>2, <2>2 DEF Onward, Unknown
    <3>2. CASE p = "W0"
      BY <2>1, <3>1, <3>2, TapOnes DEF Where, J!TapStates
    <3>3. CASE p = "W1"
      BY <2>1, <3>1, <3>3, TapOnes DEF Where
    <3>4. CASE p = "W2"
      BY <2>1, <3>1, <3>4, TapOnes DEF Where
    <3>5. CASE p = "W3"
      BY <2>1, <3>1, <3>5, TapOnes DEF Where
    <3>6. CASE p = "W4"
      BY <2>1, <3>1, <3>6, TapOnes DEF Where
    <3> QED
      BY <2>2, <3>2, <3>3, <3>4, <3>5, <3>6 DEF Unknown
  <2>3. CASE p \notin Unknown
    <3>1. q = J!TapNext[p][2] /\ q \notin Unknown
      BY <1>2, <2>3, TapOnes DEF Onward, Unknown
    <3>2. x = p /\ Where(q) = {q}
      BY <2>3, <3>1 DEF Where, Unknown
    <3> QED
      BY <2>1, <3>1, <3>2
  <2> QED
    BY <2>2, <2>3
<1> QED
  BY <1>1, <1>2 DEF OneBit

LEMMA TapStays == ASSUME NEW p \in JPlaces PROVE Where(p) \subseteq J!TapStates
  BY DEF JPlaces, Unknown, Where, J!TapStates

LEMMA InstructionBits ==
    /\ J!Bit(4, 0) = 0 /\ J!Bit(4, 1) = 0 /\ J!Bit(4, 2) = 1 /\ J!Bit(4, 3) = 0
    /\ J!Bit(5, 0) = 1 /\ J!Bit(5, 1) = 0 /\ J!Bit(5, 2) = 1 /\ J!Bit(5, 3) = 0
    /\ J!Bit(12, 0) = 0 /\ J!Bit(12, 1) = 0 /\ J!Bit(12, 2) = 1 /\ J!Bit(12, 3) = 1
<1>1. 2^0 = 1 /\ 2^1 = 2 /\ 2^2 = 4 /\ 2^3 = 8
  OBVIOUS
<1>2. (4 \div 1) % 2 = 0 /\ (4 \div 2) % 2 = 0 /\ (4 \div 4) % 2 = 1 /\ (4 \div 8) % 2 = 0
  OBVIOUS
<1>3. (5 \div 1) % 2 = 1 /\ (5 \div 2) % 2 = 0 /\ (5 \div 4) % 2 = 1 /\ (5 \div 8) % 2 = 0
  OBVIOUS
<1>4. (12 \div 1) % 2 = 0 /\ (12 \div 2) % 2 = 0 /\ (12 \div 4) % 2 = 1 /\ (12 \div 8) % 2 = 1
  OBVIOUS
<1> QED
  BY <1>1, <1>2, <1>3, <1>4 DEF J!Bit

LEMMA ZeroBits == ASSUME NEW i \in 0..15 PROVE J!Bit(0, i) = 0
<1> DEFINE p == 2^i
<1>1. p \in Nat \ {0}
  BY MorePowers
<1> HIDE DEF p
<1>2. (0 \div p) % 2 = 0
  <2>1. 0 \div p = 0
    BY <1>1
  <2> QED
    BY <2>1
<1> QED
  BY <1>2 DEF J!Bit, p

\* The instruction that Update-IR takes over.
LEMMA NumberOfIr ==
    ASSUME NEW s, NEW w \in Instructions, Shifted(s, w, 4, 4)
    PROVE  J!Number(s) = w
<1>1. Len(s) = 4 /\ s[1] = J!Bit(w, 0) /\ s[2] = J!Bit(w, 1) /\ s[3] = J!Bit(w, 2) /\ s[4] = J!Bit(w, 3)
  <2>1. Len(s) = 4 /\ \A i \in 1..4 : s[(4 - 4) + i] = J!Bit(w, i - 1)
    BY DEF Shifted
  <2>2. s[(4 - 4) + 1] = J!Bit(w, 1 - 1) /\ s[(4 - 4) + 2] = J!Bit(w, 2 - 1)
        /\ s[(4 - 4) + 3] = J!Bit(w, 3 - 1) /\ s[(4 - 4) + 4] = J!Bit(w, 4 - 1)
    BY <2>1
  <2>3. (4 - 4) + 1 = 1 /\ (4 - 4) + 2 = 2 /\ (4 - 4) + 3 = 3 /\ (4 - 4) + 4 = 4
        /\ 1 - 1 = 0 /\ 2 - 1 = 1 /\ 3 - 1 = 2 /\ 4 - 1 = 3
    OBVIOUS
  <2> QED
    BY <2>1, <2>2, <2>3
<1> DEFINE b(i) == IF i <= Len(s) THEN s[i] ELSE 0
           n(i) == b(i) + 2 * b(i + 1) + 4 * b(i + 2) + 8 * b(i + 3)
<1>2. J!Number(s) = n(1) + 16 * n(5) + 256 * n(9) + 4096 * n(13)
  BY DEF J!Number
<1>3. /\ b(1) = s[1] /\ b(2) = s[2] /\ b(3) = s[3] /\ b(4) = s[4]
      /\ \A i \in 5..16 : b(i) = 0
  BY <1>1
<1> HIDE DEF b
<1>4. n(5) = 0 /\ n(9) = 0 /\ n(13) = 0
  BY <1>3
<1>5. n(1) = s[1] + 2 * s[2] + 4 * s[3] + 8 * s[4]
  BY <1>3
<1>6. s[1] + 2 * s[2] + 4 * s[3] + 8 * s[4] = w
  BY <1>1, InstructionBits DEF Instructions
<1>7. w \in Nat
  BY DEF Instructions
<1> HIDE DEF n
<1>8. n(1) = w
  BY <1>5, <1>6
<1> QED
  BY <1>2, <1>4, <1>7, <1>8

\* Sixteen zeros are not the signature that enables programming.
LEMMA NumberOfZeros ==
    ASSUME NEW s, Shifted(s, 0, 16, 16)
    PROVE  J!Number(s) = 0
<1>1. Len(s) = 16 /\ \A i \in 1..16 : s[i] = 0
  <2>1. Len(s) = 16 /\ \A i \in 1..16 : s[(16 - 16) + i] = J!Bit(0, i - 1)
    BY DEF Shifted
  <2>2. \A i \in 1..16 : (16 - 16) + i = i /\ i - 1 \in 0..15
    OBVIOUS
  <2> QED
    BY <2>1, <2>2, ZeroBits
<1> DEFINE b(i) == IF i <= Len(s) THEN s[i] ELSE 0
           n(i) == b(i) + 2 * b(i + 1) + 4 * b(i + 2) + 8 * b(i + 3)
<1>2. J!Number(s) = n(1) + 16 * n(5) + 256 * n(9) + 4096 * n(13)
  BY DEF J!Number
<1>3. \A i \in 1..16 : b(i) = 0
  BY <1>1
<1> HIDE DEF b
<1>4. n(1) = 0 /\ n(5) = 0 /\ n(9) = 0 /\ n(13) = 0
  BY <1>3
<1> HIDE DEF n
<1> QED
  BY <1>2, <1>4

LEMMA FirstOfOne == ASSUME NEW s, Shifted(s, 0, 1, 1) PROVE s[1] = 0
<1>1. \A i \in 1..1 : s[(1 - 1) + i] = J!Bit(0, i - 1)
  BY DEF Shifted
<1>2. (1 - 1) + 1 = 1 /\ 1 - 1 = 0 /\ 1 \in 1..1 /\ 0 \in 0..15
  OBVIOUS
<1> QED
  BY <1>1, <1>2, ZeroBits

\* One more bit.
LEMMA ShiftedOn ==
    ASSUME NEW s, NEW w, NEW m \in 1..16, NEW n \in Nat, n < m, NEW d, d = J!Bit(w, n), Shifted(s, w, n, m)
    PROVE  Shifted(Append(Tail(s), d), w, n + 1, m)
<1>1. PICK U : s \in Seq(U)
  BY DEF Shifted
<1> DEFINE V == U \cup {d}
           u == Tail(s)
           t == Append(u, d)
<1>2. Len(s) = m /\ \A i \in 1..n : s[(m - n) + i] = J!Bit(w, i - 1)
  BY DEF Shifted
<1>3. s \in Seq(V) /\ s # <<>>
  BY <1>1, <1>2
<1>4. u \in Seq(V) /\ Len(u) = m - 1 /\ \A i \in 1..(m - 1) : u[i] = s[i + 1]
  BY <1>2, <1>3
<1> HIDE DEF u
<1>5. t \in Seq(V) /\ Len(t) = m /\ t[m] = d /\ \A i \in 1..(m - 1) : t[i] = u[i]
  BY <1>4
<1> HIDE DEF t
<1>6. \A i \in 1..(n + 1) : t[(m - (n + 1)) + i] = J!Bit(w, i - 1)
  <2> SUFFICES ASSUME NEW i \in 1..(n + 1) PROVE t[(m - (n + 1)) + i] = J!Bit(w, i - 1)
    OBVIOUS
  <2>1. CASE i = n + 1
    <3>1. (m - (n + 1)) + i = m /\ i - 1 = n
      BY <2>1
    <3> QED
      BY <1>5, <3>1
  <2>2. CASE i # n + 1
    <3> DEFINE j == (m - (n + 1)) + i
    <3>1. j \in 1..(m - 1) /\ j + 1 = (m - n) + i /\ i \in 1..n
      BY <2>2
    <3> HIDE DEF j
    <3>2. t[j] = s[(m - n) + i]
      BY <1>4, <1>5, <3>1
    <3> QED
      BY <1>2, <3>1, <3>2 DEF j
  <2> QED
    BY <2>1, <2>2
<1>7. n + 1 \in 0..m
  OBVIOUS
<1> QED
  BY <1>5, <1>6, <1>7 DEF Shifted, t, u

\* A register just captured.
LEMMA ShiftedNone == ASSUME NEW s, NEW U, s \in Seq(U), NEW w, NEW m \in 1..16, Len(s) = m PROVE Shifted(s, w, 0, m)
  BY DEF Shifted

LEMMA CapturedLong ==
    ASSUME NEW m \in 1..16, NEW v
    PROVE  Len(J!Bits(v, m)) = m /\ \E U : J!Bits(v, m) \in Seq(U)
<1> DEFINE F(i) == J!Bit(v, i - 1)
           U == {F(i) : i \in 1..m}
           s == [i \in 1..m |-> F(i)]
<1>1. s \in [1..m -> U]
  OBVIOUS
<1>2. s = J!Bits(v, m)
  BY DEF J!Bits
<1> HIDE DEF F, U, s
<1>3. s \in Seq(U) /\ Len(s) = m
  BY <1>1
<1> QED
  BY <1>2, <1>3

LEMMA KnownTap ==
    ASSUME NEW a \in JStates, JAdmits(a), a.at \notin Unknown
    PROVE  tap = a.at
  BY DEF JAdmits, Where, Unknown

\* What an update leaves in the instruction register, and what becomes of the two resets.
LEMMA JUpdated ==
    ASSUME NEW a \in JStates, JAdmits(a), a.at \notin Unknown, NEW x, NEW y, J!TargetClock(x, y)
    PROVE  /\ ir' = IrAfter(a)
           /\ DoneAfter(a) >= 1 => ~prog'
           /\ DoneAfter(a) >= 2 => rst' = 0
           /\ DoneAfter(a) = 3 => a.done = 3
<1>1. tap = a.at
  BY KnownTap
<1>2. /\ ir' = CASE tap = "UpdIR" -> J!Number(sr) [] tap = "TLR" -> 1 [] OTHER -> ir
      /\ rst' = IF tap = "UpdDR" /\ ir = 12 THEN sr[1] ELSE rst
      /\ prog' = IF tap = "UpdDR" /\ ir = 4 THEN rst = 1 /\ J!Number(sr) = 41840 ELSE prog
  BY DEF J!TargetClock, J!aji_avr_reset, J!aji_prog_enable, J!H
<1>3. a.at # "TLR" => ir = a.ir
  BY DEF JAdmits
<1>4. Watched(a) /\ a.at \notin {"ShIR", "ShDR"} => Shifted(sr, a.w, a.n, Width(a)) /\ a.n = Width(a)
  BY DEF JAdmits
<1>5. (a.done >= 1 => ~prog) /\ (a.done >= 2 => rst = 0) /\ a.done \in 0..3
  BY DEF JAdmits, JStates
<1>6. ir' = IrAfter(a)
  <2>1. CASE a.at = "UpdIR"
    <3>1. a.w \in Instructions /\ Watched(a) /\ Width(a) = 4
      BY <2>1 DEF JAdmits, Watched, Width, OfIr
    <3>2. Shifted(sr, a.w, 4, 4)
      BY <1>4, <2>1, <3>1
    <3>3. J!Number(sr) = a.w
      BY <3>1, <3>2, NumberOfIr
    <3> QED
      BY <1>1, <1>2, <2>1, <3>3 DEF IrAfter
  <2>2. CASE a.at = "TLR"
    BY <1>1, <1>2, <2>2 DEF IrAfter
  <2>3. CASE a.at \notin {"UpdIR", "TLR"}
    BY <1>1, <1>2, <1>3, <2>3 DEF IrAfter
  <2> QED
    BY <2>1, <2>2, <2>3
<1>7. CASE a.at = "UpdDR" /\ a.ir = 4
  <2>1. DoneAfter(a) = IF a.w = 0 THEN 1 ELSE 0
    BY <1>7 DEF DoneAfter
  <2>2. ASSUME a.w = 0 PROVE ~prog'
    <3>1. Watched(a) /\ Width(a) = 16
      BY <1>7, <2>2 DEF Watched, Width, OfIr, OfDr
    <3>2. Shifted(sr, 0, 16, 16)
      BY <1>4, <1>7, <2>2, <3>1
    <3>3. J!Number(sr) = 0
      BY <3>2, NumberOfZeros
    <3> DEFINE right == J!Number(sr) = 41840
    <3>4. ~right
      BY <3>3
    <3>5. prog' = IF tap = "UpdDR" /\ ir = 4 THEN rst = 1 /\ right ELSE prog
      BY <1>2
    <3> HIDE DEF right
    <3>6. tap = "UpdDR" /\ ir = 4
      BY <1>1, <1>3, <1>7
    <3> QED
      BY <3>4, <3>5, <3>6, Zenon
  <2> QED
    BY <1>6, <2>1, <2>2
<1>8. CASE a.at = "UpdDR" /\ a.ir = 12 /\ a.done > 0
  <2>1. DoneAfter(a) = IF a.w = 0 THEN 2 ELSE 1
    BY <1>8 DEF DoneAfter
  <2>2. prog' = prog /\ ~prog
    BY <1>1, <1>2, <1>3, <1>5, <1>8
  <2>3. ASSUME a.w = 0 PROVE rst' = 0
    <3>1. Watched(a) /\ Width(a) = 1
      BY <1>8, <2>3 DEF Watched, Width, OfIr, OfDr
    <3>2. Shifted(sr, 0, 1, 1)
      BY <1>4, <1>8, <2>3, <3>1
    <3>3. sr[1] = 0
      BY <3>2, FirstOfOne
    <3> QED
      BY <1>1, <1>2, <1>3, <1>8, <3>3
  <2> QED
    BY <1>6, <2>1, <2>2, <2>3
<1>9. CASE ~(a.at = "UpdDR" /\ a.ir = 4) /\ ~(a.at = "UpdDR" /\ a.ir = 12 /\ a.done > 0)
  <2>1. DoneAfter(a) = a.done
    BY <1>9 DEF DoneAfter
  <2>2. prog' = prog
    BY <1>1, <1>2, <1>3, <1>9
  <2>3. rst' = rst \/ a.done = 0
    BY <1>1, <1>2, <1>3, <1>5, <1>9, SMTT(60)
  <2> QED
    BY <1>5, <1>6, <2>1, <2>2, <2>3
<1> QED
  BY <1>7, <1>8, <1>9

\* The shift register behind a move of the TAP.
LEMMA JRegister ==
    ASSUME NEW a \in JStates, NEW c \in JStates, NEW v \in OneBit, JAdmits(a), JMove(a, v, c),
           NEW x, NEW y, J!TargetClock(x, y), Watched(c)
    PROVE  Shifted(sr', c.w, c.n, Width(c)) /\ (c.at \notin {"ShIR", "ShDR"} => c.n = Width(c))
<1>1. /\ sr' = CASE tap = "CapIR" -> <<1, 0, 0, 0>>
                 [] tap = "CapDR" -> J!Captured
                 [] tap \in {"ShIR", "ShDR"} -> Append(Tail(sr), y)
                 [] OTHER -> sr
  BY DEF J!TargetClock
<1>2. /\ <<a.at, v, c.at>> \in Onward /\ c.ir = IrAfter(a)
      /\ c.at \in {"ShIR", "ShDR"} => c.n = 0
      /\ c.at \in {"UpdIR", "UpdDR"} => c.w = a.w /\ c.n = a.n
  BY DEF JMove
<1>3. c.at \in {"ShIR", "UpdIR", "ShDR", "UpdDR"}
  BY <1>2 DEF Watched, OfIr, OfDr, Onward
<1>4. CASE c.at = "ShIR"
  <2>1. a.at = "CapIR" /\ a.at \notin Unknown
    BY <1>2, <1>4 DEF Onward, Unknown
  <2>2. sr' = <<1, 0, 0, 0>>
    BY <1>1, <2>1, KnownTap
  <2>3. sr' \in Seq({0, 1}) /\ Len(sr') = 4 /\ 4 \in 1..16
    BY <2>2
  <2>4. Width(c) = 4 /\ c.n = 0
    BY <1>2, <1>4 DEF Width, OfIr
  <2>5. Shifted(sr', c.w, 0, 4)
    BY <2>3, ShiftedNone
  <2> QED
    BY <1>4, <2>4, <2>5
<1>5. CASE c.at = "ShDR"
  <2>1. a.at = "CapDR" /\ a.at \notin Unknown /\ a.at # "TLR"
    BY <1>2, <1>5 DEF Onward, Unknown
  <2>2. c.ir = a.ir /\ a.ir = ir
    BY <1>2, <2>1 DEF IrAfter, JAdmits
  <2>3. sr' = J!Captured
    BY <1>1, <2>1, KnownTap
  <2>4. c.ir \in {4, 12}
    BY <1>5 DEF Watched, OfIr
  <2>5. CASE c.ir = 4
    <3>1. sr' = J!Bits(0, 16)
      BY <2>2, <2>3, <2>5 DEF J!Captured, J!aji_prog_commands, J!aji_prog_enable
    <3>2. 16 \in 1..16
      OBVIOUS
    <3>3. Len(sr') = 16 /\ \E U : sr' \in Seq(U)
      BY <3>1, <3>2, CapturedLong
    <3>4. Shifted(sr', c.w, 0, 16)
      BY <3>2, <3>3, ShiftedNone, SMTT(60)
    <3>5. Width(c) = 16 /\ c.n = 0
      BY <1>2, <1>5, <2>5 DEF Width, OfIr
    <3> QED
      BY <1>5, <3>4, <3>5
  <2>6. CASE c.ir = 12
    <3>1. sr' = J!Bits(0, 1)
      BY <2>2, <2>3, <2>6 DEF J!Captured, J!aji_prog_commands, J!aji_prog_enable
    <3>2. 1 \in 1..16
      OBVIOUS
    <3>3. Len(sr') = 1 /\ \E U : sr' \in Seq(U)
      BY <3>1, <3>2, CapturedLong, SMTT(60)
    <3>4. Shifted(sr', c.w, 0, 1)
      BY <3>2, <3>3, ShiftedNone
    <3>5. Width(c) = 1 /\ c.n = 0
      BY <1>2, <1>5, <2>6 DEF Width, OfIr
    <3> QED
      BY <1>5, <3>4, <3>5
  <2> QED
    BY <2>4, <2>5, <2>6
<1>6. CASE c.at \in {"UpdIR", "UpdDR"}
  <2>1. a.at = (IF c.at = "UpdIR" THEN "Ex1IR" ELSE "Ex1DR") /\ a.at \notin Unknown
    BY <1>2, <1>6 DEF Onward, Unknown
  <2>2. sr' = sr
    BY <1>1, <2>1, KnownTap
  <2>3. c.ir = a.ir /\ c.w = a.w /\ c.n = a.n
    BY <1>2, <1>6, <2>1 DEF IrAfter
  <2>4. Watched(a) /\ Width(a) = Width(c)
    BY <1>6, <2>1, <2>3 DEF Watched, Width, OfIr, OfDr
  <2>5. Shifted(sr, a.w, a.n, Width(a)) /\ a.n = Width(a)
    BY <2>1, <2>4 DEF JAdmits
  <2> QED
    BY <2>2, <2>3, <2>4, <2>5
<1> QED
  BY <1>3, <1>4, <1>5, <1>6

LEMMA JMoved ==
    ASSUME JShape, NEW a \in JStates, NEW c \in JStates, NEW v \in OneBit, JAdmits(a), JMove(a, v, c),
           NEW y, J!TargetClock(v, y), pins' \in [resetb : Nat, tms : Nat, tdi : Nat],
           pins'.tms = v, pins'.resetb = pins.resetb
    PROVE  JShape' /\ JAdmits(c)'
<1>1. /\ <<a.at, v, c.at>> \in Onward /\ c.ir = IrAfter(a) /\ c.done = DoneAfter(a)
      /\ c.at = "ShIR" => c.w \in Instructions
      /\ c.at \in {"UpdIR", "UpdDR"} => c.w = a.w /\ c.n = a.n
  BY DEF JMove
<1>2. tap \in Where(a.at) /\ tap' = J!TapNext[tap][v + 1]
  BY DEF JAdmits, J!TargetClock
<1>3. tap' \in Where(c.at)
  BY <1>1, <1>2, TapGoes
<1>4. JShape'
  BY <1>3, TapStays DEF JShape, JStates
<1>5. c.at \in {"ShIR", "ShDR"} => pins'.tms = 0
  <2>1. c.at \in {"ShIR", "ShDR"} => v = 0
    BY <1>1 DEF Onward
  <2> QED
    BY <2>1
<1>6. c.at \in OfIr => c.w \in Instructions
  <2>1. CASE c.at = "ShIR"
    BY <1>1, <2>1
  <2>2. CASE c.at = "UpdIR"
    <3>1. a.at = "Ex1IR"
      BY <1>1, <2>2 DEF Onward
    <3> QED
      BY <1>1, <2>2, <3>1 DEF JAdmits, OfIr
  <2>3. c.at # "Ex1IR"
    BY <1>1 DEF Onward
  <2> QED
    BY <2>1, <2>2, <2>3 DEF OfIr
<1>7. Watched(c) => Shifted(sr', c.w, c.n, Width(c)) /\ (c.at \notin {"ShIR", "ShDR"} => c.n = Width(c))
  BY JRegister
<1>8. /\ c.at \in Unknown => c.done = 0
      /\ c.at \notin Unknown \cup {"TLR"} => ir' = c.ir
      /\ c.done >= 1 => ~prog'
      /\ c.done >= 2 => rst' = 0
      /\ c.done = 3 => pins'.resetb = 1
  <2>1. CASE a.at \in Unknown
    <3>1. c.at \in Unknown \cup {"TLR"}
      BY <1>1, <2>1 DEF Onward, Unknown
    <3>2. c.done = 0
      BY <1>1, <2>1 DEF DoneAfter, JAdmits, Unknown
    <3> QED
      BY <3>1, <3>2
  <2>2. CASE a.at \notin Unknown
    <3>1. c.at \notin Unknown
      BY <1>1, <2>2 DEF Onward, Unknown
    <3>2. /\ ir' = c.ir
          /\ c.done >= 1 => ~prog'
          /\ c.done >= 2 => rst' = 0
          /\ c.done = 3 => a.done = 3
      BY <1>1, <2>2, JUpdated
    <3>3. c.done = 3 => pins'.resetb = 1
      BY <3>2 DEF JAdmits
    <3> QED
      BY <3>1, <3>2, <3>3
  <2> QED
    BY <2>1, <2>2
<1>9. JAdmits(c)'
  BY <1>3, <1>5, <1>6, <1>7, <1>8 DEF JAdmits
<1> QED
  BY <1>4, <1>9

LEMMA JShiftedIn ==
    ASSUME JShape, NEW a \in JStates, NEW c \in JStates, NEW f \in {"tdi", "last"}, NEW v,
           JAdmits(a), JShift(a, f, v, c),
           NEW t \in OneBit, t = IF f = "tdi" THEN 0 ELSE 1,
           J!TargetClock(t, v), pins' \in [resetb : Nat, tms : Nat, tdi : Nat],
           pins'.tms = t, pins'.resetb = pins.resetb
    PROVE  JShape' /\ JAdmits(c)'
<1> DEFINE p == IF f = "tdi" THEN a.at ELSE IF a.at = "ShIR" THEN "Ex1IR" ELSE "Ex1DR"
<1>1. /\ a.at \in {"ShIR", "ShDR"} /\ v \in OneBit
      /\ Watched(a) => v = J!Bit(a.w, a.n) /\ a.n < Width(a) /\ (f = "last" => a.n + 1 = Width(a))
      /\ c = JAt(p, a.ir, a.w, a.n + 1, a.done)
  BY DEF JShift
<1>2. c.at = p /\ c.ir = a.ir /\ c.w = a.w /\ c.n = a.n + 1 /\ c.done = a.done
  BY <1>1 DEF JAt
<1>3. /\ a.at \notin Unknown \cup {"TLR"} /\ p \notin Unknown \cup {"TLR"}
      /\ f = "last" => p \notin {"ShIR", "ShDR"}
      /\ f = "tdi" => p = a.at
      /\ a.at \in OfIr <=> p \in OfIr
      /\ a.at \in OfDr <=> p \in OfDr
  BY <1>1 DEF Unknown, OfIr, OfDr
<1>4. tap = a.at
  BY <1>3, KnownTap
<1>5. tap' = p
  <2>1. CASE f = "tdi"
    <3>1. t + 1 = 1 /\ tap' = J!TapNext[tap][t + 1] /\ p = a.at
      BY <2>1 DEF J!TargetClock
    <3> QED
      BY <1>1, <1>4, <3>1, TapZeros
  <2>2. CASE f = "last"
    <3>1. t + 1 = 2 /\ tap' = J!TapNext[tap][t + 1] /\ p = IF a.at = "ShIR" THEN "Ex1IR" ELSE "Ex1DR"
      BY <2>2 DEF J!TargetClock
    <3> QED
      BY <1>1, <1>4, <3>1, TapOnes
  <2> QED
    BY <2>1, <2>2
<1>6. ir' = ir /\ rst' = rst /\ prog' = prog /\ sr' = Append(Tail(sr), v)
  BY <1>1, <1>4 DEF J!TargetClock
<1>7. tap' \in Where(p) /\ p \in JPlaces
  BY <1>1, <1>2, <1>3, <1>5 DEF Where, Unknown, JStates
<1> HIDE DEF p
<1>8. JShape'
  BY <1>7, TapStays DEF JShape
<1>9. c.at \in {"ShIR", "ShDR"} => pins'.tms = 0
  BY <1>2, <1>3
<1>10. ASSUME Watched(c)
       PROVE  Shifted(sr', c.w, c.n, Width(c)) /\ (c.at \notin {"ShIR", "ShDR"} => c.n = Width(c))
  <2>1. Watched(a) /\ Width(a) = Width(c)
    BY <1>2, <1>3, <1>10 DEF Watched, Width
  <2>2. Shifted(sr, a.w, a.n, Width(a))
    BY <2>1 DEF JAdmits
  <2>3. v = J!Bit(a.w, a.n) /\ a.n < Width(a)
    BY <1>1, <2>1
  <2>4. Width(a) \in 1..16 /\ a.n \in Nat
    <3>1. 4 \in 1..16 /\ 16 \in 1..16 /\ 1 \in 1..16
      OBVIOUS
    <3> QED
      BY <3>1 DEF Width, JStates
  <2>5. Shifted(Append(Tail(sr), v), a.w, a.n + 1, Width(a))
    BY <2>2, <2>3, <2>4, ShiftedOn
  <2>6. c.at \notin {"ShIR", "ShDR"} => f = "last"
    BY <1>1, <1>2, <1>3
  <2> QED
    BY <1>1, <1>2, <1>6, <2>1, <2>5, <2>6
<1>11. JAdmits(c)'
  <2>1. c.at \in OfIr => c.w \in Instructions
    BY <1>2, <1>3 DEF JAdmits
  <2>2. ir = a.ir /\ (a.done >= 1 => ~prog) /\ (a.done >= 2 => rst = 0) /\ (a.done = 3 => pins.resetb = 1)
    BY <1>3 DEF JAdmits
  <2>3. c.at \notin Unknown
    BY <1>2, <1>3
  <2> QED
    BY <1>2, <1>6, <1>7, <1>9, <1>10, <2>1, <2>2, <2>3 DEF JAdmits
<1> QED
  BY <1>8, <1>11

-----------------------------------------------------------------------------
(* The JTAG programmer's calls. *)

JBetween ==
    /\ call = NoCall /\ todo = <<>>
    /\ \/ calls \in Sessions["jtag"]
       \/ calls = <<>>
       \/ (\E c : Ahead("jtag", c, calls)) /\ (\E a \in Rests : JAdmits(a))

\* Where a call leaves the TAP and the target.
JEnds(b) ==
    /\ call.fn = Reset["jtag"] => calls = <<>> /\ b = JAt("RTI", 1, 0, 0, 3)
    /\ call.fn # Reset["jtag"] => b \in Rests

JWithin ==
    /\ call # NoCall /\ Ahead("jtag", call, calls)
    /\ \E a \in JStates, b \in JStates : Runs(JRel, todo, a, b) /\ JAdmits(a) /\ JEnds(b)

JInv == JShape /\ (JBetween \/ JWithin)

LEMMA JFirst ==
    ASSUME NEW a \in JStates, NEW b, NEW s, s # <<>>, Runs(JRel, s, a, b)
    PROVE  /\ s \in Seq(Steps)
           /\ \E c \in JStates : JStep(a, Head(s)[1], Head(s)[2], c) /\ Runs(JRel, Tail(s), c, b)
<1>1. PICK c : <<a, Head(s), c>> \in JRel /\ Runs(JRel, Tail(s), c, b) /\ s \in Seq(Steps)
  BY RunsFirst
<1>2. c \in JStates /\ JStep(a, Head(s)[1], Head(s)[2], c)
  BY <1>1 DEF JRel
<1> QED
  BY <1>1, <1>2

LEMMA JGoesOn ==
    ASSUME JInv, todo # <<>>, todo' = Tail(todo), call' = call, calls' = calls,
           \A a, c \in JStates : JAdmits(a) /\ JStep(a, J!step, J!value, c) => JShape' /\ JAdmits(c)'
    PROVE  JInv'
<1>1. JWithin
  BY DEF JInv, JBetween
<1>2. PICK a \in JStates, b \in JStates : Runs(JRel, todo, a, b) /\ JAdmits(a) /\ JEnds(b)
  BY <1>1 DEF JWithin
<1>3. PICK c \in JStates : JStep(a, Head(todo)[1], Head(todo)[2], c) /\ Runs(JRel, Tail(todo), c, b)
  BY <1>2, JFirst
<1>4. JShape' /\ JAdmits(c)'
  BY <1>2, <1>3 DEF J!step, J!value
<1>5. JEnds(b)'
  BY <1>2 DEF JEnds
<1>6. JWithin'
  BY <1>1, <1>3, <1>4, <1>5 DEF JWithin
<1> QED
  BY <1>4, <1>6 DEF JInv

\* The value of a step.
LEMMA JValue == ASSUME JInv, todo # <<>> PROVE J!value \in Nat
<1>1. JWithin
  BY DEF JInv, JBetween
<1>2. PICK a \in JStates, b \in JStates : Runs(JRel, todo, a, b)
  BY <1>1 DEF JWithin
<1>3. todo \in Seq(Steps)
  BY <1>2, JFirst
<1>4. Head(todo) \in Steps
  BY <1>3
<1> QED
  BY <1>4 DEF Steps, J!value

LEMMA JClock == ASSUME JInv, J!ClockStep PROVE JInv'
<1> DEFINE f == J!step
           v == J!value
<1>1. /\ todo # <<>> /\ f \in {"tms", "tdi", "last"} /\ todo' = Tail(todo) /\ call' = call /\ calls' = calls
      /\ J!TargetClock(pins'.tms, pins'.tdi)
      /\ pins' = CASE f = "tms"  -> [pins EXCEPT !.tms = v]
                   [] f = "tdi"  -> [pins EXCEPT !.tdi = v]
                   [] f = "last" -> [pins EXCEPT !.tms = 1, !.tdi = v]
  BY DEF J!ClockStep
<1>2. v \in Nat
  BY <1>1, JValue
<1>3. JShape
  BY DEF JInv
<1>4. pins \in [resetb : Nat, tms : Nat, tdi : Nat]
  BY <1>3 DEF JShape
<1> HIDE DEF f, v
<1>5. /\ pins' \in [resetb : Nat, tms : Nat, tdi : Nat] /\ pins'.resetb = pins.resetb
      /\ f = "tms" => pins'.tms = v
      /\ f = "tdi" => pins'.tms = pins.tms /\ pins'.tdi = v
      /\ f = "last" => pins'.tms = 1 /\ pins'.tdi = v
  <2>1. CASE f = "tms"
    <3>1. pins' = [pins EXCEPT !.tms = v]
      BY <1>1, <2>1
    <3> QED
      BY <1>2, <1>4, <2>1, <3>1
  <2>2. CASE f = "tdi"
    <3>1. pins' = [pins EXCEPT !.tdi = v]
      BY <1>1, <2>2
    <3> QED
      BY <1>2, <1>4, <2>2, <3>1
  <2>3. CASE f = "last"
    <3> DEFINE p == [pins EXCEPT !.tms = 1]
               q == [p EXCEPT !.tdi = v]
    <3>1. pins' = q
      BY <1>1, <2>3
    <3>2. p \in [resetb : Nat, tms : Nat, tdi : Nat] /\ p.resetb = pins.resetb /\ p.tms = 1
      BY <1>4
    <3> HIDE DEF p
    <3> QED
      BY <1>2, <2>3, <3>1, <3>2
  <2> QED
    BY <1>1, <2>1, <2>2, <2>3
<1>6. ASSUME NEW a \in JStates, NEW c \in JStates, JAdmits(a), JStep(a, f, v, c)
      PROVE  JShape' /\ JAdmits(c)'
  <2>1. CASE f = "tms"
    <3>1. v \in OneBit /\ JMove(a, v, c)
      BY <1>6, <2>1 DEF JStep
    <3>2. J!TargetClock(v, pins'.tdi)
      BY <1>1, <1>5, <2>1
    <3> QED
      BY <1>3, <1>5, <1>6, <2>1, <3>1, <3>2, JMoved
  <2>2. CASE f \in {"tdi", "last"}
    <3> DEFINE t == IF f = "tdi" THEN 0 ELSE 1
    <3>1. JShift(a, f, v, c)
      BY <1>6, <2>2 DEF JStep
    <3>2. pins'.tms = t /\ pins'.tdi = v /\ t \in OneBit
      <4>1. f = "tdi" => pins.tms = 0
        BY <1>6, <3>1 DEF JShift, JAdmits
      <4> QED
        BY <1>5, <2>2, <4>1 DEF OneBit
    <3>3. PICK u \in OneBit : u = t
      BY <3>2
    <3> HIDE DEF t
    <3>4. J!TargetClock(u, v) /\ pins'.tms = u
      BY <1>1, <3>2, <3>3
    <3>5. u = IF f = "tdi" THEN 0 ELSE 1
      BY <3>3 DEF t
    <3> QED
      BY <1>3, <1>5, <1>6, <2>2, <3>1, <3>4, <3>5, JShiftedIn
  <2> QED
    BY <1>1, <2>1, <2>2
<1> QED
  BY <1>1, <1>6, JGoesOn DEF f, v

LEMMA JAdmitsStill ==
    ASSUME UNCHANGED <<pins, tap, ir, sr, rst, prog>>
    PROVE  (JShape => JShape') /\ \A a : JAdmits(a) => JAdmits(a)'
<1>1. JShape => JShape'
  BY DEF JShape
<1>2. ASSUME NEW a, JAdmits(a) PROVE JAdmits(a)'
  BY <1>2 DEF JAdmits
<1> QED
  BY <1>1, <1>2

LEMMA JResetPin == ASSUME JInv, J!ResetPin PROVE JInv'
<1> DEFINE f == J!step
           v == J!value
<1>1. /\ todo # <<>> /\ f \in {"power", "reset"} /\ todo' = Tail(todo)
      /\ pins' = IF f = "power" THEN [pins EXCEPT !.tms = 1, !.resetb = 0] ELSE [pins EXCEPT !.resetb = v]
      /\ UNCHANGED <<calls, call, tap, ir, sr, rst, prog>>
  BY DEF J!ResetPin
<1>2. v \in Nat
  BY <1>1, JValue
<1>3. tap \in J!TapStates /\ pins \in [resetb : Nat, tms : Nat, tdi : Nat]
  BY DEF JInv, JShape
<1> HIDE DEF f, v
<1>4. /\ pins' \in [resetb : Nat, tms : Nat, tdi : Nat]
      /\ f = "reset" => pins'.tms = pins.tms /\ pins'.resetb = v
  <2>1. CASE f = "power"
    <3> DEFINE p == [pins EXCEPT !.tms = 1]
               q == [p EXCEPT !.resetb = 0]
    <3>1. pins' = q
      BY <1>1, <2>1
    <3>2. p \in [resetb : Nat, tms : Nat, tdi : Nat]
      BY <1>3
    <3> HIDE DEF p
    <3> QED
      BY <2>1, <3>1, <3>2
  <2>2. CASE f = "reset"
    <3>1. pins' = [pins EXCEPT !.resetb = v]
      BY <1>1, <2>2
    <3> QED
      BY <1>2, <1>3, <3>1
  <2> QED
    BY <1>1, <2>1, <2>2
<1>5. JShape'
  BY <1>1, <1>3, <1>4 DEF JShape
<1>6. ASSUME NEW a \in JStates, NEW c \in JStates, JAdmits(a), JStep(a, f, v, c)
      PROVE  JAdmits(c)'
  <2>1. CASE f = "power"
    <3>1. c = a /\ a.at = "W0" /\ a.done = 0
      BY <1>6, <2>1 DEF JStep
    <3>2. ~Watched(a) /\ a.at \notin OfIr /\ a.at \in Unknown /\ a.at \notin {"ShIR", "ShDR"}
      BY <3>1 DEF Watched, OfIr, OfDr, Unknown
    <3> QED
      BY <1>1, <1>6, <3>1, <3>2 DEF JAdmits
  <2>2. CASE f = "reset"
    <3> DEFINE d == IF a.done = 2 /\ v = 1 THEN 3 ELSE 0
    <3>1. c = JAt(a.at, a.ir, a.w, a.n, d)
      BY <1>6, <2>2 DEF JStep
    <3>2. c.at = a.at /\ c.ir = a.ir /\ c.w = a.w /\ c.n = a.n /\ c.done = d
      BY <3>1 DEF JAt
    <3>3. (Watched(c) <=> Watched(a)) /\ Width(c) = Width(a)
      BY <3>2 DEF Watched, Width
    <3>4. /\ c.done = 0 \/ (c.done = 3 /\ a.done = 2 /\ v = 1)
      BY <3>2
    <3> HIDE DEF d
    <3>5. /\ a.at \in Unknown => c.done = 0
          /\ c.done >= 1 => ~prog
          /\ c.done >= 2 => rst = 0
          /\ c.done = 3 => pins'.resetb = 1
      BY <1>4, <1>6, <2>2, <3>4 DEF JAdmits
    <3>6. /\ tap \in Where(a.at)
          /\ a.at \notin Unknown \cup {"TLR"} => ir = a.ir
          /\ a.at \in {"ShIR", "ShDR"} => pins'.tms = 0
          /\ a.at \in OfIr => a.w \in Instructions
          /\ Watched(a) => Shifted(sr, a.w, a.n, Width(a)) /\ (a.at \notin {"ShIR", "ShDR"} => a.n = Width(a))
      BY <1>4, <1>6, <2>2 DEF JAdmits
    <3> QED
      BY <1>1, <3>2, <3>3, <3>5, <3>6 DEF JAdmits
  <2> QED
    BY <1>1, <2>1, <2>2
<1> QED
  BY <1>1, <1>5, <1>6, JGoesOn DEF f, v

LEMMA JCompute == ASSUME JInv, J!Compute PROVE JInv'
<1> DEFINE f == J!step
           v == J!value
<1>1. /\ todo # <<>> /\ UNCHANGED <<calls, call, pins, tap, ir, sr, rst, prog>>
      /\ f \in {"zero", "keep", "high", "const", "test"}
      /\ todo' = Tail(todo) \/ (f = "test" /\ todo' = J!load_cmd(v) \o todo)
  BY DEF J!Compute
<1>2. v \in Nat
  BY <1>1, JValue
<1>3. JShape' /\ \A a : JAdmits(a) => JAdmits(a)'
  BY <1>1, JAdmitsStill DEF JInv
<1>4. f = Head(todo)[1] /\ v = Head(todo)[2]
  BY DEF J!step, J!value
<1> HIDE DEF f, v
<1>5. CASE todo' = Tail(todo)
  <2>1. ASSUME NEW a \in JStates, NEW c \in JStates, JStep(a, f, v, c) PROVE c = a
    BY <1>1, <2>1 DEF JStep
  <2> QED
    BY <1>1, <1>3, <1>5, <2>1, JGoesOn DEF f, v
<1>6. CASE f = "test" /\ todo' = J!load_cmd(v) \o todo
  <2>1. JWithin
    BY <1>1 DEF JInv, JBetween
  <2>2. PICK a \in JStates, b \in JStates : Runs(JRel, todo, a, b) /\ JAdmits(a) /\ JEnds(b)
    BY <2>1 DEF JWithin
  <2>3. PICK c \in JStates : JStep(a, f, v, c)
    BY <1>1, <1>4, <2>2, JFirst
  <2>4. a = Rest(a.ir) /\ a.ir \in 0..15
    BY <1>6, <2>3 DEF JStep, JStates
  <2>5. Runs(JRel, J!load_cmd(v), a, a)
    BY <1>2, <2>4, JPoll
  <2>6. Runs(JRel, todo', a, b)
    BY <1>6, <2>2, <2>5, RunsThen
  <2>7. JEnds(b)'
    BY <1>1, <2>2 DEF JEnds
  <2>8. JWithin'
    BY <1>1, <1>3, <2>1, <2>2, <2>6, <2>7 DEF JWithin
  <2> QED
    BY <1>3, <2>8 DEF JInv
<1> QED
  BY <1>1, <1>5, <1>6

LEMMA JCallNext == ASSUME JInv, J!CallNext PROVE JInv'
<1>1. JBetween /\ call = NoCall /\ calls # <<>>
  BY DEF JInv, JWithin, J!CallNext, J!NoCall, J!Call, NoCall, Call
<1> DEFINE c == Head(calls)
           u == Tail(calls)
<1>2. /\ call' = c /\ calls' = u /\ todo' = J!Body(c)
      /\ UNCHANGED <<pins, tap, ir, sr, rst, prog>>
  BY DEF J!CallNext
<1>3. JShape' /\ \A a : JAdmits(a) => JAdmits(a)'
  BY <1>2, JAdmitsStill DEF JInv
<1>4. c \in CallRecord /\ Ahead("jtag", c, u)
      /\ \/ c.fn = "setup_jtag_programming"
         \/ /\ \E a \in Rests : JAdmits(a)
            /\ (u = <<>> /\ c.fn = "reset_jtag_programming") \/ c.fn \in Library["jtag"]
  <2>1. CASE calls \in Sessions["jtag"]
    <3>1. Orderly("jtag", calls)
      BY <2>1, SessionsOrderly
    <3>2. c \in CallRecord /\ c.fn = Setup["jtag"] /\ Ahead("jtag", c, u)
      BY <3>1, SessionStarts
    <3> QED
      BY <3>2 DEF Setup
  <2>2. CASE (\E b : Ahead("jtag", b, calls)) /\ \E a \in Rests : JAdmits(a)
    <3>1. /\ c \in CallRecord /\ Ahead("jtag", c, u)
          /\ (u = <<>> /\ c.fn = Reset["jtag"]) \/ c.fn \in Library["jtag"]
      BY <1>1, <2>2, SessionGoesOn
    <3> QED
      BY <2>2, <3>1 DEF Reset
  <2> QED
    BY <1>1, <2>1, <2>2 DEF JBetween
<1> HIDE DEF c, u
<1>5. Reset["jtag"] = "reset_jtag_programming" /\ Library["jtag"] = Common \cup Initiate
  BY DEF Reset, Library
<1>6. \E a \in JStates : \E b \in JStates : Runs(JRel, J!Body(c), a, b) /\ JAdmits(a) /\ JEnds(b)'
  <2>1. CASE c.fn = "setup_jtag_programming"
    <3>1. J!Body(c) = J!setup_jtag_programming
      BY <2>1 DEF J!Body
    <3>2. PICK b \in Rests : Runs(JRel, J!Body(c), JAt("W0", 0, 0, 0, 0), b)
      BY <3>1, JSetup
    <3>3. b \in JStates
      BY RestTyped DEF Rests
    <3> DEFINE a == JAt("W0", 0, 0, 0, 0)
    <3>4. a \in JStates
      <4>1. 0 \in 0..15 /\ 0 \in 0..16 /\ 0 \in 0..3
        OBVIOUS
      <4> QED
        BY <4>1, Places, JFields, ZenonT(60)
    <3>5. a.at = "W0" /\ a.done = 0
      BY DEF JAt
    <3>6. Runs(JRel, J!Body(c), a, b)
      BY <3>2
    <3> HIDE DEF a
    <3>7. ~Watched(a) /\ a.at \notin OfIr /\ a.at \in Unknown /\ a.at \notin {"ShIR", "ShDR"}
      BY <3>5 DEF Watched, OfIr, OfDr, Unknown
    <3>8. tap \in Where(a.at)
      BY <3>5 DEF JInv, JShape, Where
    <3>9. JAdmits(a)
      BY <3>5, <3>7, <3>8 DEF JAdmits
    <3>10. JEnds(b)'
      BY <1>2, <1>5, <2>1 DEF JEnds
    <3> QED
      BY <3>3, <3>4, <3>6, <3>9, <3>10
  <2>2. CASE u = <<>> /\ c.fn = "reset_jtag_programming" /\ \E a \in Rests : JAdmits(a)
    <3>1. J!Body(c) = J!reset_jtag_programming
      BY <2>2 DEF J!Body
    <3>2. PICK i \in 0..15 : JAdmits(Rest(i))
      BY <2>2 DEF Rests
    <3> DEFINE b == JAt("RTI", 1, 0, 0, 3)
    <3>3. Runs(JRel, J!Body(c), Rest(i), b)
      BY <3>1, JReset
    <3>4. b \in JStates
      <4>1. \A k \in 0..15, m \in 0..16, z \in 0..3 : JAt("RTI", k, 0, m, z) \in JStates
        <5>1. 0 \in 0..15
          OBVIOUS
        <5> QED
          BY <5>1, Places, JFields, ZenonT(60)
      <4>2. 1 \in 0..15 /\ 0 \in 0..16 /\ 3 \in 0..3
        OBVIOUS
      <4> QED
        BY <4>1, <4>2
    <3>5. JEnds(b)'
      BY <1>2, <1>5, <2>2 DEF JEnds
    <3>6. Rest(i) \in JStates
      BY RestTyped
    <3> QED
      BY <3>2, <3>3, <3>4, <3>5, <3>6
  <2>3. CASE c.fn \in Library["jtag"] /\ \E a \in Rests : JAdmits(a)
    <3>1. c.a \in Nat /\ c.v \in Nat
      BY <1>4 DEF CallRecord
    <3>2. Tame(J!Body(c))
      BY <2>3, <3>1, JBody
    <3>3. PICK a \in Rests : JAdmits(a)
      BY <2>3
    <3>4. PICK b \in Rests : Runs(JRel, J!Body(c), a, b)
      BY <3>2, SMTT(60) DEF Tame, Leads
    <3>5. a \in JStates /\ b \in JStates
      BY RestTyped DEF Rests
    <3>6. c.fn # Reset["jtag"]
      BY <1>5, <2>3 DEF Common, Initiate
    <3>7. JEnds(b)'
      BY <1>2, <1>5, <3>6 DEF JEnds
    <3> QED
      BY <3>3, <3>4, <3>5, <3>7
  <2> QED
    BY <1>4, <2>1, <2>2, <2>3
<1>7. c # NoCall
  <2>1. c.fn # "none"
    BY <1>4, <1>5 DEF Common, Initiate
  <2> QED
    BY <2>1, IsACall
<1>8. JWithin'
  BY <1>2, <1>3, <1>4, <1>6, <1>7 DEF JWithin
<1> QED
  BY <1>3, <1>8 DEF JInv

LEMMA JReturn == ASSUME JInv, J!Return PROVE JInv'
<1>1. /\ call # NoCall /\ todo = <<>> /\ call' = NoCall
      /\ UNCHANGED <<calls, todo, pins, tap, ir, sr, rst, prog>>
  BY DEF J!Return, J!NoCall, J!Call, NoCall, Call
<1>2. JShape' /\ \A a : JAdmits(a) => JAdmits(a)'
  BY <1>1, JAdmitsStill DEF JInv
<1>3. JWithin
  BY <1>1 DEF JInv, JBetween
<1>4. PICK a \in JStates, b \in JStates : Runs(JRel, todo, a, b) /\ JAdmits(a) /\ JEnds(b)
  BY <1>3 DEF JWithin
<1>5. a = b
  BY <1>1, <1>4, RunsEmpty
<1>6. JBetween'
  <2>1. CASE call.fn = Reset["jtag"]
    <3>1. calls = <<>>
      BY <1>4, <2>1 DEF JEnds
    <3> QED
      BY <1>1, <3>1 DEF JBetween
  <2>2. CASE call.fn # Reset["jtag"]
    <3>1. b \in Rests
      BY <1>4, <2>2 DEF JEnds
    <3>2. \E x \in Rests : JAdmits(x)'
      BY <1>2, <1>4, <1>5, <3>1
    <3>3. Ahead("jtag", call, calls')
      BY <1>1, <1>3 DEF JWithin
    <3> QED
      BY <1>1, <3>2, <3>3 DEF JBetween
  <2> QED
    BY <2>1, <2>2
<1> QED
  BY <1>2, <1>6 DEF JInv

LEMMA JStays ==
    ASSUME JInv, UNCHANGED <<calls, call, todo, pins, tap, ir, sr, rst, prog>>
    PROVE  JInv'
<1>1. JShape' /\ \A a : JAdmits(a) => JAdmits(a)'
  BY JAdmitsStill DEF JInv
<1>2. JBetween => JBetween'
  BY <1>1 DEF JBetween
<1>3. JWithin => JWithin'
  <2>1. \A b : JEnds(b) => JEnds(b)'
    BY DEF JEnds
  <2> QED
    BY <1>1, <2>1 DEF JWithin
<1> QED
  BY <1>1, <1>2, <1>3 DEF JInv

\* The programmer has lost power: the TAP may be anywhere.
LEMMA JRestart == ASSUME JInv, J!Restart PROVE JInv'
<1>1. /\ calls' \in Recovery /\ call' = NoCall /\ todo' = <<>>
      /\ pins' = [resetb |-> 0, tms |-> 0, tdi |-> 0] /\ tap' = tap
  BY DEF J!Restart, J!NoCall, J!Call, NoCall, Call
<1>2. JShape'
  BY <1>1 DEF JInv, JShape
<1>3. calls' \in Sessions["jtag"]
  BY <1>1, SessionsOrderly
<1> QED
  BY <1>1, <1>2, <1>3 DEF JInv, JBetween

LEMMA JNext == ASSUME JInv, J!Next PROVE JInv'
<1>1. CASE J!Done
  BY <1>1, JStays DEF J!Done, J!vars
<1>2. CASE J!Ready
  BY <1>2, JStays DEF J!Ready
<1> QED
  BY <1>1, <1>2, JCallNext, JReturn, JClock, JResetPin, JCompute, JRestart DEF J!Next, J!Program

LEMMA JInit == ASSUME J!Init PROVE JInv
<1>1. /\ calls \in Sessions["jtag"] /\ call = NoCall /\ todo = <<>>
      /\ pins = [resetb |-> 0, tms |-> 0, tdi |-> 0] /\ tap \in J!TapStates
  BY DEF J!Init, J!NoCall, J!Call, NoCall, Call
<1>2. JShape
  BY <1>1 DEF JShape
<1> QED
  BY <1>1, <1>2 DEF JInv, JBetween

LEMMA JSafe == ASSUME JInv PROVE J!ScansStartWhereAssumed /\ J!TargetRuns
<1>1. ASSUME todo # <<>>, J!step = "zero" PROVE tap \in {"RTI", "UpdIR", "UpdDR"}
  <2>1. JWithin
    BY <1>1 DEF JInv, JBetween
  <2>2. PICK a \in JStates, b \in JStates : Runs(JRel, todo, a, b) /\ JAdmits(a)
    BY <2>1 DEF JWithin
  <2>3. PICK c \in JStates : JStep(a, Head(todo)[1], Head(todo)[2], c)
    BY <1>1, <2>2, JFirst
  <2>4. a.at \in Ends
    BY <1>1, <2>3 DEF JStep, J!step
  <2>5. a.at \notin Unknown
    BY <2>4 DEF Ends, Unknown
  <2>6. tap = a.at
    BY <2>2, <2>5, KnownTap
  <2> QED
    BY <2>4, <2>6 DEF Ends
<1>2. ASSUME call.fn = "reset_jtag_programming", todo = <<>>
      PROVE  ~prog /\ rst = 0 /\ pins.resetb = 1 /\ tap = "RTI"
  <2>1. ~JBetween
    BY <1>2 DEF JBetween, NoCall, Call
  <2>2. JWithin
    BY <2>1 DEF JInv
  <2>3. PICK a \in JStates, b \in JStates : Runs(JRel, todo, a, b) /\ JAdmits(a) /\ JEnds(b)
    BY <2>2 DEF JWithin
  <2>4. a = b
    BY <1>2, <2>3, RunsEmpty
  <2>5. b = JAt("RTI", 1, 0, 0, 3)
    BY <1>2, <2>3 DEF JEnds, Reset
  <2>6. a.at = "RTI" /\ a.done = 3
    BY <2>4, <2>5 DEF JAt
  <2>7. a.at \notin Unknown
    BY <2>6 DEF Unknown
  <2>8. tap = "RTI"
    BY <2>3, <2>6, <2>7, KnownTap
  <2> QED
    BY <2>3, <2>6, <2>8 DEF JAdmits
<1> QED
  BY <1>1, <1>2 DEF J!ScansStartWhereAssumed, J!TargetRuns

-----------------------------------------------------------------------------
(* Of the three drivers, the one that the application is linked with.       *)

DriversInv ==
    /\ driver \in {"jtag", "parallel", "serial"}
    /\ driver = "jtag" => JInv
    /\ driver = "parallel" => PInv
    /\ driver = "serial" => SInv

LEMMA DriversStep == ASSUME DriversInv, [Next]_vars PROVE DriversInv'
<1>1. CASE UNCHANGED vars
  BY <1>1, JStays, PStays, SStays DEF DriversInv, vars
<1>2. CASE Jtag(J!Next)
  BY <1>2, JNext DEF DriversInv, Jtag
<1>3. CASE Parallel(P!Next)
  BY <1>3, PNext DEF DriversInv, Parallel
<1>4. CASE Serial(S!Next)
  BY <1>4, SNext DEF DriversInv, Serial
<1> QED
  BY <1>1, <1>2, <1>3, <1>4 DEF Next

LEMMA DriversStart == Init => DriversInv
  BY JInit, PInit, SInit DEF Init, DriversInv

\* The two ends agree on where they are, whichever programmer the application is linked with
\* and for all sessions of calls in the order the API asks for.  JTAG: every scan of
\* _load_instruction() and _load_data() starts in a state their comment assumes, from any state
\* the TAP was left in and after a restart in the middle of any scan, and
\* reset_jtag_programming() ends with the target out of programming mode and out of both
\* resets.  Parallel: a byte is taken from a port that exactly one side drives.  Serial:
\* setup_serial_programming() returns with the target enabled and at the first bit.
THEOREM BothEndsInStep == FairSpec => []InStep
<1>1. DriversInv => InStep
  BY JSafe, PSafe, SSafe DEF DriversInv, InStep
<1> QED
  BY <1>1, DriversStart, DriversStep, PTL DEF FairSpec

\* Linked with the parallel or the serial programmer, no operation reaches the target while it
\* erases or writes: each has been told, through poll_busy(), that the one before it is over.
THEOREM ReadyWhenTold == FairSpec => [](driver \in {"parallel", "serial"} => NeverWhileBusy)
<1>1. DriversInv => (driver \in {"parallel", "serial"} => NeverWhileBusy)
  BY PSafe, SSafe DEF DriversInv, NeverWhileBusy, P!NeverWhileBusy
<1> QED
  BY <1>1, DriversStart, DriversStep, PTL DEF FairSpec
=============================================================================
