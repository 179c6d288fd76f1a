------------------------ MODULE SerialBridge_proofs ------------------------
(***************************************************************************)
(* Proofs about SerialBridge, for every size of the buffers, every text    *)
(* and every request.                                                      *)
(***************************************************************************)
EXTENDS SerialBridge, SequenceTheorems, FiniteSetTheorems, WellFoundedInduction, TLAPS

Char == 0..255

(* Sequences. *)

LEMMA Assoc == \A a, b, c \in Seq(Nat) : (a \o b) \o c = a \o (b \o c)
BY ConcatAssociative, SMTT(60)

LEMMA AssocChar == \A a, b, c \in Seq(Char) : (a \o b) \o c = a \o (b \o c)
BY ConcatAssociative, SMTT(60)

LEMMA FirstAndRest ==
    ASSUME NEW S, NEW s \in Seq(S), s # <<>>
    PROVE  Head(s) \in S /\ Tail(s) \in Seq(S) /\ s = <<Head(s)>> \o Tail(s)
<1>1. Head(s) \in S /\ Tail(s) \in Seq(S) /\ Len(Tail(s)) = Len(s) - 1
  BY HeadTailProperties, Zenon
<1>2. \A i \in 1..Len(Tail(s)) : Tail(s)[i] = s[i + 1]
  BY HeadTailProperties, Zenon
<1>3. Len(s) \in Nat /\ Len(s) >= 1 /\ Head(s) = s[1]
  BY EmptySeq
<1> DEFINE h == <<Head(s)>>
<1>4. h \in Seq(S) /\ Len(h) = 1 /\ h[1] = Head(s)
  BY <1>1
<1> HIDE DEF h
<1>5. /\ h \o Tail(s) \in Seq(S)
      /\ Len(h \o Tail(s)) = Len(s)
      /\ \A i \in 1..Len(s) : (h \o Tail(s))[i] = IF i <= 1 THEN h[i] ELSE Tail(s)[i - 1]
  <2>1. /\ h \o Tail(s) \in Seq(S)
        /\ Len(h \o Tail(s)) = Len(h) + Len(Tail(s))
        /\ \A i \in 1..Len(h) + Len(Tail(s)) :
               (h \o Tail(s))[i] = IF i <= Len(h) THEN h[i] ELSE Tail(s)[i - Len(h)]
    BY <1>1, <1>4, ConcatProperties, Zenon
  <2>2. Len(h) + Len(Tail(s)) = Len(s)
    BY <1>1, <1>3, <1>4
  <2>3. QED
    BY <2>1, <2>2, <1>4
<1>6. \A i \in 1..Len(s) : (h \o Tail(s))[i] = s[i]
  <2>1. TAKE i \in 1..Len(s)
  <2>2. CASE i <= 1
    BY <2>2, <1>3, <1>4, <1>5
  <2>3. CASE i > 1
    <3>1. i - 1 \in 1..Len(Tail(s)) /\ (i - 1) + 1 = i
      BY <2>3, <1>1, <1>3
    <3>2. Tail(s)[i - 1] = s[i]
      BY <3>1, <1>2
    <3>3. QED
      BY <2>3, <3>2, <1>5
  <2>4. i <= 1 \/ i > 1
    BY <1>3
  <2>5. QED
    BY <2>2, <2>3, <2>4, Zenon
<1>7. h \o Tail(s) = s
  BY <1>5, <1>6, SeqEqual, Zenon
<1>8. QED
  BY <1>1, <1>7 DEF h

LEMMA RestOfCons ==
    ASSUME NEW S, NEW c \in S, NEW s \in Seq(S)
    PROVE  /\ <<c>> \o s \in Seq(S) /\ <<c>> \o s # <<>>
           /\ Head(<<c>> \o s) = c /\ Tail(<<c>> \o s) = s
<1> DEFINE h == <<c>>
           r == h \o s
<1>1. h \in Seq(S) /\ Len(h) = 1 /\ h[1] = c
  OBVIOUS
<1> HIDE DEF h
<1>2. /\ r \in Seq(S) /\ Len(r) = 1 + Len(s)
      /\ \A i \in 1..1 + Len(s) : r[i] = IF i <= 1 THEN h[i] ELSE s[i - 1]
  <2>1. /\ r \in Seq(S) /\ Len(r) = Len(h) + Len(s)
        /\ \A i \in 1..Len(h) + Len(s) : r[i] = IF i <= Len(h) THEN h[i] ELSE s[i - Len(h)]
    BY <1>1, ConcatProperties, Zenon
  <2>2. QED
    BY <1>1, <2>1
<1> HIDE DEF r
<1>3. r # <<>> /\ Head(r) = c
  <2>1. Len(s) \in Nat
    OBVIOUS
  <2>2. QED
    BY <2>1, <1>1, <1>2
<1>4. Tail(r) \in Seq(S) /\ Len(Tail(r)) = Len(s)
      /\ \A i \in 1..Len(Tail(r)) : Tail(r)[i] = r[i + 1]
  <2>1. /\ Tail(r) \in Seq(S) /\ Len(Tail(r)) = Len(r) - 1
        /\ \A i \in 1..Len(Tail(r)) : Tail(r)[i] = r[i + 1]
    BY <1>2, <1>3, HeadTailProperties, Zenon
  <2>2. QED
    BY <2>1, <1>2
<1>5. \A i \in 1..Len(s) : Tail(r)[i] = s[i]
  BY <1>2, <1>4
<1>6. Tail(r) = s
  BY <1>4, <1>5, SeqEqual, Zenon
<1>7. QED
  BY <1>2, <1>3, <1>6 DEF r, h

(* The least of a set of numbers; minimal sets 1..i stand for minimal numbers. *)
LEMMA Least ==
    ASSUME NEW T, T \subseteq Nat, T # {}
    PROVE  \E i \in T : \A j \in T : i <= j
<1> DEFINE U == {1..i : i \in T}
<1>1. U \subseteq FiniteSubsetsOf(Nat) /\ U # {}
  <2>1. ASSUME NEW i \in T PROVE 1..i \in FiniteSubsetsOf(Nat)
    <3>1. i \in Nat /\ 1 \in Int /\ i \in Int
      OBVIOUS
    <3>2. IsFiniteSet(1..i)
      BY <3>1, FS_Interval, Zenon
    <3>3. 1..i \in SUBSET Nat
      BY <3>1
    <3>4. QED
      BY <3>2, <3>3, Zenon DEF FiniteSubsetsOf
  <2>2. QED
    BY <2>1
<1>2. PICK x \in U : \A y \in U : <<y, x>> \notin StrictSubsetOrdering(Nat)
  <2> HIDE DEF U
  <2>1. IsWellFoundedOn(StrictSubsetOrdering(Nat), FiniteSubsetsOf(Nat))
    BY FS_StrictSubsetOrderingWellFounded, Zenon
  <2>2. QED
    BY <1>1, <2>1, WFMin, Zenon
<1>3. PICK i \in T : x = 1..i
  OBVIOUS
<1>4. ASSUME NEW j \in T, j < i PROVE FALSE
  <2>1. 1..j \in SUBSET Nat /\ 1..i \in SUBSET Nat /\ 1..j \subseteq 1..i /\ 1..j # 1..i
    <3>1. i \in 1..i /\ i \notin 1..j
      BY <1>4
    <3>2. QED
      BY <3>1, <1>4
  <2>2. <<1..j, 1..i>> \in StrictSubsetOrdering(Nat)
    BY <2>1 DEF StrictSubsetOrdering
  <2>3. QED
    BY <1>2, <1>3, <2>2
<1>5. QED
  BY <1>4

-----------------------------------------------------------------------------
(* usart_tx() ends at the first zero. *)

ZerosOf(s) == {i \in DOMAIN s : s[i] = 0}
FirstOf(Z) == CHOOSE i \in Z : \A j \in Z : i <= j

LEMMA FirstIsLeast ==
    ASSUME NEW Z, Z \subseteq Nat, Z # {}
    PROVE  FirstOf(Z) \in Z /\ \A j \in Z : FirstOf(Z) <= j
BY Least, Zenon DEF FirstOf

LEMMA CutIs ==
    ASSUME NEW s
    PROVE  CutAtZero(s) = IF ZerosOf(s) = {} THEN s ELSE SubSeq(s, 1, FirstOf(ZerosOf(s)) - 1)
BY Zenon DEF CutAtZero, ZerosOf, FirstOf

LEMMA Cut ==
    ASSUME NEW s \in Seq(Char), ZerosOf(s) # {}
    PROVE  /\ FirstOf(ZerosOf(s)) \in 1..Len(s)
           /\ CutAtZero(s) \in Seq(Char)
           /\ Len(CutAtZero(s)) = FirstOf(ZerosOf(s)) - 1
           /\ \A i \in 1..(FirstOf(ZerosOf(s)) - 1) : CutAtZero(s)[i] = s[i]
<1> DEFINE f == FirstOf(ZerosOf(s))
<1>1. ZerosOf(s) \subseteq 1..Len(s) /\ Len(s) \in Nat
  BY DEF ZerosOf
<1>2. ZerosOf(s) \subseteq Nat
  BY <1>1
<1>3. f \in 1..Len(s)
  BY <1>1, <1>2, FirstIsLeast, Zenon
<1> HIDE DEF f
<1>4. CutAtZero(s) = SubSeq(s, 1, f - 1)
  BY CutIs, Zenon DEF f
<1>5. f - 1 \in Int /\ 1 \in Int /\ \A i \in 1..(f - 1) : s[i] \in Char
  BY <1>3, <1>1
<1> DEFINE g == f - 1
<1>6. /\ SubSeq(s, 1, g) \in Seq(Char)
      /\ Len(SubSeq(s, 1, g)) = IF 1 <= g THEN g - 1 + 1 ELSE 0
      /\ \A i \in 1..g - 1 + 1 : SubSeq(s, 1, g)[i] = s[1 + i - 1]
  <2> HIDE DEF g
  <2>1. g \in Int /\ 1 \in Int /\ \A i \in 1..g : s[i] \in Char
    BY <1>5 DEF g
  <2>2. QED
    BY <2>1, SubSeqProperties
<1>7. /\ SubSeq(s, 1, g) \in Seq(Char) /\ Len(SubSeq(s, 1, g)) = g
      /\ \A i \in 1..g : SubSeq(s, 1, g)[i] = s[i]
  BY <1>3, <1>6
<1>8. QED
  BY <1>3, <1>4, <1>7 DEF f

LEMMA CutType ==
    ASSUME NEW s \in Seq(Char)
    PROVE  CutAtZero(s) \in Seq(Char)
BY CutIs, Cut, Zenon

LEMMA TerminatedIs ==
    ASSUME NEW t \in Seq(Char)
    PROVE  /\ Terminated(t) \in Seq(Char)
           /\ Len(Terminated(t)) = Len(t) + 2
           /\ \A i \in 1..Len(t) : Terminated(t)[i] = t[i]
           /\ Terminated(t)[Len(t) + 1] = 0
<1> DEFINE n == Len(t)
<1>1. CRC \in Seq(Char) /\ Len(CRC) = 2
  BY DEF CRC, Char
<1>2. /\ t \o CRC \in Seq(Char) /\ Len(t \o CRC) = n + Len(CRC)
      /\ \A i \in 1..n + Len(CRC) : (t \o CRC)[i] = IF i <= n THEN t[i] ELSE CRC[i - n]
  BY <1>1, ConcatProperties, Zenon
<1>3. n \in Nat
  OBVIOUS
<1> DEFINE r == t \o CRC
           k == n + 1
<1>4. r \in Seq(Char) /\ Len(r) = n + 2 /\ \A i \in 1..n : r[i] = t[i]
  BY <1>1, <1>2, <1>3
<1>5. k \in 1..Len(r) /\ 0 \in Char
  BY <1>3, <1>4 DEF Char
<1>6. Terminated(t) = [r EXCEPT ![k] = 0]
  BY DEF Terminated
<1> HIDE DEF r, k
<1>7. /\ [r EXCEPT ![k] = 0] \in Seq(Char) /\ Len([r EXCEPT ![k] = 0]) = Len(r)
      /\ \A j \in 1..Len(r) : [r EXCEPT ![k] = 0][j] = IF j = k THEN 0 ELSE r[j]
  BY <1>4, <1>5, ExceptSeq
<1>8. QED
  BY <1>3, <1>4, <1>5, <1>6, <1>7 DEF k

\* data[len] = 0 ends the message at the latest where its CRC begins.
LEMMA CutTerminated ==
    ASSUME NEW t \in Seq(Char)
    PROVE  CutAtZero(Terminated(t)) = CutAtZero(t)
<1> DEFINE T == Terminated(t)
           n == Len(t)
<1>1. /\ T \in Seq(Char) /\ Len(T) = n + 2 /\ \A i \in 1..n : T[i] = t[i]
      /\ T[n + 1] = 0 /\ n \in Nat /\ t \in Seq(Char)
  BY TerminatedIs
<1> HIDE DEF T
<1>2. DOMAIN T = 1..n + 2 /\ DOMAIN t = 1..n
  BY <1>1
<1>3. n + 1 \in ZerosOf(T) /\ \A i \in ZerosOf(T) : i <= n => i \in ZerosOf(t)
  BY <1>1, <1>2 DEF ZerosOf
<1>4. \A i \in ZerosOf(t) : i \in 1..n /\ i \in ZerosOf(T)
  BY <1>1, <1>2 DEF ZerosOf
<1>5. ZerosOf(T) \subseteq Nat /\ ZerosOf(t) \subseteq Nat
  BY <1>2 DEF ZerosOf
<1> DEFINE f == FirstOf(ZerosOf(T))
           g == FirstOf(ZerosOf(t))
<1>6. f \in ZerosOf(T) /\ \A j \in ZerosOf(T) : f <= j
  BY <1>3, <1>5, FirstIsLeast, Zenon
<1>7. ZerosOf(t) # {} => g \in ZerosOf(t) /\ \A j \in ZerosOf(t) : g <= j
  BY <1>5, FirstIsLeast, Zenon
<1>8. /\ CutAtZero(T) \in Seq(Char) /\ Len(CutAtZero(T)) = f - 1
      /\ \A i \in 1..(f - 1) : CutAtZero(T)[i] = T[i]
  BY <1>1, <1>3, Cut
<1>9. ZerosOf(t) # {} =>
          /\ CutAtZero(t) \in Seq(Char) /\ Len(CutAtZero(t)) = g - 1
          /\ \A i \in 1..(g - 1) : CutAtZero(t)[i] = t[i]
  BY Cut
<1> HIDE DEF f, g
<1>10. CASE ZerosOf(t) = {}
  <2>1. CutAtZero(t) = t
    BY <1>10, CutIs, Zenon
  <2>2. f = n + 1
    BY <1>3, <1>5, <1>6, <1>10
  <2>3. Len(CutAtZero(T)) = n /\ \A i \in 1..n : CutAtZero(T)[i] = t[i]
    BY <1>1, <1>8, <2>2
  <2>4. QED
    BY <1>1, <1>8, <2>1, <2>3, SeqEqual, Zenon DEF T
<1>11. CASE ZerosOf(t) # {}
  <2>1. f = g /\ g \in 1..n
    BY <1>1, <1>3, <1>4, <1>5, <1>6, <1>7, <1>11
  <2>2. Len(CutAtZero(T)) = Len(CutAtZero(t))
    BY <1>8, <1>9, <1>11, <2>1
  <2>3. \A i \in 1..Len(CutAtZero(T)) : CutAtZero(T)[i] = CutAtZero(t)[i]
    BY <1>1, <1>8, <1>9, <1>11, <2>1
  <2>4. QED
    BY <1>8, <1>9, <1>11, <2>2, <2>3, SeqEqual, Zenon DEF T
<1>12. QED
  BY <1>10, <1>11

-----------------------------------------------------------------------------
(* Who may use which pin. *)

PinInv ==
    /\ ddr \in [Ports -> SUBSET (0..7)] /\ port \in [Ports -> SUBSET (0..7)]
    /\ usart \in BOOLEAN /\ led \in BOOLEAN
    /\ rxMsg.kind = "setup" => rxMsg.rq \in Requests
    /\ PinsOwned

LEMMA Masks ==
    /\ MASK_PORT \in [Ports -> SUBSET (0..7)]
    /\ {2, 4, 7} \subseteq MASK_PORT["B"] /\ {2, 3} \subseteq MASK_PORT["D"]
    /\ 0 \notin MASK_PORT["D"] /\ 1 \notin MASK_PORT["D"]
BY DEF MASK_PORT, Ports

PinFacts ==
    /\ 2 \notin ddr["D"] /\ 3 \notin ddr["D"] /\ 2 \notin port["D"] /\ 3 \notin port["D"]
    /\ 2 \notin ddr["B"] /\ 4 \notin ddr["B"] /\ 7 \in ddr["B"]
    /\ 2 \in port["B"] /\ 4 \in port["B"] /\ (7 \in port["B"] <=> led)
    /\ usart <=> (0 \notin ddr["D"] /\ 1 \notin ddr["D"])

LEMMA PinsAre ==
    ASSUME ddr \in [Ports -> SUBSET (0..7)], port \in [Ports -> SUBSET (0..7)],
           usart \in BOOLEAN, led \in BOOLEAN
    PROVE  PinsOwned <=> PinFacts
BY DEF PinsOwned, PinFacts, Switches, LED_BIT, Ports

LEMMA DirectionKeepsPins ==
    ASSUME PinInv, NEW p \in Ports, NEW value \in SUBSET (0..7), SetDirection(p, value),
           UNCHANGED <<port, led>>
    PROVE  /\ ddr' \in [Ports -> SUBSET (0..7)] /\ usart' \in BOOLEAN /\ PinFacts'
<1> DEFINE new == Merge(ddr[p], value, MASK_PORT[p])
<1>1. /\ ddr \in [Ports -> SUBSET (0..7)] /\ port \in [Ports -> SUBSET (0..7)]
      /\ usart \in BOOLEAN /\ led \in BOOLEAN /\ PinFacts
  BY PinsAre DEF PinInv
<1>2. MASK_PORT[p] \in SUBSET (0..7) /\ ddr[p] \in SUBSET (0..7)
  BY <1>1, Masks
<1>3. /\ new \in SUBSET (0..7)
      /\ \A b \in 0..7 : b \in new <=> IF b \in MASK_PORT[p] THEN b \in ddr[p] ELSE b \in value
  BY <1>2 DEF Merge
<1>4. ddr' = [ddr EXCEPT ![p] = new]
  BY DEF SetDirection
<1> HIDE DEF new
<1>5. ddr' \in [Ports -> SUBSET (0..7)] /\ ddr'[p] = new /\ \A q \in Ports \ {p} : ddr'[q] = ddr[q]
  BY <1>1, <1>3, <1>4
<1>6. "B" \in Ports /\ "D" \in Ports
  BY DEF Ports
<1>7. CASE p = "D"
  <2>1. ddr'["B"] = ddr["B"] /\ 2 \notin ddr'["D"] /\ 3 \notin ddr'["D"]
    BY <1>1, <1>3, <1>5, <1>6, <1>7, Masks DEF PinFacts
  <2>2. (value \ MASK_PORT[p]) \cap {0, 1} # {} <=> (0 \in ddr'["D"] \/ 1 \in ddr'["D"])
    BY <1>3, <1>5, <1>7, Masks
  <2>3. usart' \in BOOLEAN /\ (usart' <=> (0 \notin ddr'["D"] /\ 1 \notin ddr'["D"]))
    BY <2>2, <1>7 DEF SetDirection, UsartOff, UsartOn
  <2>4. QED
    BY <1>1, <1>5, <2>1, <2>3 DEF PinFacts
<1>8. CASE p = "B"
  <2>1. usart' = usart /\ ddr'["D"] = ddr["D"]
    BY <1>5, <1>6, <1>8 DEF SetDirection, usartVars
  <2>2. 2 \notin ddr'["B"] /\ 4 \notin ddr'["B"] /\ 7 \in ddr'["B"]
    BY <1>1, <1>3, <1>5, <1>8, Masks DEF PinFacts
  <2>3. QED
    BY <1>1, <1>5, <2>1, <2>2 DEF PinFacts
<1>9. CASE p \notin {"B", "D"}
  <2>1. usart' = usart /\ ddr'["D"] = ddr["D"] /\ ddr'["B"] = ddr["B"]
    BY <1>5, <1>6, <1>9 DEF SetDirection, usartVars
  <2>2. QED
    BY <1>1, <1>5, <2>1 DEF PinFacts
<1>10. QED
  BY <1>7, <1>8, <1>9

LEMMA LevelKeepsPins ==
    ASSUME PinInv, NEW p \in Ports, NEW value \in SUBSET (0..7), NEW new,
           new = Merge(port[p], value, MASK_PORT[p]), port' = [port EXCEPT ![p] = new],
           UNCHANGED <<ddr, usart, led>>
    PROVE  port' \in [Ports -> SUBSET (0..7)] /\ PinFacts'
<1>1. /\ ddr \in [Ports -> SUBSET (0..7)] /\ port \in [Ports -> SUBSET (0..7)]
      /\ usart \in BOOLEAN /\ led \in BOOLEAN /\ PinFacts
  BY PinsAre DEF PinInv
<1>2. MASK_PORT[p] \in SUBSET (0..7) /\ port[p] \in SUBSET (0..7)
  BY <1>1, Masks
<1>3. /\ new \in SUBSET (0..7)
      /\ \A b \in 0..7 : b \in new <=> IF b \in MASK_PORT[p] THEN b \in port[p] ELSE b \in value
  <2> DEFINE m == Merge(port[p], value, MASK_PORT[p])
  <2>1. /\ m \in SUBSET (0..7)
        /\ \A b \in 0..7 : b \in m <=> IF b \in MASK_PORT[p] THEN b \in port[p] ELSE b \in value
    BY <1>2 DEF Merge
  <2>2. m = new
    OBVIOUS
  <2> HIDE DEF m
  <2>3. QED
    BY <2>1, <2>2
<1>4. port' \in [Ports -> SUBSET (0..7)] /\ port'[p] = new /\ \A q \in Ports \ {p} : port'[q] = port[q]
  BY <1>1, <1>3
<1>5. "B" \in Ports /\ "D" \in Ports
  BY DEF Ports
<1>6. 2 \notin port'["D"] /\ 3 \notin port'["D"]
  BY <1>1, <1>3, <1>4, <1>5, Masks DEF PinFacts
<1>7. 2 \in port'["B"] /\ 4 \in port'["B"] /\ (7 \in port'["B"] <=> 7 \in port["B"])
  BY <1>1, <1>3, <1>4, <1>5, Masks DEF PinFacts
<1>8. QED
  BY <1>1, <1>4, <1>6, <1>7 DEF PinFacts

LEMMA LedKeepsPins ==
    ASSUME PinInv, NEW on \in BOOLEAN, led' = on,
           port' = [port EXCEPT !["B"] = IF on THEN @ \cup {LED_BIT} ELSE @ \ {LED_BIT}],
           UNCHANGED <<ddr, usart>>
    PROVE  port' \in [Ports -> SUBSET (0..7)] /\ PinFacts'
<1>1. /\ ddr \in [Ports -> SUBSET (0..7)] /\ port \in [Ports -> SUBSET (0..7)]
      /\ usart \in BOOLEAN /\ PinFacts
  BY PinsAre DEF PinInv
<1>2. "B" \in Ports /\ "D" \in Ports /\ LED_BIT = 7
  BY DEF Ports, LED_BIT
<1> DEFINE new == IF on THEN port["B"] \cup {7} ELSE port["B"] \ {7}
<1>3. new \in SUBSET (0..7) /\ (7 \in new <=> on) /\ \A b \in {2, 4} : b \in new <=> b \in port["B"]
  BY <1>1, <1>2
<1>4. port' = [port EXCEPT !["B"] = new]
  BY <1>2
<1> HIDE DEF new
<1>5. port' \in [Ports -> SUBSET (0..7)] /\ port'["B"] = new /\ port'["D"] = port["D"]
  BY <1>1, <1>2, <1>3, <1>4
<1>6. QED
  BY <1>1, <1>3, <1>5 DEF PinFacts

LEMMA RequestKeepsPins ==
    ASSUME PinInv, NEW rq \in Requests, usbFunctionSetup(rq)
    PROVE  /\ ddr' \in [Ports -> SUBSET (0..7)] /\ port' \in [Ports -> SUBSET (0..7)]
           /\ usart' \in BOOLEAN /\ led' \in BOOLEAN /\ PinsOwned'
<1>1. /\ ddr \in [Ports -> SUBSET (0..7)] /\ port \in [Ports -> SUBSET (0..7)]
      /\ usart \in BOOLEAN /\ led \in BOOLEAN /\ PinFacts
  BY PinsAre DEF PinInv
<1>2. SUFFICES /\ ddr' \in [Ports -> SUBSET (0..7)] /\ port' \in [Ports -> SUBSET (0..7)]
               /\ usart' \in BOOLEAN /\ led' \in BOOLEAN /\ PinFacts'
  BY DEF PinsOwned, PinFacts, Switches, LED_BIT, Ports
<1>3. CASE rq.bRequest = "SET_LED_STATUS"
  <2>1. /\ port' = [port EXCEPT !["B"] = IF rq.value THEN @ \cup {LED_BIT} ELSE @ \ {LED_BIT}]
        /\ led' = rq.value /\ UNCHANGED <<ddr, usart>> /\ rq.value \in BOOLEAN
    BY <1>3, RequestAssumption DEF usbFunctionSetup
  <2>2. QED
    BY <1>1, <2>1, LedKeepsPins
<1>4. CASE rq.bRequest = "SET_REGISTER"
  <2>1. SetRegister(rq) /\ led' = led /\ rq.dir \in BOOLEAN /\ rq.value \in SUBSET (0..7)
    BY <1>4, RequestAssumption DEF usbFunctionSetup
  <2>2. CASE rq.reg \in Ports /\ rq.dir
    <3>1. SetDirection(rq.reg, rq.value) /\ UNCHANGED <<port, led>>
      BY <2>1, <2>2 DEF SetRegister, Ports
    <3>2. QED
      BY <1>1, <2>1, <2>2, <3>1, DirectionKeepsPins
  <2>3. CASE rq.reg \in Ports /\ ~rq.dir
    <3>1. /\ port' = [port EXCEPT ![rq.reg] = Merge(port[rq.reg], rq.value, MASK_PORT[rq.reg])]
          /\ UNCHANGED <<ddr, usart, led>>
      BY <2>1, <2>3 DEF SetRegister, Ports
    <3>2. QED
      BY <1>1, <2>1, <2>3, <3>1, LevelKeepsPins
  <2>4. CASE rq.reg \notin Ports
    <3>1. UNCHANGED <<ddr, port, usart, led>>
      BY <2>1, <2>4 DEF SetRegister, Ports
    <3>2. QED
      BY <1>1, <3>1 DEF PinFacts
  <2>5. QED
    BY <2>1, <2>2, <2>3, <2>4
<1>5. CASE rq.bRequest \notin {"SET_LED_STATUS", "SET_REGISTER"}
  <2>1. UNCHANGED <<ddr, port, usart, led>>
    BY <1>5 DEF usbFunctionSetup
  <2>2. QED
    BY <1>1, <2>1 DEF PinFacts
<1>6. QED
  BY <1>3, <1>4, <1>5

LEMMA PinStep == PinInv /\ [Next]_bridgeVars => PinInv'
<1> SUFFICES ASSUME PinInv, [Next]_bridgeVars PROVE PinInv'
  OBVIOUS
<1>1. ASSUME UNCHANGED <<ddr, port, usart, led>>,
             rxMsg' = rxMsg \/ rxMsg'.kind # "setup" \/ rxMsg'.rq \in Requests
      PROVE  PinInv'
  BY <1>1 DEF PinInv, PinsOwned
<1>2. CASE Request
  <2>1. rxMsg.rq \in Requests /\ usbFunctionSetup(rxMsg.rq) /\ rxMsg' = None
    BY <1>2 DEF Request, PinInv
  <2>2. QED
    BY <2>1, RequestKeepsPins DEF PinInv, None
<1>3. CASE MainLoop /\ ~Request
  <2>1. UNCHANGED pinVars /\ usart' = usart /\ (rxMsg' = rxMsg \/ rxMsg' = None)
    BY <1>3 DEF MainLoop, NothingToPoll, WriteSerial, WriteMemory, ByteTx, EepromWritten, Button,
                SerialRx, SetInterrupt3, pinVars, usartVars, usbVars
  <2>2. QED
    BY <1>1, <2>1 DEF pinVars, None
<1>4. CASE HostWrites
  <2>1. UNCHANGED pinVars /\ usart' = usart
    BY <1>4 DEF HostWrites, pinVars, usartVars
  <2>2. rxMsg'.kind # "setup" \/ rxMsg'.rq \in Requests
    BY <1>4 DEF HostWrites, Text, Memory, Setup
  <2>3. QED
    BY <1>1, <2>1, <2>2 DEF pinVars
<1>5. CASE HostPolls \/ ByteTime \/ UNCHANGED bridgeVars
  BY <1>1, <1>5 DEF HostPolls, ByteTime, bridgeVars, pinVars, usartVars, usbVars
<1>6. QED
  BY <1>2, <1>3, <1>4, <1>5 DEF Next

\* No request ever makes a USB line an output, takes the switches' pull-ups or the
\* LED away, or drives RXD or TXD while the serial line is on (main.c:256-292).
THEOREM PinsAreOwned == Spec => []PinsOwned
<1>1. ASSUME Init PROVE PinInv
  <2>1. /\ ddr = [p \in Ports |-> IF p = "B" THEN {7} ELSE {}]
        /\ port = [p \in Ports |-> IF p = "B" THEN {2, 4, 7} ELSE {}]
        /\ usart = TRUE /\ led = TRUE /\ rxMsg.kind # "setup"
    BY <1>1 DEF Init, Switches, LED_BIT, None
  <2>2. ddr \in [Ports -> SUBSET (0..7)] /\ port \in [Ports -> SUBSET (0..7)]
    BY <2>1
  <2>3. ddr["B"] = {7} /\ ddr["D"] = {} /\ port["B"] = {2, 4, 7} /\ port["D"] = {}
    BY <2>1 DEF Ports
  <2>4. PinFacts
    BY <2>1, <2>3 DEF PinFacts
  <2>5. QED
    BY <2>1, <2>2, <2>4, PinsAre DEF PinInv
<1>2. PinInv => PinsOwned
  BY DEF PinInv
<1>3. QED
  BY <1>1, <1>2, PinStep, PTL DEF Spec

-----------------------------------------------------------------------------
(* What is on its way to the line. *)

LEMMA Handed ==
    ASSUME NEW s \in Seq(Char), NEW t \in Seq(Char), t # <<>>
    PROVE  /\ (<<>> \o <<>>) \o t = (<<Head(t)>> \o <<>>) \o Tail(t)
           /\ (s \o <<>>) \o t = (s \o <<Head(t)>>) \o Tail(t)
<1> DEFINE h == <<Head(t)>>
<1>1. Head(t) \in Char /\ Tail(t) \in Seq(Char) /\ t = h \o Tail(t)
  BY FirstAndRest, Zenon
<1>2. h \in Seq(Char) /\ <<>> \in Seq(Char)
  BY <1>1
<1> HIDE DEF h
<1>3. (<<>> \o <<>>) \o t = t /\ h \o <<>> = h /\ s \o <<>> = s
  BY <1>2, ConcatEmptySeq, Zenon
<1>4. (s \o h) \o Tail(t) = s \o (h \o Tail(t))
  <2> DEFINE r == Tail(t)
  <2>1. r \in Seq(Char)
    BY <1>1
  <2> HIDE DEF r
  <2>2. (s \o h) \o r = s \o (h \o r)
    BY <1>2, <2>1, AssocChar, ZenonT(60)
  <2>3. QED
    BY <2>2 DEF r
<1>5. QED
  BY <1>1, <1>3, <1>4, Zenon DEF h

LEMMA Left ==
    ASSUME NEW s \in Seq(Char), s # <<>>, Len(s) <= 1, NEW u \in Seq(Char), NEW t \in Seq(Char)
    PROVE  /\ (s \o u) \o t # <<>> /\ Head((s \o u) \o t) = Head(s)
           /\ Tail((s \o u) \o t) = (u \o <<>>) \o t
<1> DEFINE c == Head(s)
<1>1. c \in Char /\ s = <<c>>
  <2>0. Len(s) \in Nat \ {0} /\ Len(s) <= 1
    BY EmptySeq, Zenon
  <2>a. Len(s) = 1
    <3> DEFINE n == Len(s)
    <3>1. n \in Nat \ {0} /\ n <= 1
      BY <2>0
    <3> HIDE DEF n
    <3>2. n = 1
      BY <3>1
    <3>3. QED
      BY <3>2 DEF n
  <2>b. s[1] \in Char
    BY <2>a, ElementOfSeq
  <2>c. Head(s) = s[1]
    BY <2>a
  <2>1. Len(s) = 1 /\ s[1] \in Char /\ Head(s) = s[1]
    BY <2>a, <2>b, <2>c
  <2>2. <<s[1]>> \in Seq(Char) /\ Len(<<s[1]>>) = 1 /\ <<s[1]>>[1] = s[1]
    BY <2>1
  <2>3. \A i \in 1..Len(s) : s[i] = <<s[1]>>[i]
    BY <2>1, <2>2
  <2>4. s = <<s[1]>>
    BY <2>1, <2>2, <2>3, SeqEqual, Zenon
  <2>5. QED
    BY <2>1, <2>4
<1>2. u \o t \in Seq(Char) /\ u \o <<>> = u
  BY ConcatProperties, ConcatEmptySeq, Zenon
<1>3. (s \o u) \o t = s \o (u \o t)
  BY AssocChar, ZenonT(60)
<1> HIDE DEF c
<1>4. /\ <<c>> \o (u \o t) # <<>> /\ Head(<<c>> \o (u \o t)) = c
      /\ Tail(<<c>> \o (u \o t)) = u \o t
  BY <1>1, <1>2, RestOfCons, ZenonT(60)
<1>5. QED
  BY <1>1, <1>2, <1>3, <1>4, Zenon DEF c

OrderInv ==
    /\ at \in {"usbPoll", "button", "tx", "eeprom", "serial", "endpoint3"}
    /\ back \in {"button", "serial"}
    /\ txLeft \in Seq(Char) /\ udr \in Seq(Char) /\ shift \in Seq(Char) /\ due \in Seq(Char)
    /\ Len(udr) <= 1 /\ Len(shift) <= 1
    /\ txLeft # <<>> <=> at = "tx"
    /\ rxMsg.kind = "serial" => rxMsg.text \in Seq(Char)
    /\ OutInOrder

LEMMA Empty ==
    /\ <<>> \in Seq(Char) /\ Len(<<>>) = 0
    /\ \A s \in Seq(Char) : s \o <<>> = s /\ <<>> \o s = s
BY ConcatEmptySeq

\* usart_tx() is called with nothing left of the text before.
LEMMA TextIsSent ==
    ASSUME OrderInv, at # "tx", NEW text \in Seq(Char), NEW next \in {"button", "serial"},
           UsartTx(text, next), due' = due \o text, UNCHANGED <<udr, shift>>,
           rxMsg' = rxMsg \/ rxMsg' = None
    PROVE  OrderInv'
<1>1. txLeft = <<>> /\ (shift \o udr) \o txLeft = due
  BY DEF OrderInv, OutInOrder
<1>2. shift \o udr \in Seq(Char)
  BY ConcatProperties, Zenon DEF OrderInv
<1>3. due = shift \o udr
  BY <1>1, <1>2, Empty
<1>4. (shift \o udr) \o text \in Seq(Char)
  BY <1>2, ConcatProperties, Zenon
<1>5. /\ txLeft' = text /\ back' = next /\ (text # <<>> <=> at' = "tx")
      /\ at' \in {"usbPoll", "button", "tx", "eeprom", "serial", "endpoint3"}
  BY DEF UsartTx
<1>6. OutInOrder' /\ due' \in Seq(Char)
  BY <1>3, <1>4, <1>5 DEF OutInOrder
<1>7. rxMsg'.kind = "serial" => rxMsg'.text \in Seq(Char)
  BY DEF OrderInv, None
<1>8. QED
  BY <1>5, <1>6, <1>7 DEF OrderInv

LEMMA OrderStep == OrderInv /\ [Next]_bridgeVars => OrderInv'
<1> SUFFICES ASSUME OrderInv, [Next]_bridgeVars PROVE OrderInv'
  OBVIOUS
<1>t. /\ txLeft \in Seq(Char) /\ udr \in Seq(Char) /\ shift \in Seq(Char) /\ due \in Seq(Char)
      /\ Len(udr) <= 1 /\ Len(shift) <= 1 /\ (shift \o udr) \o txLeft = due
  BY DEF OrderInv, OutInOrder
<1>1. ASSUME UNCHANGED <<txLeft, back, udr, shift, due>>, at # "tx", at' # "tx",
             at' \in {"usbPoll", "button", "tx", "eeprom", "serial", "endpoint3"},
             rxMsg' = rxMsg \/ rxMsg'.kind # "serial"
      PROVE  OrderInv'
  BY <1>1 DEF OrderInv, OutInOrder
<1>2. ASSUME UNCHANGED <<at, txLeft, back, udr, shift, due>>,
             rxMsg' = rxMsg \/ rxMsg'.kind # "serial" \/ rxMsg'.text \in Seq(Char)
      PROVE  OrderInv'
  BY <1>2 DEF OrderInv, OutInOrder
<1>3. CASE WriteSerial
  <2>1. rxMsg.text \in Seq(Char) /\ at # "tx" /\ UNCHANGED <<udr, shift>> /\ rxMsg' = None
    BY <1>3 DEF WriteSerial, OrderInv, usartVars
  <2>2. /\ CutAtZero(Terminated(rxMsg.text)) = CutAtZero(rxMsg.text)
        /\ CutAtZero(rxMsg.text) \in Seq(Char)
    BY <2>1, CutTerminated, CutType
  <2>3. UsartTx(CutAtZero(rxMsg.text), "button") /\ due' = due \o CutAtZero(rxMsg.text)
    BY <1>3, <2>2 DEF WriteSerial
  <2>4. QED
    BY <2>1, <2>2, <2>3, TextIsSent
<1>4. CASE Request
  <2>1. at # "tx" /\ at' = "button" /\ rxMsg' = None /\ UNCHANGED <<txLeft, back, due>>
    BY <1>4 DEF Request
  <2>2. UNCHANGED <<udr, shift>> \/ (shift = <<>> /\ shift' = udr /\ udr' = <<>>)
    <3>1. usbFunctionSetup(rxMsg.rq)
      BY <1>4 DEF Request
    <3>2. CASE rxMsg.rq.bRequest = "SET_REGISTER"
      BY <3>1, <3>2 DEF usbFunctionSetup, SetRegister, SetDirection, UsartOff, UsartOn, usartVars
    <3>3. CASE rxMsg.rq.bRequest # "SET_REGISTER"
      BY <3>1, <3>3 DEF usbFunctionSetup
    <3>4. QED
      BY <3>2, <3>3
  <2>3. CASE UNCHANGED <<udr, shift>>
    BY <1>1, <2>1, <2>3 DEF None
  <2>4. CASE shift = <<>> /\ shift' = udr /\ udr' = <<>>
    <3>1. (shift' \o udr') \o txLeft' = due'
      BY <1>t, <2>1, <2>4, Empty
    <3>2. QED
      BY <2>1, <2>4, <3>1, Empty DEF OrderInv, OutInOrder, None
  <2>5. QED
    BY <2>2, <2>3, <2>4
<1>5. CASE ByteTx
  <2>1. /\ at = "tx" /\ txLeft # <<>> /\ udr = <<>> /\ txLeft' = Tail(txLeft) /\ due' = due
        /\ back' = back /\ rxMsg' = rxMsg
        /\ at' = IF Tail(txLeft) = <<>> THEN back ELSE at
    BY <1>5 DEF ByteTx, usbVars
  <2>2. Head(txLeft) \in Char /\ Tail(txLeft) \in Seq(Char)
    BY <1>t, <2>1, FirstAndRest, Zenon
  <2>3. /\ <<Head(txLeft)>> \in Seq(Char) /\ Len(<<Head(txLeft)>>) <= 1
    BY <2>2
  <2>4. /\ (<<>> \o <<>>) \o txLeft = (<<Head(txLeft)>> \o <<>>) \o Tail(txLeft)
        /\ (shift \o <<>>) \o txLeft = (shift \o <<Head(txLeft)>>) \o Tail(txLeft)
    BY <1>t, <2>1, Handed, Zenon
  <2>5. \/ shift = <<>> /\ shift' = <<Head(txLeft)>> /\ udr' = udr
        \/ udr' = <<Head(txLeft)>> /\ shift' = shift
    BY <1>5 DEF ByteTx
  <2>6. (shift' \o udr') \o txLeft' = due'
    BY <1>t, <2>1, <2>4, <2>5, Zenon
  <2>7. /\ udr' \in Seq(Char) /\ shift' \in Seq(Char) /\ Len(udr') <= 1 /\ Len(shift') <= 1
    <3>1. CASE shift = <<>> /\ shift' = <<Head(txLeft)>> /\ udr' = udr
      BY <1>t, <2>3, <3>1, Zenon
    <3>2. CASE udr' = <<Head(txLeft)>> /\ shift' = shift
      BY <1>t, <2>3, <3>2, Zenon
    <3>3. QED
      BY <2>5, <3>1, <3>2
  <2>8. QED
    BY <2>1, <2>2, <2>6, <2>7 DEF OrderInv, OutInOrder
<1>6. CASE Button
  <2>1. CASE at' = "serial" /\ UNCHANGED <<txLeft, back, due, presses>>
    BY <1>1, <1>6, <2>1 DEF Button, usartVars, usbVars
  <2>2. CASE UsartTx(Banner, "serial") /\ due' = due \o Banner
    <3>1. Banner \in Seq(Char)
      <4>1. Banner \in Seq(1..255) /\ 1..255 \subseteq Char
        BY BridgeAssumption DEF Char
      <4>2. QED
        BY <4>1, SeqMonotonic, ZenonT(60)
    <3>2. at # "tx" /\ UNCHANGED <<udr, shift, rxMsg>>
      BY <1>6 DEF Button, usartVars, usbVars
    <3>3. QED
      BY <2>2, <3>1, <3>2, TextIsSent
  <2>3. QED
    BY <1>6, <2>1, <2>2 DEF Button
<1>7. CASE WriteMemory \/ NothingToPoll \/ EepromWritten \/ SerialRx \/ SetInterrupt3
  <2>1. /\ UNCHANGED <<txLeft, back, udr, shift, due>> /\ at # "tx" /\ at' # "tx"
        /\ at' \in {"usbPoll", "button", "tx", "eeprom", "serial", "endpoint3"}
        /\ rxMsg' = rxMsg \/ rxMsg' = None
    BY <1>7 DEF WriteMemory, NothingToPoll, EepromWritten, SerialRx, SetInterrupt3, usartVars, usbVars
  <2>2. QED
    BY <1>1, <2>1 DEF None
<1>8. CASE HostWrites
  <2>1. UNCHANGED <<at, txLeft, back, udr, shift, due>>
    BY <1>8 DEF HostWrites, loopVars, usartVars
  <2>2. rxMsg'.kind # "serial" \/ rxMsg'.text \in Seq(Char)
    <3>1. \A t \in Texts : t \in Seq(Char)
      BY BridgeAssumption DEF Char
    <3>2. QED
      BY <1>8, <3>1 DEF HostWrites, Text, Memory, Setup
  <2>3. QED
    BY <1>2, <2>1, <2>2
<1>9. CASE HostPolls \/ UNCHANGED bridgeVars
  BY <1>2, <1>9 DEF HostPolls, loopVars, usartVars, bridgeVars
<1>10. CASE ByteTime
  <2>1. UNCHANGED <<at, txLeft, back, rxMsg>>
    BY <1>10 DEF ByteTime, usbVars
  <2>2. CASE shift = <<>>
    <3>1. UNCHANGED <<udr, shift, due>>
      BY <1>10, <2>2 DEF ByteTime
    <3>2. QED
      BY <1>2, <2>1, <3>1
  <2>3. CASE shift # <<>>
    <3>1. /\ shift' = udr /\ udr' = <<>>
          /\ due' = IF due # <<>> /\ Head(due) = Head(shift) THEN Tail(due) ELSE due
      BY <1>10, <2>3 DEF ByteTime
    <3>2. due # <<>> /\ Head(due) = Head(shift) /\ Tail(due) = (udr \o <<>>) \o txLeft
      <4>1. /\ (shift \o udr) \o txLeft # <<>> /\ Head((shift \o udr) \o txLeft) = Head(shift)
            /\ Tail((shift \o udr) \o txLeft) = (udr \o <<>>) \o txLeft
        BY <1>t, <2>3, Left, ZenonT(60)
      <4>2. QED
        BY <1>t, <4>1, Zenon
    <3>3. due' = (shift' \o udr') \o txLeft'
      BY <2>1, <3>1, <3>2, Zenon
    <3>4. due' \in Seq(Char)
      BY <1>t, <3>1, <3>2, FirstAndRest, Zenon
    <3>5. QED
      BY <1>t, <2>1, <3>1, <3>3, <3>4, Empty, SMTT(60) DEF OrderInv, OutInOrder
  <2>4. QED
    BY <2>2, <2>3
<1>11. QED
  BY <1>3, <1>4, <1>5, <1>6, <1>7, <1>8, <1>9, <1>10 DEF Next, MainLoop

\* The characters of the messages and of the banner appear on the line in order,
\* once, and nothing else does (main.c:372-376, 444-451, serial.c:136-162).
THEOREM OutIsInOrder == Spec => []OutInOrder
<1>1. Init => OrderInv
  BY Empty DEF Init, OrderInv, OutInOrder, None
<1>2. OrderInv => OutInOrder
  BY DEF OrderInv
<1>3. QED
  BY <1>1, <1>2, OrderStep, PTL DEF Spec

-----------------------------------------------------------------------------
(* SerialBridge implements ByteChannel.  First what its steps do to the bytes  *)
(* inside the board, a concatenation.                                          *)

LEMMA Taken ==
    ASSUME NEW a \in Seq(Nat), NEW r \in Seq(Nat)
    PROVE  /\ SubSeq(a \o r, 1, Len(a)) = a
           /\ SubSeq(a \o r, Len(a) + 1, Len(a \o r)) = r
           /\ a \o r \in Seq(Nat) /\ Len(a \o r) = Len(a) + Len(r)
<1> DEFINE s == a \o r
           n == Len(a)
           l == Len(r)
<1>1. /\ s \in Seq(Nat) /\ Len(s) = n + l
      /\ \A i \in 1..n + l : s[i] = IF i <= n THEN a[i] ELSE r[i - n]
  BY ConcatProperties, Zenon
<1>2. n \in Nat /\ l \in Nat
  OBVIOUS
<1> HIDE DEF s, n, l
<1>3. \A i \in 1..n + l : s[i] \in Nat
  BY <1>1, <1>2, ElementOfSeq
<1>4. /\ SubSeq(s, 1, n) \in Seq(Nat) /\ Len(SubSeq(s, 1, n)) = n
      /\ \A i \in 1..n : SubSeq(s, 1, n)[i] = s[i]
  <2>1. 1 \in Int /\ n \in Int /\ \A i \in 1..n : s[i] \in Nat
    BY <1>2, <1>3
  <2>2. /\ SubSeq(s, 1, n) \in Seq(Nat)
        /\ Len(SubSeq(s, 1, n)) = IF 1 <= n THEN n - 1 + 1 ELSE 0
        /\ \A i \in 1..n - 1 + 1 : SubSeq(s, 1, n)[i] = s[1 + i - 1]
    BY <2>1, SubSeqProperties
  <2>3. QED
    BY <1>2, <2>2
<1>5. SubSeq(s, 1, n) = a
  <2>1. \A i \in 1..Len(SubSeq(s, 1, n)) : SubSeq(s, 1, n)[i] = a[i]
    BY <1>1, <1>2, <1>4, SMTT(60)
  <2>2. Len(SubSeq(s, 1, n)) = Len(a)
    BY <1>4 DEF n
  <2>3. QED
    BY <1>4, <2>1, <2>2, SeqEqual, Zenon
<1> DEFINE m == n + 1
           k == n + l
           t == SubSeq(s, m, k)
<1>6. t \in Seq(Nat) /\ Len(t) = l /\ \A i \in 1..l : t[i] = s[n + i]
  <2>1. m \in Int /\ k \in Int /\ \A i \in m..k : s[i] \in Nat
    BY <1>2, <1>3
  <2> HIDE DEF m, k
  <2>2. /\ t \in Seq(Nat)
        /\ Len(t) = IF m <= k THEN k - m + 1 ELSE 0
        /\ \A i \in 1..k - m + 1 : t[i] = s[m + i - 1]
    BY <2>1, SubSeqProperties
  <2> HIDE DEF t
  <2>3. m = n + 1 /\ k = n + l /\ k - m + 1 = l /\ (m <= k \/ l = 0)
    BY <1>2 DEF m, k
  <2>4. Len(t) = l
    BY <1>2, <2>2, <2>3
  <2>5. ASSUME NEW i \in 1..l PROVE t[i] = s[n + i]
    <3>1. m + i - 1 = n + i
      BY <1>2, <2>3
    <3>2. t[i] = s[m + i - 1]
      BY <2>2, <2>3
    <3>3. QED
      BY <3>1, <3>2
  <2>6. QED
    BY <2>2, <2>4, <2>5
<1>7. t = r
  <2> HIDE DEF t
  <2>1. \A i \in 1..Len(t) : t[i] = r[i]
    BY <1>1, <1>2, <1>6, SMTT(60)
  <2>2. Len(t) = Len(r)
    BY <1>6 DEF l
  <2>3. QED
    BY <1>6, <2>1, <2>2, SeqEqual, Zenon
<1>8. QED
  BY <1>1, <1>5, <1>7, Zenon DEF s, n, l

LEMMA Moved ==
    \A a, b, c \in Seq(Nat) : \A d \in 0..Len(c) : \A f, g :
        f = SubSeq(c, 1, d) /\ g = SubSeq(c, d + 1, Len(c)) =>
            /\ (a \o (b \o f)) \o g = (a \o b) \o c
            /\ f \in Seq(Nat) /\ g \in Seq(Nat)
            /\ Len(f) = d /\ Len(g) = Len(c) - d
<1> SUFFICES ASSUME NEW a \in Seq(Nat), NEW b \in Seq(Nat), NEW c \in Seq(Nat),
                    NEW d \in 0..Len(c), NEW f, NEW g
             PROVE  f = SubSeq(c, 1, d) /\ g = SubSeq(c, d + 1, Len(c)) =>
                        /\ (a \o (b \o f)) \o g = (a \o b) \o c
                        /\ f \in Seq(Nat) /\ g \in Seq(Nat)
                        /\ Len(f) = d /\ Len(g) = Len(c) - d
  OBVIOUS
<1> DEFINE u == SubSeq(c, 1, d)
           k == d + 1
           l == Len(c)
           v == SubSeq(c, k, l)
<1>1. l \in Nat /\ d \in Int /\ 1 \in Int /\ k \in Int /\ l \in Int
  OBVIOUS
<1>2. (\A i \in 1..d : c[i] \in Nat) /\ \A i \in k..l : c[i] \in Nat
  BY ElementOfSeq, SMTT(60)
<1> HIDE DEF k, l
<1>3. u \in Seq(Nat) /\ Len(u) = IF 1 <= d THEN d - 1 + 1 ELSE 0
  BY <1>1, <1>2, SubSeqProperties
<1>4. v \in Seq(Nat) /\ Len(v) = IF k <= l THEN l - k + 1 ELSE 0
  BY <1>1, <1>2, SubSeqProperties
<1>5. Len(u) = d /\ Len(v) = l - d
  BY <1>1, <1>3, <1>4 DEF k, l
<1>6. u \o v = c
  <2>1. SubSeq(c, 1, d) \o SubSeq(c, d + 1, l) = SubSeq(c, 1, l)
    <3>1. 1 \in 1..Len(c) + 1 /\ d \in 1 - 1..Len(c) /\ l \in d..Len(c)
      BY <1>1 DEF l
    <3>2. QED
      BY <3>1, ConcatAdjacentSubSeq
  <2>2. SubSeq(c, 1, l) = c
    BY SubSeqFull DEF l
  <2>3. QED
    BY <2>1, <2>2 DEF k
<1> HIDE DEF u, v
<1>7. b \o u \in Seq(Nat) /\ a \o b \in Seq(Nat)
  BY <1>3, ConcatProperties, Zenon
<1>8. /\ (a \o (b \o u)) \o v = a \o ((b \o u) \o v)
      /\ (b \o u) \o v = b \o (u \o v)
      /\ (a \o b) \o c = a \o (b \o c)
  <2>1. (a \o (b \o u)) \o v = a \o ((b \o u) \o v)
    <3> DEFINE w == b \o u
    <3>1. w \in Seq(Nat)
      BY <1>7
    <3> HIDE DEF w
    <3>2. (a \o w) \o v = a \o (w \o v)
      BY <1>4, <3>1, Assoc, ZenonT(60)
    <3>3. QED
      BY <3>2 DEF w
  <2>2. (b \o u) \o v = b \o (u \o v)
    BY <1>3, <1>4, Assoc, ZenonT(60)
  <2>3. (a \o b) \o c = a \o (b \o c)
    BY Assoc, ZenonT(60)
  <2>4. QED
    BY <2>1, <2>2, <2>3
<1>9. (a \o (b \o u)) \o v = (a \o b) \o c
  BY <1>6, <1>8, Zenon
<1>10. QED
  <2>1. HAVE f = SubSeq(c, 1, d) /\ g = SubSeq(c, d + 1, Len(c))
  <2>2. f = u /\ g = v
    BY <2>1 DEF u, v, k, l
  <2>3. QED
    BY <1>3, <1>4, <1>5, <1>9, <2>2 DEF l

LEMMA Added ==
    ASSUME NEW p \in Seq(Nat), NEW q \in Seq(Nat), NEW x \in Nat
    PROVE  /\ Append(p \o q, x) = p \o Append(q, x)
           /\ Append(q, x) \in Seq(Nat) /\ Len(Append(q, x)) = Len(q) + 1
<1> DEFINE h == <<x>>
<1>1. h \in Seq(Nat) /\ p \o q \in Seq(Nat)
  BY ConcatProperties
<1>2. Append(p \o q, x) = (p \o q) \o h /\ Append(q, x) = q \o h
  BY <1>1, AppendIsConcat
<1> HIDE DEF h
<1>3. (p \o q) \o h = p \o (q \o h)
  BY <1>1, Assoc, ZenonT(60)
<1>4. QED
  BY <1>2, <1>3, AppendProperties, ZenonT(60)

Overwrite(s, x) == [s EXCEPT ![Len(s)] = x]

LEMMA Replaced ==
    ASSUME NEW p \in Seq(Nat), NEW q \in Seq(Nat), q # <<>>, NEW x \in Nat
    PROVE  /\ Overwrite(p \o q, x) = p \o Overwrite(q, x) /\ p \o q # <<>>
           /\ Overwrite(q, x) \in Seq(Nat) /\ Len(Overwrite(q, x)) = Len(q)
<1> DEFINE s == p \o q
           n == Len(p)
           l == Len(q)
           t == [q EXCEPT ![l] = x]
           r == p \o t
           k == Len(s)
           e == [s EXCEPT ![k] = x]
<1>1. /\ s \in Seq(Nat) /\ Len(s) = n + l
      /\ \A i \in 1..n + l : s[i] = IF i <= n THEN p[i] ELSE q[i - n]
  BY ConcatProperties, Zenon
<1>2. n \in Nat /\ l \in Nat /\ l >= 1
  BY EmptySeq
<1>3. t \in Seq(Nat) /\ Len(t) = l /\ \A i \in 1..l : t[i] = IF i = l THEN x ELSE q[i]
  <2>1. l \in 1..Len(q)
    BY <1>2
  <2> HIDE DEF l
  <2>2. /\ t \in Seq(Nat) /\ Len(t) = Len(q)
        /\ \A i \in 1..Len(q) : t[i] = IF i = l THEN x ELSE q[i]
    BY <2>1, ExceptSeq
  <2>3. QED
    BY <2>2 DEF l
<1> HIDE DEF s, n, l, t
<1>4. /\ r \in Seq(Nat) /\ Len(r) = n + l
      /\ \A i \in 1..n + l : r[i] = IF i <= n THEN p[i] ELSE t[i - n]
  <2>1. /\ p \o t \in Seq(Nat) /\ Len(p \o t) = Len(p) + Len(t)
        /\ \A i \in 1..Len(p) + Len(t) : (p \o t)[i] = IF i <= Len(p) THEN p[i] ELSE t[i - Len(p)]
    BY <1>3, ConcatProperties, Zenon
  <2>2. QED
    BY <1>3, <2>1 DEF n
<1>5. k = n + l /\ k \in 1..Len(s)
  BY <1>1, <1>2
<1> HIDE DEF k
<1>6. e \in Seq(Nat) /\ Len(e) = Len(s) /\ \A i \in 1..Len(s) : e[i] = IF i = k THEN x ELSE s[i]
  BY <1>1, <1>5, ExceptSeq
<1> HIDE DEF e, r
<1>7. \A i \in 1..Len(e) : e[i] = r[i]
  <2>1. TAKE i \in 1..Len(e)
  <2>2. i \in 1..n + l /\ (i <= n \/ (i - n \in 1..l /\ i > n))
    BY <1>1, <1>2, <1>6
  <2>3. CASE i <= n
    <3>1. i # k /\ i \in 1..Len(s)
      BY <1>1, <1>2, <1>5, <2>2, <2>3
    <3>2. e[i] = p[i]
      BY <1>1, <1>6, <2>2, <2>3, <3>1
    <3>3. QED
      BY <1>4, <2>2, <2>3, <3>2
  <2>4. CASE i - n \in 1..l /\ i > n
    <3>1. (i = k <=> i - n = l) /\ i \in 1..Len(s) /\ ~(i <= n)
      BY <1>1, <1>2, <1>5, <2>2, <2>4
    <3>2. r[i] = t[i - n] /\ s[i] = q[i - n]
      BY <1>1, <1>4, <2>2, <3>1
    <3>3. t[i - n] = IF i - n = l THEN x ELSE q[i - n]
      BY <1>3, <2>4
    <3>4. e[i] = IF i = k THEN x ELSE s[i]
      BY <1>6, <3>1
    <3>5. QED
      BY <3>1, <3>2, <3>3, <3>4
  <2>5. QED
    BY <2>2, <2>3, <2>4
<1>8. e = r
  <2>1. Len(e) = Len(r)
    BY <1>1, <1>4, <1>6
  <2>2. QED
    BY <1>4, <1>6, <1>7, <2>1, SeqEqual, Zenon
<1>9. s # <<>>
  <2>1. Len(s) >= 1
    BY <1>1, <1>2
  <2>2. QED
    BY <2>1, EmptySeq
<1>10. e = Overwrite(p \o q, x) /\ t = Overwrite(q, x)
  BY Zenon DEF e, k, s, t, l, Overwrite
<1>11. QED
  BY <1>3, <1>8, <1>9, <1>10, Zenon DEF r, s, l

Inside == (tx3 \o ser_buf) \o rxq

\* A byte is lost only while the board does something else, or when packet, buffer and
\* receiver are full: in a byte time the main loop looks at the receiver twice, and a
\* receiver that stays full all the while found ser_buf full the first time, and with
\* it the packet, which the host can have taken once at most.
Lag ==
    Len(rxq) = FIFO =>
        /\ caught = 1 => IF at = "endpoint3" THEN Len(ser_buf) = SER_BUF
                         ELSE Len(ser_buf) = SER_BUF => tx3 # <<>> \/ polled > 0
        /\ caught = 2 => \/ Len(ser_buf) = SER_BUF /\ (tx3 # <<>> \/ polled > 0)
                         \/ at # "endpoint3" /\ Len(tx3) = SER_BUF /\ polled > 0

ChannelInv ==
    /\ ser_buf \in Seq(Nat) /\ tx3 \in Seq(Nat) /\ rxq \in Seq(Nat) /\ got \in Seq(Nat)
    /\ Len(ser_buf) <= SER_BUF /\ Len(tx3) <= SER_BUF /\ Len(rxq) <= FIFO
    /\ arrived \in Nat /\ polled \in Nat /\ caught \in 0..2 /\ usart \in BOOLEAN
    /\ ~usart => rxq = <<>>
    /\ Lag

LEMMA Sizes ==
    /\ SER_BUF \in Nat /\ SER_BUF >= 1 /\ FIFO \in Nat /\ FIFO >= 1
    /\ POLL_TICKS \in Nat /\ POLL_TICKS >= 1
BY BridgeAssumption DEF BridgeAssumption

LEMMA InsideIs ==
    ASSUME ChannelInv
    PROVE  /\ tx3 \o ser_buf \in Seq(Nat) /\ Inside \in Seq(Nat)
           /\ Len(Inside) = Len(tx3) + Len(ser_buf) + Len(rxq)
           /\ Len(tx3) \in Nat /\ Len(ser_buf) \in Nat /\ Len(rxq) \in Nat
<1>1. tx3 \in Seq(Nat) /\ ser_buf \in Seq(Nat) /\ rxq \in Seq(Nat)
  BY DEF ChannelInv
<1>2. tx3 \o ser_buf \in Seq(Nat) /\ Len(tx3 \o ser_buf) = Len(tx3) + Len(ser_buf)
  BY <1>1, Taken
<1>3. Inside \in Seq(Nat) /\ Len(Inside) = Len(tx3 \o ser_buf) + Len(rxq)
  BY <1>1, <1>2, Taken DEF Inside
<1>4. QED
  BY <1>1, <1>2, <1>3

LEMMA SerialRxIs ==
    ASSUME ChannelInv, SerialRx
    PROVE  /\ ser_buf' \in Seq(Nat) /\ rxq' \in Seq(Nat)
           /\ Len(ser_buf') <= SER_BUF /\ Len(rxq') <= FIFO
           /\ (rxq = <<>> => rxq' = <<>>) /\ Inside' = Inside
           /\ Len(rxq') = FIFO => /\ Len(rxq) = FIFO /\ ser_buf' = ser_buf
                                  /\ Len(ser_buf) = SER_BUF
<1>1. /\ ser_buf \in Seq(Nat) /\ rxq \in Seq(Nat) /\ tx3 \in Seq(Nat)
      /\ Len(ser_buf) <= SER_BUF /\ Len(rxq) <= FIFO
  BY DEF ChannelInv
<1>2. Drained = (IF Len(rxq) < SER_BUF - Len(ser_buf) THEN Len(rxq) ELSE SER_BUF - Len(ser_buf))
  BY DEF Drained
<1>3. /\ Drained \in 0..Len(rxq) /\ Drained <= SER_BUF - Len(ser_buf)
      /\ Drained = 0 => Len(rxq) = 0 \/ Len(ser_buf) = SER_BUF
  BY <1>1, <1>2, Sizes
<1> DEFINE u == SubSeq(rxq, 1, Drained)
           v == SubSeq(rxq, Drained + 1, Len(rxq))
<1>4. ser_buf' = ser_buf \o u /\ rxq' = v /\ tx3' = tx3
  BY DEF SerialRx, usbVars
<1>5. u = SubSeq(rxq, 1, Drained) /\ v = SubSeq(rxq, Drained + 1, Len(rxq))
  OBVIOUS
<1> HIDE DEF u, v
<1>6. /\ (tx3 \o (ser_buf \o u)) \o v = (tx3 \o ser_buf) \o rxq
      /\ u \in Seq(Nat) /\ v \in Seq(Nat) /\ Len(u) = Drained /\ Len(v) = Len(rxq) - Drained
  <2>1. rxq \in Seq(Nat) /\ ser_buf \in Seq(Nat) /\ tx3 \in Seq(Nat) /\ Drained \in 0..Len(rxq)
    BY <1>1, <1>3
  <2>2. \A b, c \in Seq(Nat) : \A d \in 0..Len(c) : \A f, g :
            f = SubSeq(c, 1, d) /\ g = SubSeq(c, d + 1, Len(c)) =>
                /\ (tx3 \o (b \o f)) \o g = (tx3 \o b) \o c
                /\ f \in Seq(Nat) /\ g \in Seq(Nat)
                /\ Len(f) = d /\ Len(g) = Len(c) - d
    BY <2>1, Moved, Zenon
  <2>3. \A d \in 0..Len(rxq) : \A f, g :
            f = SubSeq(rxq, 1, d) /\ g = SubSeq(rxq, d + 1, Len(rxq)) =>
                /\ (tx3 \o (ser_buf \o f)) \o g = (tx3 \o ser_buf) \o rxq
                /\ f \in Seq(Nat) /\ g \in Seq(Nat)
                /\ Len(f) = d /\ Len(g) = Len(rxq) - d
    BY <2>1, <2>2, ZenonT(60)
  <2>4. QED
    BY <1>5, <2>1, <2>3, Zenon
<1>7. ser_buf \o u \in Seq(Nat) /\ Len(ser_buf \o u) = Len(ser_buf) + Drained
  BY <1>1, <1>6, Taken
<1>8. rxq = <<>> => v = <<>>
  BY <1>1, <1>3, <1>6, EmptySeq
<1>9. Inside' = Inside
  BY <1>4, <1>6 DEF Inside
<1>10. Len(v) = FIFO => Drained = 0 /\ Len(rxq) = FIFO /\ Len(ser_buf) = SER_BUF
  BY <1>1, <1>3, <1>6, Sizes
<1>11. Drained = 0 => ser_buf \o u = ser_buf
  BY <1>1, <1>6, EmptySeq, ConcatEmptySeq
<1>12. Len(ser_buf \o u) <= SER_BUF /\ Len(v) <= FIFO
  BY <1>1, <1>3, <1>6, <1>7, Sizes
<1>13. QED
  BY <1>4, <1>6, <1>7, <1>8, <1>9, <1>10, <1>11, <1>12

\* A request switches the serial line off, and then the bytes received are gone, or
\* leaves them alone.
LEMMA RequestOnUsart ==
    ASSUME ChannelInv, Request
    PROVE  /\ usart' \in BOOLEAN /\ (~usart' => rxq' = <<>>)
           /\ rxq' = rxq \/ (rxq' = <<>> /\ ~usart')
<1>1. usart \in BOOLEAN /\ (~usart => rxq = <<>>)
  BY DEF ChannelInv
<1>2. usbFunctionSetup(rxMsg.rq)
  BY DEF Request
<1>3. CASE UNCHANGED <<usart, rxq>>
  BY <1>1, <1>3
<1>4. CASE UsartOff
  BY <1>4 DEF UsartOff
<1>5. CASE UsartOn
  BY <1>5 DEF UsartOn
<1>6. UNCHANGED <<usart, rxq>> \/ UsartOff \/ UsartOn
  <2>1. CASE rxMsg.rq.bRequest = "SET_REGISTER"
    <3>1. SetRegister(rxMsg.rq)
      BY <1>2, <2>1 DEF usbFunctionSetup
    <3>2. \/ SetDirection(rxMsg.rq.reg, rxMsg.rq.value)
          \/ UNCHANGED <<usart, rxq>>
      BY <3>1 DEF SetRegister
    <3>3. QED
      BY <3>2 DEF SetDirection, usartVars
  <2>2. CASE rxMsg.rq.bRequest # "SET_REGISTER"
    BY <1>2, <2>2 DEF usbFunctionSetup
  <2>3. QED
    BY <2>1, <2>2
<1>7. QED
  BY <1>3, <1>4, <1>5, <1>6

LEMMA ReceiveIs ==
    ASSUME ChannelInv, ByteTime, arrived' # arrived
    PROVE  /\ arrived' = arrived + 1
           /\ \/ ~usart /\ rxq' = rxq
              \/ usart /\ Len(rxq) < FIFO /\ rxq' = Append(rxq, arrived')
              \/ /\ usart /\ Len(rxq) = FIFO /\ rxq # <<>>
                 /\ rxq' = [rxq EXCEPT ![Len(rxq)] = arrived']
<1>1. /\ arrived' = arrived + 1
      /\ rxq' = CASE ~usart -> rxq
                  [] usart /\ Len(rxq) < FIFO -> Append(rxq, arrived')
                  [] OTHER -> [rxq EXCEPT ![FIFO] = arrived']
  BY DEF ByteTime, Receive
<1>2. Len(rxq) \in Nat /\ Len(rxq) <= FIFO /\ usart \in BOOLEAN /\ rxq \in Seq(Nat)
  BY DEF ChannelInv
<1>3. Len(rxq) < FIFO \/ Len(rxq) = FIFO
  BY <1>2, Sizes
<1>4. Len(rxq) = FIFO => rxq # <<>>
  BY <1>2, Sizes, EmptySeq
<1>5. QED
  BY <1>1, <1>2, <1>3, <1>4

LEMMA ReceiveType ==
    ASSUME ChannelInv, ByteTime
    PROVE  /\ rxq' \in Seq(Nat) /\ Len(rxq') <= FIFO /\ arrived' \in Nat
           /\ ~usart => rxq' = <<>>
<1>1. CASE arrived' = arrived
  <2>1. rxq' = rxq
    BY <1>1 DEF ByteTime, Receive, ChannelInv
  <2>2. QED
    BY <1>1, <2>1 DEF ChannelInv
<1>2. CASE arrived' # arrived
  <2>1. arrived' \in Nat /\ arrived' = arrived + 1 /\ rxq \in Seq(Nat) /\ (~usart => rxq = <<>>)
    BY <1>2, ReceiveIs DEF ChannelInv
  <2>2. CASE ~usart /\ rxq' = rxq
    BY <2>1, <2>2 DEF ChannelInv
  <2>3. CASE usart /\ Len(rxq) < FIFO /\ rxq' = Append(rxq, arrived')
    <3>1. Append(rxq, arrived') \in Seq(Nat) /\ Len(Append(rxq, arrived')) = Len(rxq) + 1
      BY <2>1, Added
    <3>2. QED
      BY <2>1, <2>3, <3>1, Sizes
  <2>4. CASE usart /\ Len(rxq) = FIFO /\ rxq # <<>> /\ rxq' = [rxq EXCEPT ![Len(rxq)] = arrived']
    <3>1. rxq' = Overwrite(rxq, arrived')
      BY <2>4, Zenon DEF Overwrite
    <3>2. Overwrite(rxq, arrived') \in Seq(Nat) /\ Len(Overwrite(rxq, arrived')) = Len(rxq)
      BY <2>1, <2>4, Replaced, Zenon
    <3>3. QED
      BY <2>1, <2>4, <3>1, <3>2, Sizes
  <2>5. QED
    BY <1>2, <2>2, <2>3, <2>4, ReceiveIs
<1>3. QED
  BY <1>1, <1>2

\* Two looks at the receiver in a byte time: Lag is kept by the step between them.
LEMMA LagStep ==
    ASSUME OrderInv, ChannelInv, [Next]_bridgeVars
    PROVE  Lag'
<1>t. /\ Len(ser_buf) \in Nat /\ Len(tx3) \in Nat /\ Len(rxq) \in Nat /\ polled \in Nat
      /\ caught \in 0..2 /\ back \in {"button", "serial"} /\ Lag
  BY DEF ChannelInv, OrderInv
<1>1. ASSUME UNCHANGED <<ser_buf, tx3, rxq, caught, polled>>, at # "endpoint3", at' # "endpoint3"
      PROVE  Lag'
  BY <1>1, <1>t DEF Lag
<1>2. CASE UNCHANGED bridgeVars
  BY <1>2, <1>t DEF bridgeVars, Lag
<1>3. CASE NothingToPoll
  BY <1>1, <1>3 DEF NothingToPoll, usbVars, usartVars
<1>4. CASE WriteSerial
  BY <1>1, <1>4 DEF WriteSerial, UsartTx, usartVars
<1>5. CASE WriteMemory
  BY <1>1, <1>5 DEF WriteMemory, usartVars
<1>6. CASE Request
  <2>1. CASE rxq' = rxq
    BY <1>1, <1>6, <2>1 DEF Request
  <2>2. CASE rxq' = <<>>
    BY <2>2, Sizes DEF Lag
  <2>3. QED
    BY <1>6, <2>1, <2>2, RequestOnUsart
<1>7. CASE ByteTx
  BY <1>1, <1>7, <1>t DEF ByteTx, usbVars
<1>8. CASE EepromWritten
  BY <1>1, <1>8 DEF EepromWritten, usbVars, usartVars
<1>9. CASE Button
  BY <1>1, <1>9 DEF Button, UsartTx, usbVars, usartVars
<1>10. CASE SerialRx
  <2>1. at = "serial" /\ at' = "endpoint3" /\ caught' = (IF caught = 2 THEN 2 ELSE caught + 1)
        /\ tx3' = tx3 /\ polled' = polled
    BY <1>10 DEF SerialRx, usbVars
  <2>2. Len(rxq') = FIFO => Len(rxq) = FIFO /\ ser_buf' = ser_buf /\ Len(ser_buf) = SER_BUF
    BY <1>10, SerialRxIs
  <2>3. QED
    BY <1>t, <2>1, <2>2 DEF Lag
<1>11. CASE SetInterrupt3
  <2>1. at = "endpoint3" /\ at' = "usbPoll" /\ rxq' = rxq /\ caught' = caught /\ polled' = polled
    BY <1>11 DEF SetInterrupt3, usartVars
  <2>2. CASE tx3 = <<>>
    <3>1. tx3' = ser_buf /\ Len(ser_buf') = 0
      BY <1>11, <2>2, EmptySeq DEF SetInterrupt3
    <3>2. QED
      BY <1>t, <2>1, <2>2, <3>1, Sizes DEF Lag
  <2>3. CASE tx3 # <<>>
    <3>1. tx3' = tx3 /\ ser_buf' = ser_buf
      BY <1>11, <2>3 DEF SetInterrupt3
    <3>2. QED
      BY <1>t, <2>1, <2>3, <3>1 DEF Lag
  <2>4. QED
    BY <2>2, <2>3
<1>12. CASE HostWrites
  <2>1. UNCHANGED <<ser_buf, tx3, rxq, caught, polled, at>>
    BY <1>12 DEF HostWrites, loopVars, usartVars
  <2>2. QED
    BY <1>t, <2>1 DEF Lag
<1>13. CASE HostPolls
  <2>1. polled = 0 /\ polled' = POLL_TICKS /\ UNCHANGED <<ser_buf, rxq, caught, at>>
    BY <1>13 DEF HostPolls, loopVars, usartVars
  <2>2. QED
    BY <1>t, <2>1, Sizes DEF Lag
<1>14. CASE ByteTime
  BY <1>14 DEF ByteTime, Lag
<1>15. QED
  BY <1>2, <1>3, <1>4, <1>5, <1>6, <1>7, <1>8, <1>9, <1>10, <1>11, <1>12, <1>13, <1>14 DEF Next, MainLoop

LEMMA ChannelStep ==
    ASSUME OrderInv, ChannelInv, [Next]_bridgeVars
    PROVE  ChannelInv'
<1>t. /\ ser_buf \in Seq(Nat) /\ tx3 \in Seq(Nat) /\ rxq \in Seq(Nat) /\ got \in Seq(Nat)
      /\ Len(ser_buf) <= SER_BUF /\ Len(tx3) <= SER_BUF /\ Len(rxq) <= FIFO
      /\ arrived \in Nat /\ polled \in Nat /\ caught \in 0..2 /\ usart \in BOOLEAN
      /\ ~usart => rxq = <<>>
  BY DEF ChannelInv
<1>1. ASSUME UNCHANGED <<ser_buf, tx3, rxq, got, arrived, polled, caught, usart>>
      PROVE  ChannelInv'
  BY <1>1, <1>t, LagStep DEF ChannelInv
<1>2. CASE UNCHANGED bridgeVars
  BY <1>1, <1>2 DEF bridgeVars
<1>3. CASE NothingToPoll
  BY <1>1, <1>3 DEF NothingToPoll, usbVars, usartVars
<1>4. CASE WriteSerial
  BY <1>1, <1>4 DEF WriteSerial, usartVars
<1>5. CASE WriteMemory
  BY <1>1, <1>5 DEF WriteMemory, usartVars
<1>6. CASE Request
  <2>1. UNCHANGED <<ser_buf, tx3, got, arrived, polled, caught>>
    BY <1>6 DEF Request
  <2>2. rxq' \in Seq(Nat) /\ Len(rxq') <= FIFO /\ usart' \in BOOLEAN /\ (~usart' => rxq' = <<>>)
    <3>1. (rxq' = rxq \/ rxq' = <<>>) /\ usart' \in BOOLEAN /\ (~usart' => rxq' = <<>>)
      BY <1>6, <1>t, RequestOnUsart
    <3>2. rxq' = <<>> => rxq' \in Seq(Nat) /\ Len(rxq') <= FIFO
      BY Sizes
    <3>3. rxq' = rxq => rxq' \in Seq(Nat) /\ Len(rxq') <= FIFO
      BY <1>t
    <3>4. QED
      BY <3>1, <3>2, <3>3, Zenon
  <2>3. QED
    BY <1>t, <2>1, <2>2, LagStep DEF ChannelInv
<1>7. CASE ByteTx
  BY <1>1, <1>7 DEF ByteTx, usbVars
<1>8. CASE EepromWritten
  BY <1>1, <1>8 DEF EepromWritten, usbVars, usartVars
<1>9. CASE Button
  BY <1>1, <1>9 DEF Button, usbVars, usartVars
<1>10. CASE SerialRx
  <2>1. UNCHANGED <<tx3, got, arrived, polled, usart>> /\ caught' = (IF caught = 2 THEN 2 ELSE caught + 1)
    BY <1>10 DEF SerialRx, usbVars
  <2>2. caught' \in 0..2
    BY <1>t, <2>1
  <2>3. /\ ser_buf' \in Seq(Nat) /\ rxq' \in Seq(Nat)
        /\ Len(ser_buf') <= SER_BUF /\ Len(rxq') <= FIFO /\ (rxq = <<>> => rxq' = <<>>)
    BY <1>10, SerialRxIs
  <2>4. QED
    BY <1>t, <2>1, <2>2, <2>3, LagStep DEF ChannelInv
<1>11. CASE SetInterrupt3
  <2>1. UNCHANGED <<rxq, got, arrived, polled, caught, usart>>
    BY <1>11 DEF SetInterrupt3, usartVars
  <2>2. /\ ser_buf' \in Seq(Nat) /\ tx3' \in Seq(Nat)
        /\ Len(ser_buf') <= SER_BUF /\ Len(tx3') <= SER_BUF
    <3>1. CASE tx3 = <<>>
      <4>1. tx3' = ser_buf /\ ser_buf' = <<>>
        BY <1>11, <3>1 DEF SetInterrupt3
      <4>2. ser_buf' \in Seq(Nat) /\ Len(ser_buf') <= SER_BUF
        BY <4>1, Sizes
      <4>3. QED
        BY <1>t, <4>1, <4>2
    <3>2. CASE tx3 # <<>>
      BY <1>11, <1>t, <3>2 DEF SetInterrupt3
    <3>3. QED
      BY <3>1, <3>2
  <2>3. QED
    BY <1>t, <2>1, <2>2, LagStep DEF ChannelInv
<1>12. CASE HostWrites
  BY <1>1, <1>12 DEF HostWrites, loopVars, usartVars
<1>13. CASE HostPolls
  <2>1. /\ tx3' = <<>> /\ got' = got \o tx3 /\ polled' = POLL_TICKS
        /\ UNCHANGED <<ser_buf, rxq, arrived, caught, usart>>
    BY <1>13 DEF HostPolls, loopVars, usartVars
  <2>2. got' \in Seq(Nat)
    BY <1>t, <2>1, Taken
  <2>3. <<>> \in Seq(Nat) /\ Len(<<>>) = 0
    OBVIOUS
  <2>4. QED
    BY <1>t, <2>1, <2>2, <2>3, LagStep, Sizes DEF ChannelInv
<1>14. CASE ByteTime
  <2>1. UNCHANGED <<ser_buf, tx3, got, usart>> /\ caught' = 0 /\ polled' = Less(polled)
    BY <1>14 DEF ByteTime, usbVars
  <2>2. polled' \in Nat
    BY <1>t, <2>1 DEF Less
  <2>3. rxq' \in Seq(Nat) /\ Len(rxq') <= FIFO /\ arrived' \in Nat /\ (~usart => rxq' = <<>>)
    BY <1>14, ReceiveType
  <2>4. QED
    BY <1>t, <2>1, <2>2, <2>3, LagStep DEF ChannelInv
<1>15. QED
  BY <1>2, <1>3, <1>4, <1>5, <1>6, <1>7, <1>8, <1>9, <1>10, <1>11, <1>12, <1>13, <1>14 DEF Next, MainLoop

\* A step that moves no byte in or out is one of the channel's, or none.
LEMMA NoByteMoves ==
    ASSUME ChannelInv, arrived' = arrived, got' = got, Inside' = Inside
    PROVE  [Channel!Next]_(Channel!channel)
<1>1. CASE Busy' = Busy
  BY <1>1 DEF Channel!channel, Inside
<1>2. CASE Busy' # Busy
  <2>1. Inside \in Seq(Nat) /\ Len(Inside) \in Nat
    BY InsideIs
  <2>2. SubSeq(Inside, 1, Len(Inside) - 0) = Inside
    <3>1. Len(Inside) - 0 = Len(Inside)
      BY <2>1
    <3>2. QED
      BY <2>1, <3>1, SubSeqFull
  <2>3. 0 <= Len(Inside) /\ 0 \in 0..(SER_BUF + FIFO)
    BY <2>1, Sizes
  <2>4. Channel!Turn(0)
    BY <1>2, <2>2, <2>3 DEF Channel!Turn, Inside
  <2>5. QED
    BY <2>3, <2>4 DEF Channel!Next
<1>3. QED
  BY <1>1, <1>2

\* A request that switches the serial line off forgets what the receiver holds.
LEMMA RequestTurns ==
    ASSUME ChannelInv, Request
    PROVE  [Channel!Next]_(Channel!channel)
<1>1. UNCHANGED <<ser_buf, tx3, got, arrived>>
  BY DEF Request
<1>2. CASE rxq' = rxq
  BY <1>1, <1>2, NoByteMoves DEF Inside
<1>3. CASE rxq' # rxq
  <2>1. rxq' = <<>> /\ ~usart'
    BY <1>3, RequestOnUsart
  <2>2. usart /\ ~Busy /\ Busy'
    <3>1. usart
      BY <1>3, <2>1 DEF ChannelInv
    <3>2. at = "usbPoll"
      BY DEF Request
    <3>3. QED
      BY <2>1, <3>1, <3>2 DEF Busy
  <2>3. tx3 \in Seq(Nat) /\ ser_buf \in Seq(Nat) /\ rxq \in Seq(Nat) /\ Len(rxq) <= FIFO
    BY DEF ChannelInv
  <2> DEFINE a == tx3 \o ser_buf
  <2>4. a \in Seq(Nat) /\ Len(a) \in Nat /\ Inside \in Seq(Nat) /\ Inside = a \o rxq
    BY InsideIs DEF Inside
  <2>5. Inside' = a
    <3>1. Inside' = a \o <<>>
      BY <1>1, <2>1 DEF Inside
    <3>2. a \o <<>> = a
      BY <2>4, ConcatEmptySeq
    <3>3. QED
      BY <3>1, <3>2
  <2> HIDE DEF a
  <2>6. SubSeq(a \o rxq, 1, Len(a)) = a /\ Len(a \o rxq) = Len(a) + Len(rxq)
    BY <2>3, <2>4, Taken
  <2>7. Len(Inside) - Len(rxq) = Len(a) /\ Len(rxq) <= Len(Inside) /\ Len(rxq) \in 0..(SER_BUF + FIFO)
    BY <2>3, <2>4, <2>6, Sizes
  <2>8. Inside' = SubSeq(Inside, 1, Len(Inside) - Len(rxq))
    BY <2>4, <2>5, <2>6, <2>7
  <2>9. Channel!Turn(Len(rxq))
    <3>1. Busy' # Busy
      BY <2>2, Zenon
    <3>2. QED
      BY <1>1, <2>2, <2>7, <2>8, <3>1 DEF Channel!Turn, Inside
  <2>10. QED
    BY <2>7, <2>9 DEF Channel!Next
<1>4. QED
  BY <1>2, <1>3

\* The host gets the packet, the bytes that came in first.
LEMMA PollDelivers ==
    ASSUME ChannelInv, HostPolls
    PROVE  [Channel!Next]_(Channel!channel)
<1>1. /\ tx3 # <<>> /\ got' = got \o tx3 /\ tx3' = <<>>
      /\ UNCHANGED <<at, ser_buf, usart, rxq, arrived>>
  BY DEF HostPolls, loopVars, usartVars
<1>2. tx3 \in Seq(Nat) /\ ser_buf \in Seq(Nat) /\ rxq \in Seq(Nat) /\ Len(tx3) <= SER_BUF
  BY DEF ChannelInv
<1> DEFINE r == ser_buf \o rxq
<1>3. r \in Seq(Nat)
  BY <1>2, Taken
<1>4. Inside = tx3 \o r
  BY <1>2, Assoc, Zenon DEF Inside
<1>5. Inside' = r
  <2>1. Inside' = (<<>> \o ser_buf) \o rxq
    BY <1>1 DEF Inside
  <2>2. <<>> \o ser_buf = ser_buf
    BY <1>2, ConcatEmptySeq
  <2>3. QED
    BY <2>1, <2>2
<1> HIDE DEF r
<1>6. /\ SubSeq(tx3 \o r, 1, Len(tx3)) = tx3
      /\ SubSeq(tx3 \o r, Len(tx3) + 1, Len(tx3 \o r)) = r
      /\ Len(tx3 \o r) = Len(tx3) + Len(r)
  BY <1>2, <1>3, Taken
<1>7. Len(tx3) \in 1..SER_BUF /\ Len(tx3) <= Len(Inside)
  <2>1. Len(tx3) \in Nat /\ Len(tx3) # 0 /\ Len(r) \in Nat
    BY <1>1, <1>2, <1>3, EmptySeq
  <2>2. QED
    BY <1>2, <1>4, <1>6, <2>1, Sizes
<1>8. Busy' = Busy
  BY <1>1 DEF Busy
<1>9. Channel!Deliver(Len(tx3))
  <2>1. got' = got \o SubSeq(Inside, 1, Len(tx3))
    BY <1>1, <1>4, <1>6
  <2>2. Inside' = SubSeq(Inside, Len(tx3) + 1, Len(Inside))
    BY <1>4, <1>5, <1>6
  <2>3. QED
    BY <1>1, <1>7, <1>8, <2>1, <2>2 DEF Channel!Deliver, Inside
<1>10. QED
  BY <1>7, <1>9 DEF Channel!Next

\* A byte that finds the receiver full finds the board busy, or Capacity bytes inside.
LEMMA FullOnlyWhenLate ==
    ASSUME ChannelInv, ByteTime, Len(rxq) = FIFO, ~Busy
    PROVE  Len(Inside) >= SER_BUF + FIFO
<1>1. caught = 2
  BY DEF ByteTime, Waiting, Busy
<1>2. Len(ser_buf) = SER_BUF \/ Len(tx3) = SER_BUF
  BY <1>1 DEF ChannelInv, Lag
<1>3. QED
  BY <1>2, InsideIs, Sizes

LEMMA ByteTimeAccepts ==
    ASSUME ChannelInv, ByteTime
    PROVE  [Channel!Next]_(Channel!channel)
<1>1. UNCHANGED <<at, ser_buf, tx3, got, usart>>
  BY DEF ByteTime, usbVars
<1>2. Busy' = Busy
  BY <1>1 DEF Busy
<1>3. CASE arrived' = arrived
  <2>1. rxq' = rxq
    BY <1>3 DEF ByteTime, Receive, ChannelInv
  <2>2. QED
    BY <1>1, <1>3, <2>1, NoByteMoves DEF Inside
<1>4. CASE arrived' # arrived
  <2>1. arrived' = arrived + 1 /\ arrived' \in Nat /\ rxq \in Seq(Nat)
    <3>1. arrived' = arrived + 1
      BY <1>4, ReceiveIs
    <3>2. arrived \in Nat /\ rxq \in Seq(Nat)
      BY DEF ChannelInv
    <3>3. QED
      BY <3>1, <3>2
  <2> DEFINE a == tx3 \o ser_buf
             x == arrived'
  <2>2. a \in Seq(Nat) /\ Inside = a \o rxq /\ Inside' = a \o rxq'
    BY <1>1, InsideIs DEF Inside
  <2> HIDE DEF a
  <2>3. CASE ~usart /\ rxq' = rxq
    <3>1. Inside' = Inside /\ Busy
      BY <2>2, <2>3 DEF Busy
    <3>2. Channel!Miss
      BY <1>1, <1>2, <2>1, <3>1 DEF Channel!Miss, Inside
    <3>3. QED
      BY <3>2 DEF Channel!Next
  <2>4. CASE usart /\ Len(rxq) < FIFO /\ rxq' = Append(rxq, arrived')
    <3> HIDE DEF x
    <3>1. Append(a \o rxq, x) = a \o Append(rxq, x)
      BY <2>1, <2>2, Added DEF x
    <3>2. Inside' = Append(Inside, arrived')
      BY <2>2, <2>4, <3>1 DEF x
    <3>3. Channel!Accept
      BY <1>1, <1>2, <2>1, <3>2 DEF Channel!Accept, Inside
    <3>4. QED
      BY <3>3 DEF Channel!Next
  <2>5. CASE usart /\ Len(rxq) = FIFO /\ rxq # <<>> /\ rxq' = [rxq EXCEPT ![Len(rxq)] = arrived']
    <3>1. a \in Seq(Nat) /\ rxq \in Seq(Nat) /\ rxq # <<>> /\ x \in Nat /\ Inside = a \o rxq
      BY <2>1, <2>2, <2>5
    <3>2. rxq' = Overwrite(rxq, x)
      BY <2>5, Zenon DEF Overwrite
    <3> HIDE DEF x
    <3>3. Overwrite(a \o rxq, x) = a \o Overwrite(rxq, x) /\ a \o rxq # <<>>
      BY <3>1, Replaced, Zenon
    <3>4. Inside' = [Inside EXCEPT ![Len(Inside)] = x] /\ Inside # <<>>
      BY <2>2, <3>2, <3>3, Zenon DEF Overwrite
    <3>5. Busy \/ Len(Inside) >= SER_BUF + FIFO
      BY <2>5, FullOnlyWhenLate
    <3>6. Channel!Overrun
      BY <1>1, <1>2, <2>1, <3>4, <3>5 DEF Channel!Overrun, Inside, x
    <3>7. QED
      BY <3>6 DEF Channel!Next
  <2>6. QED
    BY <1>4, <2>3, <2>4, <2>5, ReceiveIs
<1>5. QED
  BY <1>3, <1>4

LEMMA StepImplements ==
    ASSUME ChannelInv, [Next]_bridgeVars
    PROVE  [Channel!Next]_(Channel!channel)
<1>1. ASSUME UNCHANGED <<tx3, ser_buf, rxq, arrived, got>>
      PROVE  [Channel!Next]_(Channel!channel)
  BY <1>1, NoByteMoves DEF Inside
<1>2. CASE UNCHANGED bridgeVars
  BY <1>1, <1>2 DEF bridgeVars
<1>3. CASE NothingToPoll
  BY <1>1, <1>3 DEF NothingToPoll, usbVars, usartVars
<1>4. CASE WriteSerial
  BY <1>1, <1>4 DEF WriteSerial, usartVars
<1>5. CASE WriteMemory
  BY <1>1, <1>5 DEF WriteMemory, usartVars
<1>6. CASE Request
  BY <1>6, RequestTurns
<1>7. CASE ByteTx
  BY <1>1, <1>7 DEF ByteTx, usbVars
<1>8. CASE EepromWritten
  BY <1>1, <1>8 DEF EepromWritten, usbVars, usartVars
<1>9. CASE Button
  BY <1>1, <1>9 DEF Button, usbVars, usartVars
<1>10. CASE SerialRx
  <2>1. arrived' = arrived /\ got' = got
    BY <1>10 DEF SerialRx
  <2>2. QED
    BY <1>10, <2>1, SerialRxIs, NoByteMoves
<1>11. CASE SetInterrupt3
  <2>1. arrived' = arrived /\ got' = got /\ rxq' = rxq
    BY <1>11 DEF SetInterrupt3, usartVars
  <2>2. tx3' \o ser_buf' = tx3 \o ser_buf
    <3>1. CASE tx3 = <<>>
      <4>1. tx3' = ser_buf /\ ser_buf' = <<>>
        BY <1>11, <3>1 DEF SetInterrupt3
      <4>2. ser_buf \o <<>> = ser_buf /\ <<>> \o ser_buf = ser_buf
        BY ConcatEmptySeq DEF ChannelInv
      <4>3. QED
        BY <3>1, <4>1, <4>2
    <3>2. CASE tx3 # <<>>
      BY <1>11, <3>2 DEF SetInterrupt3
    <3>3. QED
      BY <3>1, <3>2
  <2>3. Inside' = Inside
    BY <2>1, <2>2 DEF Inside
  <2>4. QED
    BY <2>1, <2>3, NoByteMoves
<1>12. CASE HostWrites
  BY <1>1, <1>12 DEF HostWrites, loopVars, usartVars
<1>13. CASE HostPolls
  BY <1>13, PollDelivers
<1>14. CASE ByteTime
  BY <1>14, ByteTimeAccepts
<1>15. QED
  BY <1>2, <1>3, <1>4, <1>5, <1>6, <1>7, <1>8, <1>9, <1>10, <1>11, <1>12, <1>13, <1>14 DEF Next, MainLoop

\* What the bridge promises of the line's bytes (main.c:262-277, 436-470): each reaches
\* the host at most once and in order, and none is lost unless the board was busy or
\* the host let packet, buffer and receiver fill.
THEOREM BridgeImplementsChannel == Spec => ImplementsByteChannel
<1>1. Init => OrderInv
  BY Empty DEF Init, OrderInv, OutInOrder, None
<1>2. Init => ChannelInv
  BY Sizes DEF Init, ChannelInv, Lag
<1>3. Init => Channel!Init
  BY ConcatEmptySeq DEF Init, Channel!Init, Busy
<1>4. OrderInv /\ ChannelInv /\ [Next]_bridgeVars => ChannelInv'
  BY ChannelStep
<1>5. ChannelInv /\ [Next]_bridgeVars => [Channel!Next]_(Channel!channel)
  BY StepImplements
<1>6. QED
  BY <1>1, <1>2, <1>3, <1>4, <1>5, OrderStep, PTL DEF Spec, ImplementsByteChannel, Channel!Spec
=============================================================================
