---------------------------- MODULE Board_proofs ----------------------------
(***************************************************************************)
(* What the applications of the board do, whatever they are given, proved  *)
(* one application after the other: no other one moves what it owns.       *)
(***************************************************************************)
EXTENDS Board, WellFoundedInduction, TLAPS

\* A step of the board is one of the application burnt in.
LEMMA AppStep ==
    ASSUME [Next]_vars
    PROVE  /\ app' = app
           /\ app = "demo" => [D!Next]_(D!vars)
           /\ app = "remote" => [I!Next]_(I!vars)
           /\ app = "console" => [X!Next]_(X!vars)
           /\ app = "flash" => [F!Next]_(F!vars)
<1>1. CASE Next
  BY <1>1 DEF Next, Demo, Clock, Remote, Radio, Pager, Console, Flash, Cube, Wave, Menu
<1>2. CASE UNCHANGED vars
  BY <1>2 DEF vars, classic, small, demoVars, remoteVars, consoleVars, flashVars,
              D!vars, D!switchVars, I!vars, I!slot, I!isr, X!vars, F!vars
<1>3. QED
  BY <1>1, <1>2

-----------------------------------------------------------------------------
(* Division by the size of a page. *)

LEMMA Remainder ==
    ASSUME NEW n \in Nat \ {0}, NEW a \in Int
    PROVE  a % n \in 0 .. (n - 1) /\ a \div n \in Int /\ a = n * (a \div n) + (a % n)
OBVIOUS

LEMMA Quotient ==
    ASSUME NEW n \in Nat \ {0}, NEW q \in Int, NEW r \in 0 .. (n - 1)
    PROVE  (n * q + r) \div n = q /\ (n * q + r) % n = r
OBVIOUS

-----------------------------------------------------------------------------
(* The programmer demo. *)

Pages == 0 .. (SPM_SZ_WORDS - 1)

\* What pgm_mem() writes to word i.
WordAt(i) == IF i < Len(code) THEN code[i + 1] ELSE BlankWord

\* Where the program is, or goes on when the switch has been pressed.
Phase == IF pc \in {"press", "release"} THEN after ELSE pc

Working == Pages \ bench.flash

Fields == {"flash", "page", "eep", "eepPage", "lfuse", "hfuse", "efuse", "lock"}

MemForm ==
    /\ DOMAIN mem = Fields
    /\ mem.flash = [i \in Pages |-> mem.flash[i]]
    /\ mem.page = [i \in 0 .. (SPM_PS_WORDS - 1) |-> mem.page[i]]
    /\ mem.eep = [i \in 0 .. (EepBytes - 1) |-> mem.eep[i]]

Passing == {"loop", "fuse", "lock", "end"}

DemoType ==
    /\ waddr \in Nat /\ addr \in Nat
    /\ MemForm
    /\ after \in {"loop", "first lock", "first fuse", "cali", "pgm_mem", "fuse", "lock", "end"}

\* A result is reported by the phases behind it.
DemoPhase == pgmMsg # "none" => Phase \in Passing

ErasePart ==
    Phase = "erase_ok" =>
        /\ waddr <= SPM_SZ_WORDS /\ addr <= D!EEP_SZ /\ (waddr < SPM_SZ_WORDS => addr = 0)
        /\ \A i \in 0 .. (waddr - 1) : mem.flash[i] = BlankWord
        /\ \A i \in 0 .. (addr - 1) : mem.eep[i] = 255
        /\ \A i \in Working : mem.flash[i] = BlankWord

\* Words below p are programmed.
Below(m, p) == \A i \in Working : m.flash[i] = IF i < p THEN WordAt(i) ELSE BlankWord

\* The page buffer holds the first n words of the page at p.
Buffered(m, p, n) == \A i \in 0 .. (n - 1) : m.page[i] = WordAt(p + i)

LoadPart ==
    Phase = "pgm_mem" =>
        /\ waddr <= D!Padded
        /\ Below(mem, PageOf(waddr)) /\ Buffered(mem, PageOf(waddr), waddr % SPM_PS_WORDS)
        /\ (waddr = 0 /\ eraseMsg = "Okay") =>
               /\ \A i \in Pages : mem.flash[i] = BlankWord
               /\ \A i \in 0 .. (D!EEP_SZ - 1) : mem.eep[i] = 255

WritePart ==
    Phase = "write_page" =>
        /\ waddr < D!Padded /\ waddr % SPM_PS_WORDS = SPM_PS_WORDS - 1
        /\ Below(mem, PageOf(waddr)) /\ Buffered(mem, PageOf(waddr), SPM_PS_WORDS)

OkPart ==
    Phase = "pgm_ok" =>
        /\ waddr <= Len(code)
        /\ \A i \in 0 .. (waddr - 1) : mem.flash[i] = WordAt(i)
        /\ Below(mem, SPM_SZ_WORDS)

DonePart ==
    pgmMsg # "none" =>
        /\ (pgmMsg = "Okay") = (\A i \in 0 .. (Len(code) - 1) : mem.flash[i] = WordAt(i))
        /\ Below(mem, SPM_SZ_WORDS)

DemoInv == /\ DemoType /\ DemoPhase
           /\ ErasePart /\ LoadPart /\ WritePart /\ OkPart /\ DonePart

LEMMA Sizes ==
    /\ SPM_PS_WORDS \in Nat \ {0} /\ SPM_SZ_WORDS \in Nat /\ EepBytes \in Nat
    /\ D!EEP_SZ \in 0 .. EepBytes
    /\ Len(code) \in 1 .. SPM_SZ_WORDS
    /\ \E k \in Nat : SPM_SZ_WORDS = SPM_PS_WORDS * k
<1>1. PICK k \in 1 .. 128 : SPM_SZ_WORDS = k * SPM_PS_WORDS
  BY ChipAssumption
<1>2. PICK j \in 1 .. 128 : EepBytes = j * E2PAGESIZE
  BY ChipAssumption
<1>3. SPM_PS_WORDS \in Nat \ {0} /\ E2PAGESIZE \in Nat
  BY ChipAssumption
<1>4. k * SPM_PS_WORDS \in Nat /\ k * SPM_PS_WORDS = SPM_PS_WORDS * k /\ j * E2PAGESIZE \in Nat
  BY <1>3
<1>5. SPM_SZ_WORDS \in Nat /\ EepBytes \in Nat /\ SPM_SZ_WORDS = SPM_PS_WORDS * k
  BY <1>1, <1>2, <1>4
<1>6. D!EEP_SZ \in 0 .. EepBytes
  BY <1>5 DEF D!EEP_SZ
<1>7. Len(code) \in 1 .. SPM_SZ_WORDS
  BY <1>5, BoardAssumption
<1>8. QED
  BY <1>3, <1>5, <1>6, <1>7

LEMMA PageFacts ==
    ASSUME NEW a \in Nat
    PROVE  /\ PageOf(a) \in Nat /\ a % SPM_PS_WORDS \in 0 .. (SPM_PS_WORDS - 1)
           /\ a = PageOf(a) + (a % SPM_PS_WORDS)
           /\ \E q \in Nat : PageOf(a) = SPM_PS_WORDS * q
<1> DEFINE ps == SPM_PS_WORDS
           q == a \div ps
<1>1. ps \in Nat \ {0}
  BY Sizes
<1>2. a % ps \in 0 .. (ps - 1) /\ q \in Int /\ a = ps * q + (a % ps)
  BY <1>1, Remainder
<1>3. q \in Nat
  BY <1>1
<1>4. PageOf(a) = ps * q /\ ps * q \in Nat
  BY <1>1, <1>3 DEF PageOf
<1>5. QED
  BY <1>2, <1>3, <1>4

\* A word is in the page that starts at the multiple of the size below it.
LEMMA PageIs ==
    ASSUME NEW a \in Nat, NEW q \in Nat, SPM_PS_WORDS * q <= a, a < SPM_PS_WORDS * q + SPM_PS_WORDS
    PROVE  PageOf(a) = SPM_PS_WORDS * q /\ a % SPM_PS_WORDS = a - (SPM_PS_WORDS * q)
<1> DEFINE ps == SPM_PS_WORDS
           r == a - (ps * q)
<1>1. ps \in Nat \ {0} /\ ps * q \in Nat
  BY Sizes
<1>2. r \in 0 .. (ps - 1) /\ a = ps * q + r
  BY <1>1
<1>3. a \div ps = q /\ a % ps = r
  BY <1>1, <1>2, Quotient
<1>4. QED
  BY <1>1, <1>3 DEF PageOf

LEMMA InPage ==
    ASSUME NEW a \in Nat, NEW b \in Nat
    PROVE  /\ (PageOf(a) = PageOf(b)) <=> (PageOf(b) <= a /\ a < PageOf(b) + SPM_PS_WORDS)
           /\ PageOf(a) = PageOf(b) => a % SPM_PS_WORDS = a - PageOf(b)
<1>1. PICK q \in Nat : PageOf(b) = SPM_PS_WORDS * q
  BY PageFacts
<1>2. /\ PageOf(a) \in Nat /\ PageOf(b) \in Nat /\ SPM_PS_WORDS \in Nat \ {0}
      /\ a % SPM_PS_WORDS \in 0 .. (SPM_PS_WORDS - 1) /\ a = PageOf(a) + (a % SPM_PS_WORDS)
  BY PageFacts, Sizes
<1>3. PageOf(b) <= a /\ a < PageOf(b) + SPM_PS_WORDS
          => PageOf(a) = PageOf(b)
  BY <1>1, PageIs
<1>4. QED
  BY <1>2, <1>3

LEMMA NextWord ==
    ASSUME NEW a \in Nat
    PROVE  /\ a % SPM_PS_WORDS # SPM_PS_WORDS - 1 =>
                  PageOf(a + 1) = PageOf(a) /\ (a + 1) % SPM_PS_WORDS = (a % SPM_PS_WORDS) + 1
           /\ a % SPM_PS_WORDS = SPM_PS_WORDS - 1 =>
                  /\ PageOf(a + 1) = a + 1 /\ (a + 1) % SPM_PS_WORDS = 0
                  /\ PageOf(a) + SPM_PS_WORDS = a + 1
<1> DEFINE ps == SPM_PS_WORDS
           r == a % ps
<1>1. PICK q \in Nat : PageOf(a) = ps * q
  BY PageFacts
<1>2. PageOf(a) \in Nat /\ ps \in Nat \ {0} /\ r \in 0 .. (ps - 1) /\ a = PageOf(a) + r
  BY PageFacts, Sizes
<1>3. CASE r # ps - 1
  <2> HIDE DEF r
  <2>0. PageOf(a) <= a + 1 /\ a + 1 < PageOf(a) + ps /\ a + 1 \in Nat
    BY <1>2, <1>3
  <2>1. ps * q <= a + 1 /\ a + 1 < ps * q + ps
    BY <1>1, <2>0
  <2>2. PageOf(a + 1) = ps * q /\ (a + 1) % ps = (a + 1) - (ps * q)
    BY <2>0, <2>1, PageIs
  <2>3. (a + 1) - PageOf(a) = r + 1
    BY <1>2
  <2>4. (a + 1) % ps = r + 1 /\ PageOf(a + 1) = PageOf(a)
    BY <1>1, <2>2, <2>3
  <2>5. QED
    BY <1>3, <2>4 DEF r
<1>4. CASE a % ps = ps - 1
  <2>1. a + 1 = PageOf(a) + ps
    BY <1>2, <1>4
  <2>2. ps * (q + 1) = ps * q + ps /\ q + 1 \in Nat
    BY <1>2
  <2>3. ps * (q + 1) = a + 1 /\ a + 1 \in Nat
    BY <2>1, <2>2, <1>1
  <2>4. ps * (q + 1) <= a + 1 /\ a + 1 < ps * (q + 1) + ps
    BY <2>3, <1>2
  <2>5. PageOf(a + 1) = ps * (q + 1) /\ (a + 1) % ps = (a + 1) - (ps * (q + 1))
    BY <2>2, <2>3, <2>4, PageIs
  <2>6. QED
    BY <1>4, <2>1, <2>3, <2>5
<1>5. QED
  BY <1>3, <1>4

\* code[] with what fills its last page fits the flash.
LEMMA PaddedCode ==
    /\ D!Padded \in Nat /\ Len(code) <= D!Padded /\ D!Padded <= SPM_SZ_WORDS
    /\ PageOf(D!Padded) = D!Padded /\ PageOf(0) = 0 /\ 0 % SPM_PS_WORDS = 0
<1> DEFINE ps == SPM_PS_WORDS
           n == Len(code)
           q == (n + ps - 1) \div ps
<1>1. PICK k \in Nat : SPM_SZ_WORDS = ps * k
  BY Sizes
<1>2. ps \in Nat \ {0} /\ n \in 1 .. SPM_SZ_WORDS /\ SPM_SZ_WORDS \in Nat
  BY Sizes
<1>3. n + ps - 1 \in Int
  BY <1>2
<1>4. q \in Int /\ (n + ps - 1) % ps \in 0 .. (ps - 1) /\ n + ps - 1 = ps * q + ((n + ps - 1) % ps)
  BY <1>2, <1>3, Remainder
<1>5. ps * q \in Int /\ n <= ps * q /\ ps * q <= n + ps - 1
  BY <1>2, <1>4
<1>6. q \in Nat
  BY <1>2, <1>4, <1>5
<1>7. D!Padded = ps * q
  BY <1>2, <1>6 DEF D!Padded, D!CODE_SZ_WORDS
<1>8. q <= k
  <2>1. SUFFICES ASSUME k + 1 <= q PROVE FALSE
    BY <1>6
  <2>2. ps * (k + 1) <= ps * q
    BY <2>1, <1>2, <1>6
  <2>3. ps * (k + 1) = ps * k + ps
    BY <1>2
  <2>4. QED
    BY <2>2, <2>3, <1>1, <1>2, <1>5
<1>9. ps * q <= ps * k
  BY <1>2, <1>6, <1>8
<1>10. PageOf(ps * q) = ps * q
  BY <1>2, <1>5, <1>6, PageIs
<1>11. PageOf(0) = 0 /\ 0 % ps = 0
  <2>1. ps * 0 = 0 /\ 0 < 0 + ps
    BY <1>2
  <2>2. PageOf(0) = ps * 0 /\ 0 % ps = 0 - (ps * 0)
    BY <2>1, PageIs
  <2>3. QED
    BY <2>1, <2>2
<1>12. QED
  BY <1>1, <1>5, <1>6, <1>7, <1>9, <1>10, <1>11

\* Flash, page buffer and EEPROM of the memories m.
Holds(m, flash, page_, eep) ==
    DOMAIN m = Fields /\ m.flash = flash /\ m.page = page_ /\ m.eep = eep

LEMMA WornIs ==
    ASSUME NEW m, NEW flash, NEW page_, NEW eep, Holds(m, flash, page_, eep)
    PROVE  Holds(D!Worn(m),
                 [i \in DOMAIN flash |-> IF i \in bench.flash THEN mem.flash[i] ELSE flash[i]],
                 page_,
                 [i \in DOMAIN eep |-> IF i \in bench.eep THEN mem.eep[i] ELSE eep[i]])
BY DEF Holds, Fields, D!Worn

LEMMA ErasedIs ==
    ASSUME DOMAIN mem = Fields
    PROVE  Holds(D!Erased(mem), [i \in Pages |-> BlankWord], mem.page, [i \in 0 .. (EepBytes - 1) |-> 255])
BY DEF Holds, Fields, D!Erased, D!Blank, D!BlankWord, BlankWord, Pages

LEMMA ErasedWorn ==
    ASSUME DOMAIN mem = Fields
    PROVE  Holds(D!Worn(D!Erased(mem)),
                 [i \in Pages |-> IF i \in bench.flash THEN mem.flash[i] ELSE BlankWord],
                 mem.page,
                 [i \in 0 .. (EepBytes - 1) |-> IF i \in bench.eep THEN mem.eep[i] ELSE 255])
<1> DEFINE blank == [i \in Pages |-> BlankWord]
           gone == [i \in 0 .. (EepBytes - 1) |-> 255]
           erased == D!Erased(mem)
<1>0. Holds(erased, blank, mem.page, gone)
  BY ErasedIs
<1> HIDE DEF blank, gone, erased
<1>1. Holds(D!Worn(erased),
            [i \in DOMAIN blank |-> IF i \in bench.flash THEN mem.flash[i] ELSE blank[i]],
            mem.page,
            [i \in DOMAIN gone |-> IF i \in bench.eep THEN mem.eep[i] ELSE gone[i]])
  BY <1>0, WornIs
<1>2. /\ [i \in DOMAIN blank |-> IF i \in bench.flash THEN mem.flash[i] ELSE blank[i]]
             = [i \in Pages |-> IF i \in bench.flash THEN mem.flash[i] ELSE BlankWord]
      /\ [i \in DOMAIN gone |-> IF i \in bench.eep THEN mem.eep[i] ELSE gone[i]]
             = [i \in 0 .. (EepBytes - 1) |-> IF i \in bench.eep THEN mem.eep[i] ELSE 255]
  BY DEF blank, gone
<1>3. QED
  BY <1>1, <1>2 DEF erased

LEMMA LoadedIs ==
    ASSUME DOMAIN mem = Fields, NEW w
    PROVE  Holds(D!PageLoaded(mem, waddr, w),
                 mem.flash, [mem.page EXCEPT ![waddr % SPM_PS_WORDS] = w], mem.eep)
BY DEF Holds, Fields, D!PageLoaded

LEMMA SameBurn ==
    ASSUME NEW x, NEW y
    PROVE  /\ y = BlankWord => D!Burn(x, y) = x
           /\ x = BlankWord => D!Burn(x, y) = y
BY DEF D!Burn, D!BlankWord, BlankWord

\* What write_pgm_mem_page() makes of word i, when it works.
Burnt(i) == IF PageOf(i) = PageOf(waddr) THEN D!Burn(mem.flash[i], mem.page[i % SPM_PS_WORDS])
            ELSE mem.flash[i]

LEMMA WrittenIs ==
    ASSUME MemForm
    PROVE  Holds(D!PageWritten(mem, waddr), [i \in Pages |-> Burnt(i)],
                 [i \in 0 .. (SPM_PS_WORDS - 1) |-> BlankWord], mem.eep)
<1>1. DOMAIN mem.flash = Pages /\ DOMAIN mem = Fields
  BY DEF MemForm
<1>2. QED
  BY <1>1 DEF Holds, Fields, D!PageWritten, D!Blank, D!BlankWord, BlankWord, D!PageOf, PageOf, Burnt

LEMMA WrittenWorn ==
    ASSUME MemForm
    PROVE  Holds(D!Worn(D!PageWritten(mem, waddr)),
                 [i \in Pages |-> IF i \in bench.flash THEN mem.flash[i] ELSE Burnt(i)],
                 [i \in 0 .. (SPM_PS_WORDS - 1) |-> BlankWord],
                 mem.eep)
<1> DEFINE flash == [i \in Pages |-> Burnt(i)]
           page_ == [i \in 0 .. (SPM_PS_WORDS - 1) |-> BlankWord]
           written == D!PageWritten(mem, waddr)
<1>0. Holds(written, flash, page_, mem.eep)
  BY WrittenIs
<1> HIDE DEF flash, page_, written
<1>1. Holds(D!Worn(written),
            [i \in DOMAIN flash |-> IF i \in bench.flash THEN mem.flash[i] ELSE flash[i]],
            page_,
            [i \in DOMAIN mem.eep |-> IF i \in bench.eep THEN mem.eep[i] ELSE mem.eep[i]])
  BY <1>0, WornIs
<1>2. [i \in DOMAIN flash |-> IF i \in bench.flash THEN mem.flash[i] ELSE flash[i]]
          = [i \in Pages |-> IF i \in bench.flash THEN mem.flash[i] ELSE Burnt(i)]
  BY DEF flash
<1>3. [i \in DOMAIN mem.eep |-> IF i \in bench.eep THEN mem.eep[i] ELSE mem.eep[i]] = mem.eep
  BY DEF MemForm
<1>4. QED
  BY <1>1, <1>2, <1>3 DEF page_, written

LEMMA ChangedForm ==
    ASSUME NEW flash, NEW page_, NEW eep, Holds(mem', flash, page_, eep),
           flash = [i \in Pages |-> flash[i]],
           page_ = [i \in 0 .. (SPM_PS_WORDS - 1) |-> page_[i]],
           eep = [i \in 0 .. (EepBytes - 1) |-> eep[i]]
    PROVE  MemForm'
BY DEF MemForm, Holds, Fields, Pages

-----------------------------------------------------------------------------
Behind == {"loop", "first lock", "first fuse", "cali", "pgm_mem", "fuse", "lock", "end"}

\* Waiting for the switch changes nothing, whatever its contact does.
LEMMA SamePhase ==
    ASSUME DemoInv, UNCHANGED <<waddr, addr, mem, bench, eraseMsg, pgmMsg>>, Phase' = Phase,
           after' = after
    PROVE  DemoInv'
<1>1. MemForm' /\ DemoType'
  BY DEF DemoInv, DemoType, MemForm, Pages
<1>2. DemoPhase' /\ ErasePart'
  BY DEF DemoInv, DemoPhase, ErasePart, Working, Pages, D!EEP_SZ
<1>3. LoadPart'
  BY DEF DemoInv, LoadPart, Below, Buffered, Working, Pages, PageOf, D!EEP_SZ, D!Padded, D!CODE_SZ_WORDS, WordAt
<1>4. WritePart' /\ OkPart'
  BY DEF DemoInv, WritePart, OkPart, Below, Buffered, Working, Pages, PageOf, D!Padded, D!CODE_SZ_WORDS, WordAt
<1>5. DonePart'
  BY DEF DemoInv, DonePart, Below, Working, Pages, WordAt
<1>6. QED
  BY <1>1, <1>2, <1>3, <1>4, <1>5 DEF DemoInv

\* Between sessions, and between a result and the next session, the memories rest.
LEMMA Quiet ==
    ASSUME DemoInv, UNCHANGED <<mem, bench>>, waddr' \in Nat, addr' \in Nat, after' \in Behind,
           Phase' \notin {"erase_ok", "pgm_mem", "write_page", "pgm_ok"},
           pgmMsg' = "none" \/ (pgmMsg' = pgmMsg /\ Phase' \in Passing)
    PROVE  DemoInv'
<1>1. MemForm' /\ DemoType'
  BY DEF DemoInv, DemoType, MemForm, Pages, Behind
<1>2. DemoPhase' /\ ErasePart' /\ LoadPart' /\ WritePart' /\ OkPart'
  BY ZenonT(60) DEF DemoPhase, ErasePart, LoadPart, WritePart, OkPart, Passing
<1>3. DonePart'
  BY DEF DemoInv, DonePart, Below, Working, Pages, WordAt
<1>4. QED
  BY <1>1, <1>2, <1>3 DEF DemoInv

LEMMA DemoErase ==
    ASSUME DemoInv, D!EraseChip
    PROVE  DemoInv'
<1>1. /\ Phase = "erase" /\ Phase' = "erase_ok" /\ waddr' = 0 /\ addr' = 0
      /\ UNCHANGED <<after, bench, eraseMsg, pgmMsg>> /\ mem' = D!Worn(D!Erased(mem))
  BY DEF D!EraseChip, D!Settle, Phase
<1>2. MemForm
  BY DEF DemoInv, DemoType
<1>3. Holds(mem', [i \in Pages |-> IF i \in bench.flash THEN mem.flash[i] ELSE BlankWord], mem.page,
            [i \in 0 .. (EepBytes - 1) |-> IF i \in bench.eep THEN mem.eep[i] ELSE 255])
  BY <1>1, <1>2, ErasedWorn DEF MemForm
<1>4. MemForm'
  <2>1. /\ [i \in Pages |-> IF i \in bench.flash THEN mem.flash[i] ELSE BlankWord] 
               = [j \in Pages |-> [i \in Pages |-> IF i \in bench.flash THEN mem.flash[i] ELSE BlankWord][j]]
        /\ [i \in 0 .. (EepBytes - 1) |-> IF i \in bench.eep THEN mem.eep[i] ELSE 255]
               = [j \in 0 .. (EepBytes - 1) |->
                    [i \in 0 .. (EepBytes - 1) |-> IF i \in bench.eep THEN mem.eep[i] ELSE 255][j]]
    OBVIOUS
  <2>2. mem.page = [i \in 0 .. (SPM_PS_WORDS - 1) |-> mem.page[i]]
    BY <1>2 DEF MemForm
  <2>3. QED
    BY <1>3, <2>1, <2>2, ChangedForm
<1>5. \A i \in Working' : mem'.flash[i] = BlankWord
  BY <1>1, <1>3 DEF Working, Pages, Holds
<1>6. pgmMsg = "none"
  BY <1>1 DEF DemoInv, DemoPhase, Passing
<1>7. DemoType' /\ DemoPhase' /\ LoadPart' /\ WritePart' /\ OkPart' /\ DonePart'
  BY <1>1, <1>4, <1>6 DEF DemoInv, DemoType, DemoPhase, LoadPart, WritePart, OkPart, DonePart
<1>8. ErasePart'
  BY <1>1, <1>5, Sizes DEF ErasePart, D!EEP_SZ
<1>9. QED
  BY <1>7, <1>8 DEF DemoInv

LEMMA ReportTo ==
    ASSUME NEW next_ \in {"pgm_mem", "fuse", "end"}, D!Report(next_)
    PROVE  Phase' = next_ /\ (after' = after \/ after' = next_)
BY DEF D!Report, Phase

\* A result of erase_ok(): what it has seen is still there when pgm_mem() starts.
LEMMA DemoEraseOk ==
    ASSUME DemoInv, D!EraseOkFlash \/ D!EraseOkEep
    PROVE  DemoInv'
<1> USE DEF Pages, Working
<1>0. /\ Phase = "erase_ok" /\ UNCHANGED <<mem, bench, pgmMsg>>
  BY DEF D!EraseOkFlash, D!EraseOkEep, Phase
<1>1. /\ Phase = "erase_ok" /\ UNCHANGED <<mem, bench, pgmMsg>>
      /\ MemForm /\ waddr \in Nat /\ addr \in Nat /\ SPM_SZ_WORDS \in Nat
      /\ D!EEP_SZ \in Nat /\ D!EEP_SZ' = D!EEP_SZ
      /\ pgmMsg = "none"
  <2>1. MemForm /\ waddr \in Nat /\ addr \in Nat
    BY DEF DemoInv, DemoType
  <2>2. pgmMsg = "none"
    BY <1>0 DEF DemoInv, DemoPhase, Passing
  <2>3. SPM_SZ_WORDS \in Nat /\ D!EEP_SZ \in Nat /\ D!EEP_SZ' = D!EEP_SZ
    BY Sizes DEF D!EEP_SZ
  <2>4. QED
    BY <1>0, <2>1, <2>2, <2>3
<1>2. /\ waddr <= SPM_SZ_WORDS /\ addr <= D!EEP_SZ /\ (waddr < SPM_SZ_WORDS => addr = 0)
      /\ \A i \in 0 .. (waddr - 1) : mem.flash[i] = BlankWord
      /\ \A i \in 0 .. (addr - 1) : mem.eep[i] = 255
      /\ \A i \in Working : mem.flash[i] = BlankWord
  BY <1>1 DEF DemoInv, ErasePart
<1>3. MemForm'
  BY <1>1 DEF MemForm
<1>4. CASE Phase' = "erase_ok"
  <2>1. after' = after /\ UNCHANGED eraseMsg
    BY <1>4, ReportTo DEF D!EraseOkFlash, D!EraseOkEep
  <2>2. \/ waddr < SPM_SZ_WORDS /\ mem.flash[waddr] = BlankWord /\ waddr' = waddr + 1 /\ addr' = addr
        \/ /\ waddr = SPM_SZ_WORDS /\ addr < D!EEP_SZ /\ mem.eep[addr] = 255
           /\ addr' = addr + 1 /\ waddr' = waddr
    BY <1>4, ReportTo DEF D!EraseOkFlash, D!EraseOkEep, D!BlankWord, BlankWord
  <2>3. /\ waddr' \in Nat /\ addr' \in Nat
        /\ waddr' <= SPM_SZ_WORDS /\ addr' <= D!EEP_SZ /\ (waddr' < SPM_SZ_WORDS => addr' = 0)
        /\ \A i \in 0 .. (waddr' - 1) : mem.flash[i] = BlankWord
        /\ \A i \in 0 .. (addr' - 1) : mem.eep[i] = 255
    BY <1>1, <1>2, <2>2
  <2>4. ErasePart'
    BY <1>1, <1>2, <2>3, ZenonT(60) DEF ErasePart
  <2>5. DemoType' /\ DemoPhase' /\ LoadPart' /\ WritePart' /\ OkPart' /\ DonePart'
    BY <1>1, <1>3, <1>4, <2>1, <2>3 DEF DemoInv, DemoType, DemoPhase, LoadPart, WritePart, OkPart, DonePart
  <2>6. QED
    BY <2>4, <2>5 DEF DemoInv
<1>5. CASE Phase' # "erase_ok"
  <2>1. /\ waddr' = 0 /\ addr' = addr /\ Phase' = "pgm_mem" /\ after' \in {after, "pgm_mem"}
        /\ eraseMsg' = "Okay" => waddr = SPM_SZ_WORDS /\ addr = D!EEP_SZ
    BY <1>1, <1>2, <1>5, ReportTo DEF D!EraseOkFlash, D!EraseOkEep, Phase
  <2>2. Below(mem, 0)
    BY <1>1, <1>2 DEF Below
  <2>3. Below(mem', 0)
    BY <1>1, <2>2 DEF Below, WordAt
  <2>4. LoadPart'
    <3>1. PageOf(waddr') = 0 /\ waddr' % SPM_PS_WORDS = 0 /\ waddr' <= D!Padded'
      BY <2>1, PaddedCode DEF D!Padded, D!CODE_SZ_WORDS
    <3>2. Buffered(mem', 0, 0)
      BY DEF Buffered
    <3>3. eraseMsg' = "Okay" => /\ \A i \in Pages : mem'.flash[i] = BlankWord
                                /\ \A i \in 0 .. (D!EEP_SZ' - 1) : mem'.eep[i] = 255
      BY <1>1, <1>2, <2>1
    <3>4. QED
      BY <1>1, <2>1, <2>3, <3>1, <3>2, <3>3 DEF LoadPart, Below, Buffered, PageOf, WordAt
  <2>5. DemoType' /\ DemoPhase' /\ ErasePart' /\ WritePart' /\ OkPart' /\ DonePart'
    BY <1>1, <1>3, <2>1 DEF DemoInv, DemoType, DemoPhase, ErasePart, WritePart, OkPart, DonePart
  <2>6. QED
    BY <2>4, <2>5 DEF DemoInv
<1>6. QED
  BY <1>4, <1>5

LEMMA CodeWord ==
    ASSUME NEW i \in Nat
    PROVE  (IF i < D!CODE_SZ_WORDS THEN code[i + 1] ELSE D!BlankWord) = WordAt(i)
BY DEF D!CODE_SZ_WORDS, D!BlankWord, BlankWord, WordAt

LEMMA DemoLoad ==
    ASSUME DemoInv, D!LoadWord
    PROVE  DemoInv'
<1> DEFINE ps == SPM_PS_WORDS
           p == PageOf(waddr)
           n == waddr % ps
<1>1. /\ pc = "pgm_mem" /\ waddr < D!Padded /\ UNCHANGED <<after, addr, bench, eraseMsg, pgmMsg>>
      /\ Phase = "pgm_mem" /\ waddr \in Nat /\ addr \in Nat /\ MemForm
      /\ D!Padded \in Nat /\ D!Padded' = D!Padded
  BY PaddedCode DEF D!LoadWord, Phase, DemoInv, DemoType, D!Padded, D!CODE_SZ_WORDS
<1>2. pgmMsg = "none"
  BY <1>1 DEF DemoInv, DemoPhase, Passing
<1>3. /\ p \in Nat /\ n \in 0 .. (ps - 1) /\ waddr = p + n /\ ps \in Nat \ {0} /\ p' = PageOf(waddr')
  BY <1>1, PageFacts, Sizes DEF PageOf
<1>4. Below(mem, p) /\ Buffered(mem, p, n)
  BY <1>1 DEF DemoInv, LoadPart
<1>5. Holds(mem', mem.flash, [mem.page EXCEPT ![n] = WordAt(waddr)], mem.eep)
  <2>1. mem' = D!PageLoaded(mem, waddr, WordAt(waddr))
    BY <1>1, CodeWord DEF D!LoadWord
  <2>2. QED
    BY <2>1, <1>1, LoadedIs DEF MemForm
<1>6. MemForm'
  <2>1. [mem.page EXCEPT ![n] = WordAt(waddr)]
            = [j \in 0 .. (ps - 1) |-> [mem.page EXCEPT ![n] = WordAt(waddr)][j]]
    BY <1>1 DEF MemForm
  <2>2. mem.flash = [i \in Pages |-> mem.flash[i]] /\ mem.eep = [i \in 0 .. (EepBytes - 1) |-> mem.eep[i]]
    BY <1>1 DEF MemForm
  <2>3. QED
    BY <1>5, <2>1, <2>2, ChangedForm
<1>7. \A i \in 0 .. n : mem'.page[i] = WordAt(p + i)
  <2>1. DOMAIN mem.page = 0 .. (ps - 1)
    BY <1>1 DEF MemForm
  <2>2. mem'.page[n] = WordAt(p + n)
    BY <1>3, <1>5, <2>1 DEF Holds
  <2>3. ASSUME NEW i \in 0 .. (n - 1) PROVE mem'.page[i] = WordAt(p + i)
    <3>1. i # n /\ i \in 0 .. (ps - 1)
      BY <1>3
    <3>2. mem'.page[i] = mem.page[i]
      BY <3>1, <1>5, <2>1 DEF Holds
    <3>3. QED
      BY <3>2, <1>4 DEF Buffered
  <2>4. QED
    BY <1>3, <2>2, <2>3
<1>8. mem'.flash = mem.flash /\ Below(mem', p)
  <2>1. mem'.flash = mem.flash
    BY <1>5 DEF Holds
  <2>2. QED
    BY <1>1, <1>4, <2>1 DEF Below, Working, Pages, WordAt
<1>9. DemoType' /\ DemoPhase' /\ ErasePart' /\ OkPart' /\ DonePart'
  <2>1. Phase' \in {"pgm_mem", "write_page"} /\ waddr' \in Nat /\ pc' = Phase'
    BY <1>1 DEF D!LoadWord, Phase
  <2>2. QED
    BY <1>1, <1>2, <1>6, <2>1 DEF DemoInv, DemoType, DemoPhase, ErasePart, OkPart, DonePart
<1>10. CASE n = ps - 1
  <2>1. Phase' = "write_page" /\ waddr' = waddr
    BY <1>1, <1>10 DEF D!LoadWord, D!PageEnd, Phase
  <2>2. Buffered(mem', p, ps)
    <3>1. \A i \in 0 .. (ps - 1) : mem'.page[i] = WordAt(p + i)
      BY <1>7, <1>10
    <3>2. QED
      BY <3>1 DEF Buffered
  <2>3. WritePart' /\ LoadPart'
    BY <1>1, <1>8, <1>10, <2>1, <2>2 DEF WritePart, LoadPart, Below, Buffered, Working, Pages, PageOf, WordAt
  <2>4. QED
    BY <1>9, <2>3 DEF DemoInv
<1>11. CASE n # ps - 1
  <2>1. Phase' = "pgm_mem" /\ waddr' = waddr + 1
    BY <1>1, <1>11 DEF D!LoadWord, D!PageEnd, Phase
  <2>2. PageOf(waddr') = p /\ waddr' % ps = n + 1
    BY <1>1, <1>11, <2>1, NextWord
  <2>3. \A i \in 0 .. ((n + 1) - 1) : mem'.page[i] = WordAt(p + i)
    BY <1>3, <1>7
  <2>4. Buffered(mem', p, n + 1)
    BY <2>3 DEF Buffered
  <2>5. waddr' <= D!Padded' /\ waddr' # 0
    BY <1>1, <2>1
  <2>6. LoadPart' /\ WritePart'
    BY <1>1, <1>8, <2>1, <2>2, <2>4, <2>5 DEF LoadPart, WritePart, Below, Buffered, Working, Pages, PageOf, WordAt
  <2>7. QED
    BY <1>9, <2>6 DEF DemoInv
<1>12. QED
  BY <1>10, <1>11

LEMMA DemoWrite ==
    ASSUME DemoInv, D!WritePage
    PROVE  DemoInv'
<1> DEFINE ps == SPM_PS_WORDS
           p == PageOf(waddr)
<1>1. /\ pc = "write_page" /\ Phase = "write_page" /\ pc' = "pgm_mem" /\ Phase' = "pgm_mem"
      /\ waddr' = waddr + 1 /\ mem' = D!Worn(D!PageWritten(mem, waddr))
      /\ UNCHANGED <<after, addr, bench, eraseMsg, pgmMsg>>
      /\ waddr \in Nat /\ addr \in Nat /\ MemForm
      /\ D!Padded \in Nat /\ D!Padded' = D!Padded
  BY PaddedCode DEF D!WritePage, Phase, DemoInv, DemoType, D!Padded, D!CODE_SZ_WORDS
<1>2. pgmMsg = "none"
  BY <1>1 DEF DemoInv, DemoPhase, Passing
<1>3. /\ waddr < D!Padded /\ waddr % ps = ps - 1
      /\ Below(mem, p) /\ Buffered(mem, p, ps)
  BY <1>1 DEF DemoInv, WritePart
<1>4. /\ p \in Nat /\ ps \in Nat \ {0} /\ SPM_SZ_WORDS \in Nat
      /\ PageOf(waddr + 1) = waddr + 1 /\ (waddr + 1) % ps = 0 /\ p + ps = waddr + 1
  BY <1>1, <1>3, PageFacts, NextWord, Sizes
<1>5. Holds(mem', [i \in Pages |-> IF i \in bench.flash THEN mem.flash[i] ELSE Burnt(i)],
            [i \in 0 .. (ps - 1) |-> BlankWord], mem.eep)
  BY <1>1, WrittenWorn
<1>6. MemForm'
  <2>1. /\ [i \in Pages |-> IF i \in bench.flash THEN mem.flash[i] ELSE Burnt(i)]
               = [j \in Pages |-> [i \in Pages |-> IF i \in bench.flash THEN mem.flash[i] ELSE Burnt(i)][j]]
        /\ [i \in 0 .. (ps - 1) |-> BlankWord] = [j \in 0 .. (ps - 1) |-> [i \in 0 .. (ps - 1) |-> BlankWord][j]]
    OBVIOUS
  <2>2. mem.eep = [i \in 0 .. (EepBytes - 1) |-> mem.eep[i]]
    BY <1>1 DEF MemForm
  <2>3. QED
    BY <1>5, <2>1, <2>2, ChangedForm
<1>7. ASSUME NEW i \in Working
      PROVE  mem'.flash[i] = IF i < p + ps THEN WordAt(i) ELSE BlankWord
  <2>1. i \in Pages /\ i \in Nat /\ mem'.flash[i] = Burnt(i)
    BY <1>4, <1>5 DEF Working, Pages, Holds
  <2>2. mem.flash[i] = IF i < p THEN WordAt(i) ELSE BlankWord
    BY <1>3 DEF Below
  <2>3. /\ PageOf(i) = p <=> (p <= i /\ i < p + ps)
        /\ PageOf(i) = p => i % ps = i - p
    BY <1>1, <2>1, InPage
  <2>4. CASE PageOf(i) = p
    <3>1. mem.flash[i] = BlankWord /\ i - p \in 0 .. (ps - 1) /\ p + (i - p) = i
      BY <1>4, <2>1, <2>2, <2>3, <2>4
    <3>2. mem.page[i % ps] = WordAt(i)
      BY <1>3, <2>3, <2>4, <3>1 DEF Buffered
    <3>3. Burnt(i) = WordAt(i)
      BY <2>4, <3>1, <3>2, SameBurn DEF Burnt
    <3>4. QED
      BY <2>1, <2>3, <2>4, <3>3
  <2>5. CASE PageOf(i) # p
    <3>1. Burnt(i) = mem.flash[i]
      BY <2>5 DEF Burnt
    <3>2. (i < p) <=> (i < p + ps)
      BY <1>4, <2>1, <2>3, <2>5
    <3>3. QED
      BY <2>1, <2>2, <3>1, <3>2
  <2>6. QED
    BY <2>4, <2>5
<1>8. Below(mem', waddr')
  BY <1>1, <1>4, <1>7 DEF Below
<1>9. LoadPart'
  <2>1. waddr' <= D!Padded' /\ waddr' # 0 /\ PageOf(waddr') = waddr' /\ waddr' % ps = 0
    BY <1>1, <1>3, <1>4
  <2>2. Buffered(mem', waddr', 0)
    BY DEF Buffered
  <2>3. QED
    BY <1>1, <1>8, <2>1, <2>2 DEF LoadPart, Below, Buffered, Working, Pages, PageOf, WordAt
<1>10. DemoType' /\ DemoPhase' /\ ErasePart' /\ WritePart' /\ OkPart' /\ DonePart'
  <2>1. waddr' \in Nat
    BY <1>1
  <2>2. DemoType'
    BY <1>1, <1>6, <2>1 DEF DemoInv, DemoType
  <2>3. QED
    BY <1>1, <1>2, <2>2 DEF DemoPhase, ErasePart, WritePart, OkPart, DonePart
<1>11. QED
  BY <1>9, <1>10 DEF DemoInv

LEMMA DemoProgrammed ==
    ASSUME DemoInv, D!Programmed
    PROVE  DemoInv'
<1>1. /\ Phase = "pgm_mem" /\ Phase' = "pgm_ok" /\ waddr = D!Padded /\ waddr' = 0
      /\ UNCHANGED <<after, addr, mem, bench, eraseMsg, pgmMsg>>
  BY DEF D!Programmed, D!Settle, Phase
<1>2. MemForm' /\ addr \in Nat
  BY <1>1 DEF DemoInv, DemoType, MemForm, Pages
<1>3. pgmMsg = "none"
  BY <1>1 DEF DemoInv, DemoPhase, Passing
<1>4. Below(mem, D!Padded)
  BY <1>1, PaddedCode DEF DemoInv, LoadPart
<1>5. Below(mem', SPM_SZ_WORDS)
  <2>1. SUFFICES ASSUME NEW i \in Working
                 PROVE  mem.flash[i] = IF i < SPM_SZ_WORDS THEN WordAt(i) ELSE BlankWord
    BY <1>1 DEF Below
  <2>2. i \in Nat /\ i < SPM_SZ_WORDS /\ Len(code) \in Nat
    BY Sizes DEF Working, Pages
  <2>3. mem.flash[i] = IF i < D!Padded THEN WordAt(i) ELSE BlankWord
    BY <1>4 DEF Below
  <2>4. i >= D!Padded => WordAt(i) = BlankWord
    BY <2>2, PaddedCode DEF WordAt
  <2>5. QED
    BY <2>2, <2>3, <2>4, PaddedCode
<1>6. OkPart'
  <2>1. waddr' <= Len(code)' /\ \A i \in 0 .. (waddr' - 1) : mem'.flash[i] = WordAt(i)
    BY <1>1, Sizes
  <2>2. QED
    BY <1>1, <1>5, <2>1 DEF OkPart, Below, Working, Pages, WordAt
<1>7. DemoType' /\ DemoPhase' /\ ErasePart' /\ LoadPart' /\ WritePart' /\ DonePart'
  BY <1>1, <1>2, <1>3 DEF DemoInv, DemoType, DemoPhase, ErasePart, LoadPart, WritePart, DonePart
<1>8. QED
  BY <1>6, <1>7 DEF DemoInv

LEMMA DemoPgmOk ==
    ASSUME DemoInv, D!PgmOk
    PROVE  DemoInv'
<1> DEFINE same == \A i \in 0 .. (Len(code) - 1) : mem.flash[i] = WordAt(i)
<1>1. /\ Phase = "pgm_ok" /\ UNCHANGED <<addr, mem, bench, eraseMsg>>
  BY DEF D!PgmOk, Phase
<1>2. MemForm' /\ addr \in Nat /\ waddr \in Nat /\ Len(code) \in Nat
  <2>1. MemForm'
    BY <1>1 DEF DemoInv, DemoType, MemForm, Pages
  <2>2. addr \in Nat /\ waddr \in Nat
    BY DEF DemoInv, DemoType
  <2>3. QED
    BY <2>1, <2>2, Sizes
<1>3. pgmMsg = "none"
  BY <1>1 DEF DemoInv, DemoPhase, Passing
<1>4. /\ waddr <= Len(code) /\ Below(mem, SPM_SZ_WORDS)
      /\ \A i \in 0 .. (waddr - 1) : mem.flash[i] = WordAt(i)
  BY <1>1 DEF DemoInv, OkPart
<1>5. Below(mem', SPM_SZ_WORDS)
  BY <1>1, <1>4 DEF Below
<1>6. CASE waddr < Len(code) /\ mem.flash[waddr] = code[waddr + 1]
  <2>1. waddr' = waddr + 1 /\ UNCHANGED <<pc, after, pgmMsg>> /\ Phase' = "pgm_ok"
    BY <1>1, <1>6 DEF D!PgmOk, D!CODE_SZ_WORDS, Phase
  <2>2. \A i \in 0 .. (waddr' - 1) : mem.flash[i] = WordAt(i)
    BY <1>2, <1>4, <1>6, <2>1 DEF WordAt
  <2>3. OkPart'
    BY <1>1, <1>2, <1>5, <1>6, <2>1, <2>2 DEF OkPart, Below, Working, Pages, WordAt
  <2>4. DemoType' /\ DemoPhase' /\ ErasePart' /\ LoadPart' /\ WritePart' /\ DonePart'
    <3>1. waddr' \in Nat
      BY <1>2, <2>1
    <3>2. DemoType'
      BY <1>1, <1>2, <2>1, <3>1 DEF DemoInv, DemoType
    <3>3. QED
      BY <1>1, <1>3, <2>1, <3>2 DEF DemoPhase, ErasePart, LoadPart, WritePart, DonePart
  <2>5. QED
    BY <2>3, <2>4 DEF DemoInv
<1>7. CASE ~(waddr < Len(code) /\ mem.flash[waddr] = code[waddr + 1])
  <2>1. /\ waddr' = waddr /\ pgmMsg' = IF waddr = Len(code) THEN "Okay" ELSE "Fail"
        /\ D!Report(IF bench.clcd THEN "fuse" ELSE "end")
    BY <1>7 DEF D!PgmOk, D!CODE_SZ_WORDS
  <2>2. Phase' \in {"fuse", "end"} /\ after' \in {after, "fuse", "end"}
    BY <2>1, ReportTo
  <2>3. same <=> waddr = Len(code)
    <3>1. CASE waddr = Len(code)
      BY <1>4, <3>1
    <3>2. CASE waddr < Len(code)
      BY <1>2, <1>7, <3>2 DEF WordAt
    <3>3. QED
      BY <1>2, <1>4, <3>1, <3>2
  <2>4. (pgmMsg' = "Okay") = same
    BY <2>1, <2>3
  <2>5. DonePart'
    BY <1>1, <1>5, <2>4 DEF DonePart, Below, Working, Pages, WordAt
  <2>6. DemoType' /\ DemoPhase' /\ ErasePart' /\ LoadPart' /\ WritePart' /\ OkPart'
    BY <1>1, <1>2, <2>1, <2>2, ZenonT(60)
       DEF DemoInv, DemoType, DemoPhase, Passing, ErasePart, LoadPart, WritePart, OkPart
  <2>7. QED
    BY <2>5, <2>6 DEF DemoInv
<1>8. QED
  BY <1>6, <1>7

LEMMA DemoRest ==
    ASSUME DemoInv,
           \/ D!Executing \/ D!StartSession \/ D!EndSession \/ D!ShowValue \/ D!AwaitPress
           \/ D!AwaitRelease \/ D!Finger \/ D!Bounce \/ D!Restart \/ UNCHANGED D!vars
    PROVE  DemoInv'
<1>1. waddr \in Nat /\ addr \in Nat /\ after \in Behind
  BY DEF DemoInv, DemoType, Behind
<1>2. pgmMsg # "none" => Phase \in Passing
  BY DEF DemoInv, DemoPhase
<1>3. CASE D!Executing \/ D!Finger \/ D!Bounce \/ UNCHANGED D!vars
  <2>1. UNCHANGED <<pc, after, waddr, addr, mem, bench, eraseMsg, pgmMsg>>
    BY <1>3 DEF D!Executing, D!Finger, D!Bounce, D!vars
  <2>2. QED
    BY <2>1, SamePhase DEF Phase
<1>4. CASE D!AwaitPress
  <2>1. /\ UNCHANGED <<after, waddr, addr, mem, bench, eraseMsg, pgmMsg>>
        /\ pc = "press" /\ pc' = "release"
    BY <1>4 DEF D!AwaitPress
  <2>2. QED
    BY <2>1, SamePhase DEF Phase
<1>5. CASE D!AwaitRelease
  <2>1. /\ UNCHANGED <<after, waddr, addr, mem, bench, eraseMsg, pgmMsg>>
        /\ pc = "release" /\ pc' = after
    BY <1>5 DEF D!AwaitRelease
  <2>2. Phase' = Phase
    BY <2>1, <1>1 DEF Phase, Behind
  <2>3. QED
    BY <2>1, <2>2, SamePhase
<1>6. CASE D!StartSession
  <2>1. /\ UNCHANGED <<after, waddr, addr, mem, bench>> /\ pc' = "erase" /\ pgmMsg' = "none"
    BY <1>6 DEF D!StartSession
  <2>2. QED
    BY <2>1, <1>1, Quiet DEF Phase
<1>7. CASE D!EndSession
  <2>1. /\ UNCHANGED <<after, waddr, addr, mem, bench, pgmMsg>> /\ pc' = "loop"
    BY <1>7 DEF D!EndSession
  <2>2. QED
    BY <2>1, <1>1, Quiet DEF Phase, Passing
<1>8. CASE D!Restart
  <2>1. /\ UNCHANGED <<mem, bench>> /\ pc' \in {"sign", "loop"} /\ pgmMsg' = "none"
        /\ waddr' = 0 /\ addr' = 0 /\ after' = "loop"
    BY <1>8 DEF D!Restart, D!Start
  <2>2. QED
    BY <2>1, Quiet DEF Phase, Behind
<1>9. CASE D!ShowValue
  <2>1. /\ UNCHANGED <<waddr, addr, mem, bench, pgmMsg>> /\ pc' = "press"
        /\ pc \in DOMAIN D!Display /\ after' = D!Display[pc]
    BY <1>9 DEF D!ShowValue
  <2>2. /\ pc \in {"sign", "cali", "fuse", "lock", "first lock", "first fuse"}
        /\ after' \in {"first lock", "first fuse", "cali", "loop", "lock", "end"}
        /\ pc \in {"fuse", "lock"} => after' \in {"lock", "end"}
    BY <2>1 DEF D!Display
  <2>3. Phase = pc /\ Phase' = after'
    BY <2>1, <2>2 DEF Phase
  <2>4. after' \in Behind /\ Phase' \notin {"erase_ok", "pgm_mem", "write_page", "pgm_ok"}
    BY <2>2, <2>3 DEF Behind
  <2>5. pgmMsg' = "none" \/ (pgmMsg' = pgmMsg /\ Phase' \in Passing)
    BY <1>2, <2>1, <2>2, <2>3 DEF Passing
  <2>6. QED
    BY <2>1, <2>4, <2>5, <1>1, Quiet
<1>10. QED
  BY <1>3, <1>4, <1>5, <1>6, <1>7, <1>8, <1>9

LEMMA DemoStep ==
    ASSUME DemoInv, [D!Next]_(D!vars)
    PROVE  DemoInv'
BY DemoErase, DemoEraseOk, DemoLoad, DemoWrite, DemoProgrammed, DemoPgmOk, DemoRest DEF D!Next, D!Program

LEMMA DemoInit ==
    ASSUME D!Init
    PROVE  DemoInv
<1>1. /\ pc \in {"sign", "loop"} /\ after = "loop" /\ waddr = 0 /\ addr = 0 /\ pgmMsg = "none"
      /\ mem = [D!Factory EXCEPT !.flash = OldFlash, !.eep = OldEep]
  BY DEF D!Init, D!Start
<1>2. MemForm
  <2>1. /\ OldFlash = [i \in Pages |-> OldFlash[i]]
        /\ OldEep = [i \in 0 .. (EepBytes - 1) |-> OldEep[i]]
    BY BoardAssumption DEF Pages
  <2>2. /\ DOMAIN mem = Fields /\ mem.flash = OldFlash /\ mem.eep = OldEep
        /\ mem.page = [i \in 0 .. (SPM_PS_WORDS - 1) |-> D!BlankWord]
    BY <1>1 DEF D!Factory, D!Blank, Fields
  <2>3. QED
    BY <2>1, <2>2 DEF MemForm
<1>3. Phase \in {"sign", "loop"}
  BY <1>1 DEF Phase
<1>4. QED
  BY <1>1, <1>2, <1>3 DEF DemoInv, DemoType, DemoPhase, ErasePart, LoadPart, WritePart, OkPart, DonePart

LEMMA DemoAlways == FairSpec => [](app = "demo" => DemoInv)
<1>1. Init => (app = "demo" => DemoInv)
  BY DemoInit DEF Init
<1>2. (app = "demo" => DemoInv) /\ [Next]_vars => (app = "demo" => DemoInv)'
  BY AppStep, DemoStep
<1>3. QED
  BY <1>1, <1>2, PTL DEF FairSpec

\* Whatever the target held, whichever of its cells no longer work, wherever a session
\* was cut short: "Program: Okay" says that the flash holds code[], "Fail" that it does
\* not, and "Erase: Okay" that nothing was left.
THEOREM ReportsOfDemo == FairSpec => []ReportsAreTrue
<1>1. (app = "demo" => DemoInv) => ReportsAreTrue
  <2>1. SUFFICES ASSUME app = "demo", DemoInv PROVE D!ReportsAreTrue
    BY DEF ReportsAreTrue
  <2>2. \A i \in 0 .. (Len(code) - 1) : D!Image[i] = WordAt(i)
    BY Sizes DEF D!Image, D!CODE_SZ_WORDS, WordAt
  <2>3. DOMAIN D!Image = 0 .. (Len(code) - 1)
    BY DEF D!Image, D!CODE_SZ_WORDS
  <2>4. pgmMsg # "none" =>
            (pgmMsg = "Okay") = (\A i \in DOMAIN D!Image : mem.flash[i] = D!Image[i])
    BY <2>1, <2>2, <2>3, ZenonT(60) DEF DemoInv, DonePart
  <2>5. (pc = "pgm_mem" /\ waddr = 0 /\ eraseMsg = "Okay") =>
            /\ \A i \in 0 .. (SPM_SZ_WORDS - 1) : mem.flash[i] = D!BlankWord
            /\ \A i \in 0 .. (D!EEP_SZ - 1) : mem.eep[i] = 255
    BY <2>1 DEF DemoInv, LoadPart, Phase, Pages, D!BlankWord, BlankWord
  <2>6. QED
    BY <2>4, <2>5 DEF D!ReportsAreTrue
<1>2. QED
  BY <1>1, DemoAlways, PTL

\* After a report every cell that works holds its word of code[], or 0xFFFF, however
\* often a session was started and cut short before.
THEOREM DemoProgramsGoodCells == FairSpec => []GoodCellsProgrammed
<1>1. (app = "demo" => DemoInv) => GoodCellsProgrammed
  <2>1. SUFFICES ASSUME app = "demo", DemoInv, pgmMsg # "none",
                        NEW i \in 0 .. (SPM_SZ_WORDS - 1) \ bench.flash
                 PROVE  mem.flash[i] = IF i \in DOMAIN D!Image THEN D!Image[i] ELSE D!BlankWord
    BY DEF GoodCellsProgrammed, D!GoodCellsProgrammed
  <2>2. i \in Working /\ i \in Nat /\ i < SPM_SZ_WORDS /\ Len(code) \in Nat
    BY <2>1, Sizes DEF Working, Pages
  <2>3. mem.flash[i] = WordAt(i)
    BY <2>1, <2>2 DEF DemoInv, DonePart, Below
  <2>4. WordAt(i) = IF i \in DOMAIN D!Image THEN D!Image[i] ELSE D!BlankWord
    BY <2>2 DEF WordAt, D!Image, D!CODE_SZ_WORDS, D!BlankWord, BlankWord
  <2>5. QED
    BY <2>3, <2>4
<1>2. QED
  BY <1>1, DemoAlways, PTL

-----------------------------------------------------------------------------
(* The infrared remote. *)

Calls == Len(I!IrCode)

Count == Word \ {0}

Burst == {0, 1} \X Count

\* A number of cycles less one is not cut off.
LEMMA CountIs ==
    ASSUME NEW c \in Count
    PROVE  c \in Nat /\ 0 < c /\ (c - 1) % I!Uint16 = c - 1
<1>1. c \in Nat /\ 0 < c /\ I!Uint16 \in Nat /\ c < I!Uint16
  <2>1. c \in 0 .. BlankWord /\ c # 0
    BY DEF Count, Word
  <2>2. BlankWord \in Nat /\ I!Uint16 = BlankWord + 1
    BY DEF BlankWord, I!Uint16
  <2>3. QED
    BY <2>1, <2>2
<1>2. I!Uint16 \in Nat \ {0} /\ 0 \in Int /\ c - 1 \in 0 .. (I!Uint16 - 1)
  BY <1>1
<1>3. (I!Uint16 * 0 + (c - 1)) % I!Uint16 = c - 1
  BY <1>2, Quotient
<1>4. I!Uint16 * 0 + (c - 1) = c - 1
  BY <1>1
<1>5. QED
  BY <1>1, <1>3, <1>4

LEMMA PairIs ==
    ASSUME NEW p \in Count \X Count
    PROVE  /\ I!burst_pair(p) \in Seq(Burst) /\ Len(I!burst_pair(p)) = 2
           /\ \A k \in {1, 2} : I!burst_pair(p)[k] \in Burst
<1>1. p[1] \in Count /\ p[2] \in Count
  OBVIOUS
<1>2. <<1, p[1]>> \in Burst /\ <<0, p[2]>> \in Burst
  BY <1>1 DEF Burst
<1>3. I!burst_pair(p) = <<<<1, p[1]>>, <<0, p[2]>>>>
  BY DEF I!burst_pair, I!on, I!off
<1>4. QED
  BY <1>2, <1>3

LEMMA DataIs ==
    ASSUME NEW word
    PROVE  I!DataBits(word) \in Seq(Burst)
<1>1. ASSUME NEW i \in 1 .. (2 * I!WordBits)
      PROVE  I!burst_pair(IF I!Bit(word, (i - 1) \div 2) = 1 THEN One ELSE Zero)[((i - 1) % 2) + 1] \in Burst
  <2>1. ((i - 1) % 2) + 1 \in {1, 2}
    BY DEF I!WordBits
  <2>2. (IF I!Bit(word, (i - 1) \div 2) = 1 THEN One ELSE Zero) \in Count \X Count
    BY BoardAssumption DEF Count
  <2>3. QED
    BY <2>1, <2>2, PairIs
<1>2. 2 * I!WordBits \in Nat
  BY DEF I!WordBits
<1>3. QED
  BY <1>1, <1>2 DEF I!DataBits

\* The calls of a key code end in a burst that is on.
LEMMA CodeIs ==
    /\ I!IrCode \in Seq(Burst) /\ Calls \in Nat /\ Calls >= 2
    /\ I!IrCode[Calls][1] = 1
    /\ \A i \in 1 .. Calls : I!IrCode[i] \in Burst
<1> DEFINE head == I!burst_pair(Header)
           pre == I!DataBits(I!Pre)
           power == I!DataBits(I!POWER)
           lead == head \o pre \o power
<1>1. head \in Seq(Burst) /\ Len(head) = 2
  BY BoardAssumption, PairIs DEF Count
<1>2. pre \in Seq(Burst) /\ power \in Seq(Burst)
  BY DataIs
<1>3. lead \in Seq(Burst) /\ Len(lead) \in Nat /\ Len(lead) >= 2
  <2> HIDE DEF head, pre, power
  <2>0. head \in Seq(Burst)
    BY <1>1
  <2>1. Len(pre) \in Nat /\ head \o pre \in Seq(Burst)
    BY <1>2, <2>0
  <2>2. Len(head \o pre) = Len(head) + Len(pre)
    BY <1>2, <2>0
  <2>3. Len(head \o pre) \in Nat /\ Len(head \o pre) >= 2
    BY <1>1, <2>1, <2>2
  <2>4. Len(power) \in Nat /\ (head \o pre) \o power \in Seq(Burst)
    BY <1>2, <2>1
  <2>5. Len((head \o pre) \o power) = Len(head \o pre) + Len(power)
    BY <1>2, <2>1
  <2>6. QED
    BY <2>3, <2>4, <2>5 DEF lead
<1>4. <<1, Trail>> \in Burst
  BY BoardAssumption DEF Burst, Count
<1>5. I!IrCode = lead \o <<<<1, Trail>>>>
  BY DEF I!IrCode, I!on
<1> HIDE DEF head, pre, power, lead
<1>6. /\ I!IrCode \in Seq(Burst) /\ Calls = Len(lead) + 1 /\ I!IrCode[Calls] = <<1, Trail>>
  BY <1>3, <1>4, <1>5 DEF Calls
<1>7. \A i \in 1 .. Calls : I!IrCode[i] \in Burst
  BY <1>6 DEF Calls
<1>8. Calls \in Nat /\ Calls >= 2
  BY <1>3, <1>6
<1>9. QED
  BY <1>6, <1>7, <1>8

\* The call of the main loop is one of a code, and not its first.
Inside == pc \in {"post", "flag"} /\ next > 1

\* The burst that waits in the slot.
Pending == IF pc = "post" /\ next > 1 THEN next - 1 ELSE Calls

RemoteType ==
    /\ pc \in {"loop", "post", "flag", "delay"} /\ next \in 1 .. Calls
    /\ half_cycle \in {0, 1} /\ cycles \in Nat /\ not_processed \in {0, 1} /\ late \in BOOLEAN
    /\ wave \in Seq({0, 1} \X Nat)

Slot ==
    /\ pc = "flag" => /\ not_processed = 0
                      /\ I!IrCode[next] = <<carrier_state_to_load, cycles_to_load>>
    /\ not_processed = 1 => I!IrCode[Pending] = <<carrier_state_to_load, cycles_to_load>>

\* How many bursts have been loaded.
Loaded ==
    /\ not_processed = 1 => Len(wave) = Pending - 1 \/ (Pending = 1 /\ Len(wave) = Calls)
    /\ (not_processed = 0 /\ Inside) => Len(wave) = next - 1
    /\ (not_processed = 0 /\ ~Inside) => Len(wave) \in {0, Calls}

\* The bursts before the last are done, and of the last all but the cycles left.
OnAir ==
    /\ Len(wave) <= Calls
    /\ \A i \in 1 .. (Len(wave) - 1) : wave[i] = I!IrCode[i]
    /\ wave # <<>> => LET l == Len(wave) IN
                      /\ wave[l][1] = I!IrCode[l][1] /\ wave[l][2] + cycles = I!IrCode[l][2]
                      /\ cycles > 0 => carrier = wave[l][1]
    /\ wave = <<>> => cycles = 0

\* With the slot empty in the middle of a code no interrupt has come since but the
\* one in the middle of a cycle.
InTime == (Inside /\ not_processed = 0) =>
              (late = FALSE /\ half_cycle = 0) \/ (late = TRUE /\ half_cycle = 1)

RemoteInv == RemoteType /\ Slot /\ Loaded /\ OnAir /\ InTime

LEMMA BurstIs ==
    ASSUME NEW i \in 1 .. Calls
    PROVE  /\ I!IrCode[i] = <<I!IrCode[i][1], I!IrCode[i][2]>>
           /\ I!IrCode[i][1] \in {0, 1} /\ I!IrCode[i][2] \in Count
BY CodeIs DEF Burst

LEMMA RemoteMainLoop ==
    ASSUME RemoteInv, I!Program \/ UNCHANGED I!vars
    PROVE  RemoteInv'
<1> USE DEF Inside
<1>0. Calls \in Nat /\ Calls >= 2 /\ 1 \in 1 .. Calls
  BY CodeIs
<1>a. Calls' = Calls
  BY DEF Calls
<1>1. /\ RemoteType /\ Slot /\ Loaded /\ OnAir /\ InTime
  BY DEF RemoteInv
<1>2. /\ UNCHANGED <<half_cycle, cycles, carrier, wave>> /\ OnAir'
  BY <1>1 DEF OnAir, I!Program, I!Pressed, I!NotPressed, I!Post, I!Flag, I!Wake, I!isr, I!slot, I!vars
<1>3. CASE I!Pressed
  <2>1. /\ pc = "loop" /\ pc' = "post" /\ next' = 1 /\ late' = FALSE
        /\ UNCHANGED <<not_processed, cycles_to_load, carrier_state_to_load>>
    BY <1>3 DEF I!Pressed, I!slot
  <2>2. Pending = Calls /\ Pending' = Calls /\ ~Inside /\ ~Inside'
    BY <2>1 DEF Pending, Calls
  <2>3. RemoteType'
    BY <1>0, <1>a, <1>1, <1>2, <2>1 DEF RemoteType
  <2>4. Slot' /\ Loaded' /\ InTime'
    BY <1>1, <1>2, <2>1, <2>2 DEF Slot, Loaded, InTime, Calls
  <2>5. QED
    BY <1>2, <2>3, <2>4 DEF RemoteInv
<1>4. CASE I!NotPressed \/ I!Wake
  <2>1. /\ pc \in {"loop", "delay"} /\ pc' \in {"loop", "delay"} /\ late' = FALSE
        /\ UNCHANGED <<next, not_processed, cycles_to_load, carrier_state_to_load>>
    BY <1>4 DEF I!NotPressed, I!Wake, I!slot
  <2>2. Pending = Calls /\ Pending' = Calls /\ ~Inside /\ ~Inside'
    BY <2>1 DEF Pending, Calls
  <2>3. RemoteType'
    BY <1>0, <1>a, <1>1, <1>2, <2>1 DEF RemoteType
  <2>4. Slot' /\ Loaded' /\ InTime'
    BY <1>1, <1>2, <2>1, <2>2 DEF Slot, Loaded, InTime, Calls
  <2>5. QED
    BY <1>2, <2>3, <2>4 DEF RemoteInv
<1>5. CASE I!Post
  <2>1. /\ pc = "post" /\ not_processed = 0 /\ pc' = "flag" /\ UNCHANGED <<next, not_processed, late>>
        /\ cycles_to_load' = I!IrCode[next][2] /\ carrier_state_to_load' = I!IrCode[next][1]
    BY <1>5 DEF I!Post
  <2>2. Inside' = Inside
    BY <2>1
  <2>3. I!IrCode[next] = <<I!IrCode[next][1], I!IrCode[next][2]>>
    BY <1>1, BurstIs DEF RemoteType
  <2>4. Slot'
    BY <2>1, <2>3 DEF Slot
  <2>5. RemoteType' /\ Loaded' /\ InTime'
    BY <1>1, <1>2, <2>1, <2>2 DEF RemoteType, Loaded, InTime, Calls
  <2>6. QED
    BY <1>2, <2>4, <2>5 DEF RemoteInv
<1>6. CASE I!Flag
  <2>1. /\ pc = "flag" /\ not_processed = 0 /\ not_processed' = 1 /\ late' = FALSE
        /\ UNCHANGED <<cycles_to_load, carrier_state_to_load>>
        /\ I!IrCode[next] = <<carrier_state_to_load, cycles_to_load>>
        /\ next \in 1 .. Calls
        /\ IF next < Calls THEN pc' = "post" /\ next' = next + 1 ELSE pc' = "delay" /\ next' = next
    BY <1>1, <1>6 DEF I!Flag, Slot, RemoteType, Calls
  <2>2. Pending' = next /\ pc' \in {"post", "delay"} /\ next' \in 1 .. Calls
    <3>1. CASE next < Calls
      <4>1. pc' = "post" /\ next' = next + 1 /\ next' > 1 /\ next' - 1 = next /\ next' \in 1 .. Calls
        BY <1>0, <2>1, <3>1
      <4>2. QED
        BY <4>1 DEF Pending
    <3>2. CASE ~(next < Calls)
      <4>1. pc' = "delay" /\ next' = next /\ next = Calls
        BY <1>0, <2>1, <3>2
      <4>2. QED
        BY <1>a, <2>1, <4>1 DEF Pending
    <3>3. QED
      BY <3>1, <3>2
  <2>3. Slot'
    BY <2>1, <2>2 DEF Slot
  <2>4. Loaded'
    BY <1>0, <1>1, <1>2, <2>1, <2>2 DEF Loaded, Calls
  <2>5. RemoteType' /\ InTime'
    <3>1. RemoteType'
      BY <1>a, <1>1, <1>2, <2>1, <2>2 DEF RemoteType
    <3>2. InTime'
      BY <2>1 DEF InTime
    <3>3. QED
      BY <3>1, <3>2
  <2>6. QED
    BY <1>2, <2>3, <2>4, <2>5 DEF RemoteInv
<1>7. CASE UNCHANGED I!vars
  <2>1. UNCHANGED <<pc, next, not_processed, cycles_to_load, carrier_state_to_load, late>>
    BY <1>7 DEF I!vars, I!slot
  <2>2. RemoteType' /\ Slot' /\ Loaded' /\ InTime'
    BY <1>1, <1>2, <2>1 DEF RemoteType, Slot, Loaded, InTime, Pending, Calls
  <2>3. QED
    BY <1>2, <2>2 DEF RemoteInv
<1>8. QED
  BY <1>3, <1>4, <1>5, <1>6, <1>7 DEF I!Program

LEMMA InterruptIs ==
    ASSUME RemoteInv, I!Interrupt
    PROVE  /\ half_cycle' = 1 - half_cycle /\ UNCHANGED <<pc, next>>
           /\ half_cycle' \in {0, 1} /\ late' \in BOOLEAN
           /\ Inside' = Inside /\ Pending' = Pending
           /\ (Inside /\ not_processed = 0) => half_cycle = 0 /\ late' = TRUE
           /\ (Inside /\ not_processed = 1) => late' = FALSE
<1>1. /\ half_cycle' = 1 - half_cycle /\ UNCHANGED <<pc, next>> /\ half_cycle \in {0, 1}
      /\ Inside' = Inside /\ Pending' = Pending
  BY DEF I!Interrupt, RemoteInv, RemoteType, Inside, Pending, Calls
<1>2. /\ late' \in BOOLEAN /\ (late' <=> ~I!Blocked) /\ (I!Blocked \/ ~late)
  BY DEF I!Interrupt, I!Blocked
<1>3. Inside => (I!Blocked <=> not_processed = 1)
  BY DEF Inside, I!Blocked, RemoteInv, Slot
<1>4. (Inside /\ not_processed = 1) => late' = FALSE
  BY <1>2, <1>3
<1>5. ASSUME Inside, not_processed = 0 PROVE half_cycle = 0 /\ late' = TRUE
  <2>1. ~I!Blocked
    BY <1>3, <1>5
  <2>2. late # TRUE /\ late' = TRUE
    BY <1>2, <2>1
  <2>3. (late = FALSE /\ half_cycle = 0) \/ (late = TRUE /\ half_cycle = 1)
    BY <1>5 DEF RemoteInv, InTime
  <2>4. QED
    BY <2>2, <2>3
<1>6. half_cycle' \in {0, 1}
  BY <1>1
<1>7. QED
  BY <1>1, <1>2, <1>4, <1>5, <1>6

LEMMA RemoteMidCycle ==
    ASSUME RemoteInv, I!MidCycle
    PROVE  RemoteInv'
<1>1. /\ RemoteType /\ Slot /\ Loaded /\ OnAir
  BY DEF RemoteInv
<1>2. /\ UNCHANGED <<not_processed, cycles_to_load, carrier_state_to_load, cycles, carrier, wave>>
      /\ half_cycle = 0 /\ I!Interrupt
  BY DEF I!MidCycle, I!slot
<1>3. RemoteType' /\ Slot' /\ Loaded' /\ OnAir'
  BY <1>1, <1>2, InterruptIs DEF RemoteType, Slot, Loaded, OnAir, Calls
<1>4. InTime'
  <2>1. SUFFICES ASSUME Inside', not_processed' = 0 PROVE late' = TRUE /\ half_cycle' = 1
    BY DEF InTime
  <2>2. late' = TRUE /\ half_cycle' = 1 - 0
    BY <1>2, <2>1, InterruptIs
  <2>3. QED
    BY <2>2
<1>5. QED
  BY <1>3, <1>4 DEF RemoteInv

LEMMA RemoteContinue ==
    ASSUME RemoteInv, I!Continue
    PROVE  RemoteInv'
<1> DEFINE l == Len(wave)
<1>1. /\ RemoteType /\ Slot /\ Loaded /\ OnAir
  BY DEF RemoteInv
<1>2. /\ half_cycle = 1 /\ cycles > 0 /\ cycles' = cycles - 1 /\ I!Interrupt
      /\ wave' = [wave EXCEPT ![l] = <<@[1], @[2] + 1>>]
      /\ UNCHANGED <<not_processed, cycles_to_load, carrier_state_to_load, carrier>>
  BY DEF I!Continue, I!slot
<1>3. wave # <<>> /\ wave \in Seq({0, 1} \X Nat) /\ cycles \in Nat
  BY <1>1, <1>2 DEF OnAir, RemoteType
<1>4. l \in Nat /\ l >= 1 /\ wave[l] \in {0, 1} \X Nat
  BY <1>3
<1>5. wave[l][1] \in {0, 1} /\ wave[l][2] \in Nat
  BY <1>4
<1>6. /\ Len(wave') = l /\ wave' \in Seq({0, 1} \X Nat) /\ wave' # <<>>
      /\ \A i \in 1 .. (l - 1) : wave'[i] = wave[i]
      /\ wave'[l] = <<wave[l][1], wave[l][2] + 1>>
  <2>1. <<wave[l][1], wave[l][2] + 1>> \in {0, 1} \X Nat
    BY <1>5
  <2>2. wave' = [wave EXCEPT ![l] = <<wave[l][1], wave[l][2] + 1>>]
    BY <1>2
  <2>3. Len(wave') = l /\ wave' \in Seq({0, 1} \X Nat) /\ wave'[l] = <<wave[l][1], wave[l][2] + 1>>
    BY <1>3, <1>4, <2>1, <2>2
  <2>4. \A i \in 1 .. (l - 1) : wave'[i] = wave[i]
    BY <1>3, <1>4, <2>2
  <2>5. QED
    BY <1>4, <2>3, <2>4
<1>7. OnAir'
  <2>1. /\ l <= Calls /\ \A i \in 1 .. (l - 1) : wave[i] = I!IrCode[i]
        /\ wave[l][1] = I!IrCode[l][1] /\ wave[l][2] + cycles = I!IrCode[l][2] /\ carrier = wave[l][1]
    BY <1>1, <1>2, <1>3 DEF OnAir
  <2>2. wave'[l][2] + cycles' = I!IrCode[l][2] /\ wave'[l][1] = wave[l][1]
    BY <1>2, <1>3, <1>5, <1>6, <2>1
  <2>3. QED
    BY <1>2, <1>6, <2>1, <2>2 DEF OnAir, Calls
<1>8. RemoteType' /\ Slot' /\ Loaded'
  <2>1. cycles' \in Nat
    BY <1>2, <1>3
  <2>2. QED
    BY <1>1, <1>2, <1>6, <2>1, InterruptIs, SMTT(60) DEF RemoteType, Slot, Loaded, Calls
<1>9. InTime'
  BY <1>2, InterruptIs DEF InTime
<1>10. QED
  BY <1>7, <1>8, <1>9 DEF RemoteInv

LEMMA RemoteLoad ==
    ASSUME RemoteInv, I!Load
    PROVE  RemoteInv'
<1> DEFINE l == Len(wave)
           k == Pending
           b == <<carrier_state_to_load, 1>>
<1>1. /\ RemoteType /\ Slot /\ Loaded /\ OnAir
  BY DEF RemoteInv
<1>2. /\ half_cycle = 1 /\ cycles = 0 /\ not_processed = 1 /\ not_processed' = 0 /\ I!Interrupt
      /\ cycles' = (cycles_to_load - 1) % I!Uint16 /\ carrier' = carrier_state_to_load
      /\ wave' = Append(IF l = Calls THEN <<>> ELSE wave, b)
      /\ UNCHANGED <<cycles_to_load, carrier_state_to_load>>
  BY DEF I!Load, I!Complete, Calls
<1>3. /\ wave \in Seq({0, 1} \X Nat) /\ l \in Nat /\ next \in 1 .. Calls /\ pc \in {"loop", "post", "delay"}
  BY <1>1, <1>2 DEF RemoteType, Slot
<1>4. k \in 1 .. Calls
  BY <1>3, CodeIs DEF Pending
<1>5. /\ I!IrCode[k] = <<carrier_state_to_load, cycles_to_load>>
      /\ carrier_state_to_load \in {0, 1} /\ cycles_to_load \in Count
  <2>1. I!IrCode[k] = <<carrier_state_to_load, cycles_to_load>>
    BY <1>1, <1>2 DEF Slot
  <2>2. I!IrCode[k][1] = carrier_state_to_load /\ I!IrCode[k][2] = cycles_to_load
    BY <2>1
  <2>3. I!IrCode[k][1] \in {0, 1} /\ I!IrCode[k][2] \in Count
    BY <1>4, BurstIs
  <2>4. QED
    BY <2>1, <2>2, <2>3
<1>6. cycles_to_load \in Nat /\ cycles' = cycles_to_load - 1 /\ cycles' \in Nat
  BY <1>2, <1>5, CountIs
<1>7. l = k - 1 \/ (k = 1 /\ l = Calls)
  BY <1>1, <1>2 DEF Loaded
<1>8. \A i \in 1 .. (k - 1) : l = k - 1 /\ l < Calls /\ wave[i] = I!IrCode[i]
  <2>1. SUFFICES ASSUME NEW i \in 1 .. (k - 1) PROVE l = k - 1 /\ l < Calls /\ wave[i] = I!IrCode[i]
    OBVIOUS
  <2>2. l = k - 1 /\ l < Calls /\ l >= 1 /\ i \in 1 .. l
    BY <1>3, <1>4, <1>7, CodeIs
  <2>3. CASE i < l
    BY <1>1, <2>2, <2>3 DEF OnAir
  <2>4. CASE i = l
    <3>1. wave # <<>> /\ wave[l] \in {0, 1} \X Nat
      BY <1>3, <2>2
    <3>2. wave[l][1] = I!IrCode[l][1] /\ wave[l][2] = I!IrCode[l][2] /\ wave[l] = <<wave[l][1], wave[l][2]>>
      BY <1>1, <1>2, <3>1 DEF OnAir
    <3>3. I!IrCode[l] = <<I!IrCode[l][1], I!IrCode[l][2]>>
      BY <1>3, <2>2, BurstIs, CodeIs
    <3>4. QED
      BY <2>2, <2>4, <3>2, <3>3
  <2>5. QED
    BY <1>3, <2>2, <2>3, <2>4
<1>9. /\ Len(wave') = k /\ wave' \in Seq({0, 1} \X Nat) /\ wave' # <<>> /\ wave'[k] = b
      /\ \A i \in 1 .. (k - 1) : wave'[i] = I!IrCode[i]
  <2>1. b \in {0, 1} \X Nat
    BY <1>5
  <2>2. CASE l = Calls
    <3>1. k = 1
      BY <1>3, <1>4, <1>7, <2>2, CodeIs
    <3>2. wave' = <<b>>
      BY <1>2, <2>2
    <3>3. QED
      BY <2>1, <3>1, <3>2
  <2>3. CASE l # Calls
    <3>1. wave' = Append(wave, b) /\ l = k - 1
      BY <1>2, <1>7, <2>3
    <3>2. Len(wave') = k /\ wave' \in Seq({0, 1} \X Nat) /\ wave'[k] = b /\ wave' # <<>>
      BY <1>3, <1>4, <2>1, <3>1, CodeIs
    <3>3. \A i \in 1 .. (k - 1) : wave'[i] = wave[i]
      BY <1>3, <1>4, <3>1, CodeIs
    <3>4. QED
      BY <1>8, <3>2, <3>3
  <2>4. QED
    BY <2>2, <2>3
<1>10. OnAir'
  <2>1. /\ wave'[k][1] = I!IrCode[k][1] /\ wave'[k][2] + cycles' = I!IrCode[k][2] /\ carrier' = wave'[k][1]
    BY <1>2, <1>5, <1>6, <1>9
  <2>2. Len(wave') <= Calls'
    BY <1>4, <1>9, CodeIs DEF Calls
  <2>3. QED
    BY <1>9, <2>1, <2>2 DEF OnAir
<1>11. Slot' /\ RemoteType'
  BY <1>1, <1>2, <1>3, <1>6, <1>9, InterruptIs DEF Slot, RemoteType, Calls
<1>12. Loaded'
  <2>1. Inside' => pc = "post" /\ k = next - 1 /\ next' = next
    BY <1>2, <1>3, InterruptIs DEF Inside, Pending
  <2>2. ~Inside' => k = Calls
    BY <1>2, <1>3, InterruptIs DEF Inside, Pending
  <2>3. not_processed' = 0 /\ Len(wave') = k /\ next \in Nat
    BY <1>2, <1>3, <1>9
  <2>4. Inside' => Len(wave') = next' - 1
    BY <2>1, <2>3
  <2>5. ~Inside' => Len(wave') = Calls'
    BY <2>2, <2>3 DEF Calls
  <2>6. QED
    BY <2>3, <2>4, <2>5 DEF Loaded
<1>13. InTime'
  <2>1. SUFFICES ASSUME Inside' PROVE late' = FALSE /\ half_cycle' = 0
    BY DEF InTime
  <2>2. late' = FALSE /\ half_cycle' = 1 - 1
    BY <1>2, <2>1, InterruptIs
  <2>3. QED
    BY <2>2
<1>14. QED
  BY <1>10, <1>11, <1>12, <1>13 DEF RemoteInv

LEMMA RemoteSwitchOff ==
    ASSUME RemoteInv, I!SwitchOff
    PROVE  RemoteInv'
<1>1. /\ RemoteType /\ Slot /\ Loaded /\ OnAir
  BY DEF RemoteInv
<1>2. /\ half_cycle = 1 /\ cycles = 0 /\ not_processed = 0 /\ I!Interrupt
      /\ wave' = IF wave = <<>> \/ Len(wave) = Calls THEN wave ELSE Append(wave, <<I!silence, 0>>)
      /\ UNCHANGED <<not_processed, cycles_to_load, carrier_state_to_load, cycles>>
  BY DEF I!SwitchOff, I!slot, I!Complete, Calls
<1>3. ~Inside /\ ~Inside'
  BY <1>2, InterruptIs
<1>4. wave \in Seq({0, 1} \X Nat) /\ Len(wave) \in {0, Calls}
  BY <1>1, <1>2, <1>3 DEF Loaded, RemoteType
<1>5. wave' = wave
  BY <1>2, <1>4
<1>6. RemoteType' /\ Slot' /\ Loaded' /\ OnAir'
  BY <1>1, <1>2, <1>3, <1>5, InterruptIs DEF RemoteType, Slot, Loaded, OnAir, Calls
<1>7. InTime'
  BY <1>3 DEF InTime
<1>8. QED
  BY <1>6, <1>7 DEF RemoteInv

LEMMA RemoteAlways == FairSpec => [](app = "remote" => RemoteInv)
<1>1. Init => (app = "remote" => RemoteInv)
  <2>1. SUFFICES ASSUME I!Init PROVE RemoteInv
    BY DEF Init
  <2>2. /\ pc = "loop" /\ next = 1 /\ not_processed = 0 /\ half_cycle = 0 /\ cycles = 0
        /\ wave = <<>> /\ late = FALSE
    BY <2>1 DEF I!Init
  <2>3. RemoteType
    <3>1. 1 \in 1 .. Calls /\ <<>> \in Seq({0, 1} \X Nat)
      BY CodeIs
    <3>2. QED
      BY <2>2, <3>1 DEF RemoteType
  <2>4. Slot /\ Loaded /\ OnAir /\ InTime
    BY <2>2, CodeIs DEF Slot, Loaded, OnAir, InTime, Inside
  <2>5. QED
    BY <2>3, <2>4 DEF RemoteInv
<1>2. (app = "remote" => RemoteInv) /\ [Next]_vars => (app = "remote" => RemoteInv)'
  BY AppStep, RemoteMainLoop, RemoteMidCycle, RemoteContinue, RemoteLoad, RemoteSwitchOff DEF I!Next
<1>3. QED
  BY <1>1, <1>2, PTL DEF FairSpec

\* On the air the bursts of a key code follow each other without a gap, none lost or
\* doubled, each with the number of cycles asked for, whatever the lengths of the
\* bursts and wherever the main loop is when an interrupt comes.
THEOREM BurstsAsAsked == FairSpec => []BurstsInOrder
<1>1. (app = "remote" => RemoteInv) => BurstsInOrder
  <2> DEFINE l == Len(wave)
  <2>1. SUFFICES ASSUME app = "remote", RemoteInv PROVE I!BurstsInOrder
    BY DEF BurstsInOrder
  <2>2. RemoteType /\ OnAir /\ wave \in Seq({0, 1} \X Nat) /\ l \in Nat /\ cycles \in Nat
    BY <2>1 DEF RemoteInv, RemoteType
  <2>3. l <= Calls /\ \A i \in 1 .. (l - 1) : wave[i] = I!IrCode[i]
    BY <2>2 DEF OnAir
  <2>4. ASSUME wave # <<>>
        PROVE  /\ wave[l][1] = I!IrCode[l][1] /\ wave[l][2] <= I!IrCode[l][2]
               /\ cycles > 0 => carrier = wave[l][1]
               /\ (l = Calls /\ carrier = 0) => wave[l] = I!IrCode[l]
    <3>1. l >= 1 /\ wave[l] \in {0, 1} \X Nat /\ l \in 1 .. Calls
      BY <2>2, <2>3, <2>4, CodeIs
    <3>2. /\ wave[l][1] = I!IrCode[l][1] /\ wave[l][2] + cycles = I!IrCode[l][2]
          /\ cycles > 0 => carrier = wave[l][1]
      BY <2>2, <2>4 DEF OnAir
    <3>3. I!IrCode[l] = <<I!IrCode[l][1], I!IrCode[l][2]>> /\ wave[l] = <<wave[l][1], wave[l][2]>>
          /\ wave[l][2] \in Nat
      BY <3>1, BurstIs
    <3>4. wave[l][2] <= I!IrCode[l][2] /\ (cycles = 0 => wave[l] = I!IrCode[l])
      <4>1. wave[l][2] + cycles \in Nat /\ wave[l][2] <= wave[l][2] + cycles
        BY <2>2, <3>3
      <4>2. cycles = 0 => wave[l][2] = I!IrCode[l][2]
        BY <3>2, <3>3
      <4>3. cycles = 0 => <<wave[l][1], wave[l][2]>> = <<I!IrCode[l][1], I!IrCode[l][2]>>
        BY <3>2, <4>2
      <4>4. QED
        BY <3>2, <3>3, <4>1, <4>3
    <3>5. (l = Calls /\ carrier = 0) => cycles = 0
      BY <2>2, <3>2, CodeIs
    <3>6. QED
      BY <3>2, <3>4, <3>5
  <2>5. wave = <<>> => cycles = 0 /\ l = 0
    BY <2>2 DEF OnAir
  <2>6. QED
    BY <2>2, <2>3, <2>4, <2>5 DEF I!BurstsInOrder, I!off, Calls
<1>2. QED
  BY <1>1, RemoteAlways, PTL

-----------------------------------------------------------------------------
(* The flash command line. *)

LEMMA Least ==
    ASSUME NEW T \in SUBSET Nat, T # {}
    PROVE  \E x \in T : \A y \in T : x <= y
<1>1. IsWellFoundedOn(OpToRel(<, Nat), Nat)
  BY NatLessThanWellFounded, Zenon
<1>2. PICK x \in T : \A y \in T : ~(<<y, x>> \in OpToRel(<, Nat))
  BY <1>1, WFMin, Zenon
<1>3. \A y \in T : ~(y < x)
  BY <1>2 DEF OpToRel
<1>4. QED
  BY <1>3

\* Behind the "w" there is a character that is no space, the end of the line if no other.
LEMMA FirstDigitIs ==
    ASSUME str \in Seq(Byte)
    PROVE  F!FirstDigit \in 2 .. (Len(str) + 2)
<1> DEFINE T == {i \in 2 .. (Len(str) + 2) : F!Char(i) # F!Space}
<1>1. Len(str) \in Nat
  OBVIOUS
<1>2. Len(str) + 2 \in T
  <2>1. ~(Len(str) + 2 < Len(str)) /\ Len(str) + 2 \in 2 .. (Len(str) + 2)
    BY <1>1
  <2>2. F!Char(Len(str) + 2) = 0
    BY <2>1 DEF F!Char
  <2>3. QED
    BY <2>1, <2>2 DEF F!Space
<1>3. T \in SUBSET Nat /\ T # {}
  BY <1>1, <1>2
<1>4. PICK i \in T : \A j \in T : i <= j
  BY <1>3, Least
<1>5. i \in 2 .. (Len(str) + 2) /\ F!Char(i) # F!Space
  BY <1>4
<1>6. ASSUME NEW j \in 2 .. (i - 1) PROVE F!Char(j) = F!Space
  <2>1. j \in 2 .. (Len(str) + 2) /\ ~(i <= j)
    BY <1>1, <1>5
  <2>2. j \notin T
    BY <1>4, <2>1
  <2>3. QED
    BY <2>1, <2>2
<1>7. QED
  BY <1>5, <1>6 DEF F!FirstDigit

\* The number is one that the line can be read as, and the block, once written, holds it.
FlashInv ==
    /\ step \in {"enter", "prompt", "command", "write_block", "erased", "written"}
    /\ str \in Seq(Byte)
    /\ step \in {"write_block", "erased", "written"} =>
           /\ F!IsWrite
           /\ \E h1 \in F!SecondDigit(F!FirstDigit) :
                  val = F!hex_to_byte(F!Char(F!FirstDigit), h1)
    /\ step = "written" => page = F!Pattern(val)

LEMMA FlashStep ==
    ASSUME FlashInv, [F!Next]_(F!vars)
    PROVE  FlashInv'
<1>1. CASE F!Enter \/ F!ShowHelpOrBlock \/ F!Reset
  <2>1. /\ step' \in {"enter", "prompt"}
        /\ str' = str \/ str' = <<>>
    BY <1>1 DEF F!Enter, F!ShowHelpOrBlock, F!Reset
  <2>2. str' \in Seq(Byte)
    <3>1. <<>> \in Seq(Byte) /\ str \in Seq(Byte)
      BY DEF FlashInv
    <3>2. QED
      BY <2>1, <3>1
  <2>3. QED
    BY <2>1, <2>2 DEF FlashInv
<1>2. CASE F!Line
  BY <1>2, BoardAssumption DEF F!Line, FlashInv
<1>3. CASE F!Write
  <2>1. /\ step' = "write_block" /\ str' = str /\ F!IsWrite
        /\ \E h1 \in F!SecondDigit(F!FirstDigit) :
               val' = F!hex_to_byte(F!Char(F!FirstDigit), h1)
    BY <1>3 DEF F!Write
  <2>2. /\ F!IsWrite' = F!IsWrite /\ F!FirstDigit' = F!FirstDigit
        /\ F!Char(F!FirstDigit)' = F!Char(F!FirstDigit)
        /\ F!SecondDigit(F!FirstDigit)' = F!SecondDigit(F!FirstDigit)
    BY <2>1 DEF F!IsWrite, F!FirstDigit, F!Char, F!SecondDigit
  <2>3. QED
    BY <2>1, <2>2 DEF FlashInv
<1>4. CASE F!WriteBlock \/ F!Program \/ F!Again \/ UNCHANGED F!vars
  <2>1. /\ UNCHANGED <<str, val>>
        /\ step' \in {"write_block", "erased", "written"} =>
               step \in {"write_block", "erased", "written"}
        /\ step' \in {"enter", "prompt", "command", "write_block", "erased", "written"}
        /\ step' = "written" => page' = F!Pattern(val) \/ (step = "written" /\ page' = page)
    BY <1>4 DEF F!WriteBlock, F!Program, F!Again, F!vars, FlashInv
  <2>2. /\ F!IsWrite' = F!IsWrite /\ F!FirstDigit' = F!FirstDigit
        /\ F!Char(F!FirstDigit)' = F!Char(F!FirstDigit)
        /\ F!SecondDigit(F!FirstDigit)' = F!SecondDigit(F!FirstDigit)
        /\ F!Pattern(val)' = F!Pattern(val)
    BY <2>1 DEF F!IsWrite, F!FirstDigit, F!Char, F!SecondDigit, F!Pattern, F!Xor1
  <2>3. QED
    BY <2>1, <2>2 DEF FlashInv
<1>5. QED
  BY <1>1, <1>2, <1>3, <1>4 DEF F!Next

LEMMA FlashAlways == FairSpec => [](app = "flash" => FlashInv)
<1>1. Init => (app = "flash" => FlashInv)
  BY DEF Init, F!Init, FlashInv
<1>2. (app = "flash" => FlashInv) /\ [Next]_vars => (app = "flash" => FlashInv)'
  BY AppStep, FlashStep
<1>3. QED
  BY <1>1, <1>2, PTL DEF FairSpec

\* A digit is not the end of the line.
LEMMA DigitIs ==
    ASSUME NEW c, F!isxdigit(c)
    PROVE  c # 0
BY DEF F!isxdigit

\* Whatever is typed, and however often the board was reset before, a complete command
\* leaves the number typed in the block, in both of its forms.
THEOREM PageHoldsNumber == FairSpec => []PageAsTyped
<1>1. (app = "flash" => FlashInv) => PageAsTyped
  <2> DEFINE i == F!FirstDigit
             d == F!Digits
  <2>1. SUFFICES ASSUME app = "flash", FlashInv, step = "written"
                 PROVE  F!IsWrite /\ (F!Complete => page = F!Pattern(F!Number))
    BY DEF PageAsTyped, F!PageAsTyped
  <2>2. str \in Seq(Byte) /\ F!IsWrite /\ page = F!Pattern(val) /\ Len(str) \in Nat
    BY <2>1 DEF FlashInv
  <2>3. PICK h1 \in F!SecondDigit(i) : val = F!hex_to_byte(F!Char(i), h1)
    BY <2>1 DEF FlashInv
  <2>4. i \in 2 .. (Len(str) + 2)
    BY <2>2, FirstDigitIs
  <2>5. d = SubSeq(str, i + 1, Len(str))
    BY DEF F!Digits
  <2>6. SUFFICES ASSUME F!Complete PROVE val = F!Number
    BY <2>2
  <2>7. Len(d) \in 1 .. 2 /\ \A k \in 1 .. Len(d) : F!isxdigit(d[k])
    BY <2>6 DEF F!Complete
  <2> HIDE DEF i, d
  <2>8. /\ i + Len(d) = Len(str) /\ i < Len(str)
        /\ \A k \in 1 .. Len(d) : d[k] = str[i + k]
    BY <2>2, <2>4, <2>5, <2>7
  <2>9. F!Char(i) = d[1] /\ d[1] # 0
    BY <2>4, <2>7, <2>8, DigitIs DEF F!Char
  <2>10. CASE Len(d) = 1
    <3>1. F!Char(i + 1) = 0
      BY <2>2, <2>4, <2>8, <2>10 DEF F!Char
    <3>2. h1 = 0
      BY <2>3, <3>1 DEF F!SecondDigit, i
    <3>3. QED
      <4>0. ~F!isxdigit(0)
        BY DEF F!isxdigit
      <4>1. val = F!Digit(d[1])
        BY <2>3, <2>9, <3>2, <4>0 DEF F!hex_to_byte
      <4>2. QED
        BY <2>10, <4>1 DEF F!Number, d
  <2>11. CASE Len(d) = 2
    <3>1. F!Char(i + 1) = d[2] /\ F!Char(i + 2) = 0 /\ F!isxdigit(d[2]) /\ d[2] # 0
      BY <2>2, <2>4, <2>7, <2>8, <2>11, DigitIs DEF F!Char
    <3>2. h1 = d[2]
      BY <2>3, <3>1 DEF F!SecondDigit, i
    <3>3. QED
      <4>1. val = (16 * F!Digit(d[1])) + F!Digit(d[2])
        BY <2>3, <2>9, <3>1, <3>2 DEF F!hex_to_byte
      <4>2. QED
        BY <2>11, <4>1 DEF F!Number, d
  <2>12. QED
    BY <2>7, <2>10, <2>11
<1>2. QED
  BY <1>1, FlashAlways, PTL

-----------------------------------------------------------------------------
(* The radio console. *)

ConFields == {"due", "cali", "ready", "data_out", "data_len", "typed", "udr", "rx_ind", "data_in",
              "ind", "tx_ind", "clk_i", "data", "pin", "line", "air", "inStep"}

\* What the timer routine's receiving half leaves alone.
Receiving == {"due", "cali", "rx_ind", "data_in", "inStep"}

ConType(c) ==
    /\ DOMAIN c = ConFields
    /\ c.udr \in Byte /\ c.typed \in 0 .. DataSize 
    /\ c.data_out \in Seq(Byte) /\ Len(c.data_out) = DataSize
    /\ c.ready \in {0, 1} /\ c.line \in Seq(Byte) /\ Len(c.line) <= DataSize
    /\ c.air \in Seq(Nat)

\* Between two packets; the last one is that of the last line.
Idle(c) ==
    c.ready = 0 =>
        /\ c.ind = -4 /\ c.tx_ind = 7
        /\ c.line # <<>> => c.air = X!Stream(c.line)

\* In a packet the bytes up to ind are sent, and of the next one the bits above tx_ind.
Busy(c) ==
    c.ready = 1 =>
        /\ c.data_len \in 1 .. DataSize /\ c.line = SubSeq(c.data_out, 1, c.data_len)
        /\ c.ind \in -4 .. (c.data_len + 1) /\ c.tx_ind \in 0 .. 7
        /\ Len(c.air) = c.ind + (IF c.tx_ind = 7 THEN 4 ELSE 5)
        /\ \A i \in 1 .. (c.ind + 4) : c.air[i] = X!Stream(c.line)[i]
        /\ c.tx_ind # 7 =>
               /\ c.data = X!Stream(c.line)[c.ind + 5]
               /\ c.air[c.ind + 5] = c.data \div (2^(c.tx_ind + 1))

ConInv(c) == ConType(c) /\ Idle(c) /\ Busy(c)

ConsoleInv == build \in Builds /\ keys \in Nat /\ DOMAIN con = X!Boards /\ \A b \in X!Boards : ConInv(con[b])

LEMMA Doubled ==
    ASSUME NEW k \in 0 .. 6
    PROVE  2^k \in Nat \ {0} /\ 2^(k + 1) = 2 * 2^k
<1>1. CASE k = 0
  <2>1. k + 1 = 1
    BY <1>1
  <2>2. 2^0 = 1 /\ 2^1 = 2
    OBVIOUS
  <2>3. 2^k = 1 /\ 2^(k + 1) = 2
    BY <1>1, <2>1, <2>2
  <2>4. QED
    BY <2>3
<1>2. CASE k = 1
  <2>1. k + 1 = 2
    BY <1>2
  <2>2. 2^1 = 2 /\ 2^2 = 4
    OBVIOUS
  <2>3. 2^k = 2 /\ 2^(k + 1) = 4
    BY <1>2, <2>1, <2>2
  <2>4. QED
    BY <2>3
<1>3. CASE k = 2
  <2>1. k + 1 = 3
    BY <1>3
  <2>2. 2^2 = 4 /\ 2^3 = 8
    OBVIOUS
  <2>3. 2^k = 4 /\ 2^(k + 1) = 8
    BY <1>3, <2>1, <2>2
  <2>4. QED
    BY <2>3
<1>4. CASE k = 3
  <2>1. k + 1 = 4
    BY <1>4
  <2>2. 2^3 = 8 /\ 2^4 = 16
    OBVIOUS
  <2>3. 2^k = 8 /\ 2^(k + 1) = 16
    BY <1>4, <2>1, <2>2
  <2>4. QED
    BY <2>3
<1>5. CASE k = 4
  <2>1. k + 1 = 5
    BY <1>5
  <2>2. 2^4 = 16 /\ 2^5 = 32
    OBVIOUS
  <2>3. 2^k = 16 /\ 2^(k + 1) = 32
    BY <1>5, <2>1, <2>2
  <2>4. QED
    BY <2>3
<1>6. CASE k = 5
  <2>1. k + 1 = 6
    BY <1>6
  <2>2. 2^5 = 32 /\ 2^6 = 64
    OBVIOUS
  <2>3. 2^k = 32 /\ 2^(k + 1) = 64
    BY <1>6, <2>1, <2>2
  <2>4. QED
    BY <2>3
<1>7. CASE k = 6
  <2>1. k + 1 = 7
    BY <1>7
  <2>2. 2^6 = 64 /\ 2^7 = 128
    OBVIOUS
  <2>3. 2^k = 64 /\ 2^(k + 1) = 128
    BY <1>7, <2>1, <2>2
  <2>4. QED
    BY <2>3
<1>8. QED
  BY <1>1, <1>2, <1>3, <1>4, <1>5, <1>6, <1>7

LEMMA ShiftOut ==
    ASSUME NEW d \in Nat, NEW k \in 0 .. 6
    PROVE  2 * (d \div 2^(k + 1)) + X!Bit(d, k) = d \div 2^k
<1> DEFINE p == 2^k
           q == d \div p
           h == q \div 2
           r == q % 2
           s == d % p
<1>1. p \in Nat \ {0} /\ 2^(k + 1) = 2 * p
  BY Doubled
<1>2. q \in Int /\ s \in 0 .. (p - 1) /\ d = p * q + s
  <2> HIDE DEF p
  <2>1. QED
    BY <1>1, Remainder
<1>3. h \in Int /\ r \in 0 .. 1 /\ q = 2 * h + r
  <2> HIDE DEF q
  <2>1. QED
    BY <1>2
<1> HIDE DEF p, q, h, r, s
<1>4. p * q = (2 * p) * h + p * r
  BY <1>1, <1>2, <1>3
<1>5. p * r + s \in 0 .. (2 * p - 1)
  <2>1. r = 0 \/ r = 1
    BY <1>3
  <2>2. p * 0 = 0 /\ p * 1 = p
    BY <1>1
  <2>3. QED
    BY <1>1, <1>2, <2>1, <2>2
<1>6. d = (2 * p) * h + (p * r + s) /\ 2 * p \in Nat \ {0}
  BY <1>1, <1>2, <1>3, <1>4
<1>7. d \div (2 * p) = h
  BY <1>3, <1>5, <1>6, Quotient
<1>8. QED
  BY <1>1, <1>3, <1>7 DEF X!Bit, p, q, h, r

LEMMA FirstBit ==
    ASSUME NEW d \in Byte
    PROVE  X!Bit(d, 7) = d \div (2^7) /\ d \div (2^0) = d
<1>1. 2^7 = 128 /\ 2^0 = 1
  OBVIOUS
<1>2. d \div 128 \in 0 .. 1 /\ d \div 1 = d
  BY DEF Byte
<1>3. (d \div 128) % 2 = d \div 128
  BY <1>2
<1>4. QED
  BY <1>1, <1>2, <1>3 DEF X!Bit

LEMMA StreamIs ==
    ASSUME build \in Builds, NEW msg \in Seq(Byte), Len(msg) <= DataSize
    PROVE  X!Stream(msg) \in Seq(Byte) /\ Len(X!Stream(msg)) = Len(msg) + 6
<1> DEFINE l == Len(msg)
           h == <<build.before, X!PKT_START, X!NUM_TO_ASCII(l \div 16), X!NUM_TO_ASCII(l % 16)>>
           e == <<X!PKT_END, X!PKT_DUMMY>>
<1>1. build.before \in Byte /\ DataSize \in Nat /\ DataSize <= 255
  BY BoardAssumption
<1>2. l \in Nat /\ l <= 255
  BY <1>1
<1>3. l \div 16 \in 0 .. 15 /\ l % 16 \in 0 .. 15
  <2> HIDE DEF l
  <2>1. QED
    BY <1>2
<1>4. \A n \in 0 .. 15 : X!NUM_TO_ASCII(n) \in Byte
  BY DEF X!NUM_TO_ASCII, Byte
<1>5. X!PKT_START \in Byte /\ X!PKT_END \in Byte /\ X!PKT_DUMMY \in Byte
  BY DEF X!PKT_START, X!PKT_END, X!PKT_DUMMY, Byte
<1>6. X!NUM_TO_ASCII(l \div 16) \in Byte /\ X!NUM_TO_ASCII(l % 16) \in Byte
  <2> HIDE DEF l
  <2>1. QED
    BY <1>3, <1>4
<1>7. h \in Seq(Byte) /\ Len(h) = 4 /\ e \in Seq(Byte) /\ Len(e) = 2
  <2> HIDE DEF l
  <2>1. QED
    BY <1>1, <1>5, <1>6
<1>8. X!Stream(msg) = h \o msg \o e
  BY DEF X!Stream
<1> HIDE DEF h, e, l
<1>9. h \o msg \in Seq(Byte) /\ Len(h \o msg) = Len(h) + Len(msg)
  <2>1. h \in Seq(Byte) /\ msg \in Seq(Byte)
    BY <1>7
  <2>2. QED
    BY <2>1
<1>10. (h \o msg) \o e \in Seq(Byte) /\ Len((h \o msg) \o e) = Len(h \o msg) + Len(e)
  <2> DEFINE g == h \o msg
  <2>1. g \in Seq(Byte) /\ e \in Seq(Byte)
    BY <1>7, <1>9
  <2> HIDE DEF g
  <2>2. g \o e \in Seq(Byte) /\ Len(g \o e) = Len(g) + Len(e)
    BY <2>1
  <2>3. QED
    BY <2>2 DEF g
<1>11. Len(msg) \in Nat
  OBVIOUS
<1>12. 4 + Len(msg) + 2 = Len(msg) + 6
  BY <1>11
<1>13. QED
  BY <1>7, <1>8, <1>9, <1>10, <1>12

\* The fields that the transmitter and the receive interrupt read and write.
SameLine(c, d) ==
    /\ DOMAIN d = DOMAIN c
    /\ d.udr = c.udr /\ d.typed = c.typed /\ d.data_out = c.data_out /\ d.data_len = c.data_len
    /\ d.ready = c.ready /\ d.line = c.line /\ d.air = c.air
    /\ d.ind = c.ind /\ d.tx_ind = c.tx_ind /\ d.data = c.data

LEMMA SameLineKeeps ==
    ASSUME NEW c, NEW d, ConInv(c), SameLine(c, d)
    PROVE  ConInv(d)
BY DEF ConInv, ConType, Idle, Busy, SameLine

LEMMA Receives ==
    ASSUME NEW b, DOMAIN con[b] = ConFields
    PROVE  SameLine(con[b], X!recv_data(b))
<1> DEFINE c == con[b]
           d == X!Shifted(b)
           r == X!recv_data(b)
           taken == [c EXCEPT !.data_in = 0, !.rx_ind = 7, !.inStep = X!AtByteEnd(X!Other(b)),
                              !.due = X!Period(IF d \in X!DEF_DATA \union {X!CALI_DATA} THEN 0 ELSE 10)]
<1>1. CASE c.cali = 0 /\ d = X!CALI_DATA
  <2>1. r = [c EXCEPT !.data_in = d, !.cali = 1, !.due = X!Period(22)]
    BY <1>1 DEF X!recv_data
  <2> HIDE DEF r, d
  <2>2. QED
    BY <2>1 DEF SameLine, ConFields, r
<1>2. CASE c.cali = 0 /\ d # X!CALI_DATA
  <2>1. r = [c EXCEPT !.data_in = d, !.due = X!Period(0)]
    BY <1>2 DEF X!recv_data
  <2> HIDE DEF r, d
  <2>2. QED
    BY <2>1 DEF SameLine, ConFields, r
<1>3. CASE c.cali = 1 /\ c.rx_ind > 0
  <2>1. r = [c EXCEPT !.data_in = d, !.rx_ind = @ - 1, !.due = X!Period(0)]
    BY <1>3 DEF X!recv_data
  <2> HIDE DEF r, d
  <2>2. QED
    BY <2>1 DEF SameLine, ConFields, r
<1>4. CASE c.cali # 0 /\ ~(c.cali = 1 /\ c.rx_ind > 0)
  <2>1. r = taken
    BY <1>4 DEF X!recv_data
  <2> HIDE DEF r, d
  <2>2. QED
    BY <2>1 DEF SameLine, ConFields, r
<1>5. QED
  BY <1>1, <1>2, <1>3, <1>4

LEMMA Waits ==
    ASSUME NEW c, NEW ms, DOMAIN c = ConFields
    PROVE  SameLine(c, [c EXCEPT !.due = ms])
BY DEF SameLine, ConFields

LEMMA Clocks ==
    ASSUME NEW c, DOMAIN c = ConFields
    PROVE  SameLine(c, X!SendClock(c))
<1> DEFINE p == IF c.cali = 0 THEN X!Bit(X!CALI_DATA, c.clk_i) ELSE c.pin
           k == IF c.clk_i = 0 THEN 7 ELSE c.clk_i - 1
<1>1. X!SendClock(c) = [c EXCEPT !.pin = p, !.clk_i = k]
  BY DEF X!SendClock, ConFields
<1> HIDE DEF p, k
<1>2. QED
  BY <1>1 DEF SameLine, ConFields

LEMMA SameSequence ==
    ASSUME NEW S, NEW T, NEW s, NEW u, s \in Seq(S), u \in Seq(T),
           Len(s) = Len(u), \A i \in 1 .. Len(u) : s[i] = u[i]
    PROVE  s = u
OBVIOUS

LEMMA TextOf ==
    ASSUME build \in Builds, NEW c, ConInv(c), c.ready = 1
    PROVE  /\ Len(c.line) = c.data_len /\ c.data_len \in Nat
           /\ X!Stream(c.line) \in Seq(Byte) /\ Len(X!Stream(c.line)) = c.data_len + 6
<1>1. /\ c.line \in Seq(Byte) /\ Len(c.line) <= DataSize /\ c.line = SubSeq(c.data_out, 1, c.data_len)
      /\ c.data_len \in 1 .. DataSize /\ c.data_out \in Seq(Byte) /\ Len(c.data_out) = DataSize
  BY DEF ConInv, ConType, Busy
<1>2. c.data_len \in Nat /\ Len(c.line) = c.data_len
  <2>1. DataSize \in Nat
    BY BoardAssumption
  <2>2. QED
    BY <1>1, <2>1
<1>3. QED
  BY <1>1, <1>2, StreamIs

\* The next bit of a byte, behind the bits before it.
LEMMA BitSent ==
    ASSUME build \in Builds, NEW c, ConInv(c), c.ready = 1,
           NEW v, v = X!Stream(c.line)[c.ind + 5],
           NEW air, air = X!OnAir(c, X!Bit(v, c.tx_ind))
    PROVE  /\ X!Current(c) = v /\ v \in Byte /\ c.tx_ind \in 0 .. 7
           /\ air \in Seq(Nat) /\ Len(air) = c.ind + 5
           /\ \A i \in 1 .. (c.ind + 4) : air[i] = X!Stream(c.line)[i]
           /\ air[c.ind + 5] = v \div (2^(c.tx_ind))
<1> DEFINE q == X!Stream(c.line)
           n == c.ind + 5
           k == c.tx_ind
           bit == X!Bit(v, k)
<1>1. /\ q \in Seq(Byte) /\ Len(q) = c.data_len + 6 /\ c.data_len \in Nat
  BY TextOf
<1>2. /\ c.ind \in -4 .. (c.data_len + 1) /\ k \in 0 .. 7 /\ c.air \in Seq(Nat)
      /\ Len(c.air) = c.ind + (IF k = 7 THEN 4 ELSE 5)
      /\ \A i \in 1 .. (c.ind + 4) : c.air[i] = q[i]
      /\ k # 7 => c.data = q[n] /\ c.air[n] = c.data \div (2^(k + 1))
      /\ c.line = SubSeq(c.data_out, 1, c.data_len)
  BY DEF ConInv, ConType, Busy
<1> HIDE DEF q
<1>3. n \in 1 .. Len(q) /\ c.ind \in Int
  <2>1. c.ind \in Int /\ -4 <= c.ind /\ c.ind <= c.data_len + 1
    BY <1>1, <1>2
  <2> DEFINE l == Len(q)
  <2>2. l = c.data_len + 6
    BY <1>1
  <2> HIDE DEF l
  <2>3. n \in 1 .. l
    BY <1>1, <2>1, <2>2, SMTT(60)
  <2>4. QED
    BY <2>1, <2>3 DEF l
<1>4. v \in Byte /\ v \in Nat
  <2>1. q[n] \in Byte
    <3>1. q \in Seq(Byte) /\ n \in 1 .. Len(q)
      BY <1>1, <1>3
    <3> HIDE DEF n
    <3>2. QED
      BY <3>1
  <2>2. QED
    BY <2>1 DEF q, Byte
<1>5. X!Current(c) = v
  BY <1>2 DEF X!Current, q
<1>6. CASE k = 7
  <2>1. bit = v \div (2^7) /\ bit \in Nat
    <3>1. v \div 128 \in Nat /\ 2^7 = 128
      BY <1>4
    <3>2. QED
      BY <1>4, <1>6, <3>1, FirstBit
  <2>2. air = Append(c.air, bit)
    BY <1>6 DEF X!OnAir
  <2> HIDE DEF bit
  <2>3. /\ air \in Seq(Nat) /\ Len(air) = Len(c.air) + 1 /\ air[Len(c.air) + 1] = bit
        /\ \A i \in 1 .. Len(c.air) : air[i] = c.air[i]
    <3>1. c.air \in Seq(Nat)
      BY <1>2
    <3>2. /\ Append(c.air, bit) \in Seq(Nat) /\ Len(Append(c.air, bit)) = Len(c.air) + 1
          /\ Append(c.air, bit)[Len(c.air) + 1] = bit
      BY <2>1, <3>1
    <3>3. \A i \in 1 .. Len(c.air) : Append(c.air, bit)[i] = c.air[i]
      BY <2>1, <3>1
    <3>4. QED
      BY <2>2, <3>2, <3>3
  <2>4. Len(c.air) = c.ind + 4 /\ Len(c.air) + 1 = c.ind + 5
    BY <1>2, <1>3, <1>6, SMTT(60)
  <2>5. QED
    BY <1>2, <1>4, <1>5, <1>6, <2>1, <2>3, <2>4 DEF q
<1>7. CASE k # 7
  <2>1. k \in 0 .. 6 /\ c.data = v /\ c.air[n] = v \div (2^(k + 1)) /\ Len(c.air) = n
    BY <1>2, <1>7 DEF q
  <2>2. 2 * c.air[n] + bit = v \div (2^k)
    BY <1>4, <2>1, ShiftOut
  <2>3. air = [c.air EXCEPT ![n] = 2 * c.air[n] + bit]
    BY <1>7, <2>1 DEF X!OnAir
  <2>4. v \div (2^k) \in Nat
    <3> DEFINE p == 2^k
    <3>1. p \in Nat \ {0}
      BY <2>1, Doubled
    <3> HIDE DEF p
    <3>2. v \div p \in Nat
      BY <1>4, <3>1
    <3>3. QED
      BY <3>2 DEF p
  <2> DEFINE w == v \div (2^k)
  <2>5. air = [c.air EXCEPT ![n] = w] /\ w \in Nat
    BY <2>2, <2>3, <2>4
  <2> HIDE DEF w, bit
  <2>6. n \in 1 .. Len(c.air) /\ c.air \in Seq(Nat)
    BY <1>2, <1>3, <2>1
  <2>7. air \in Seq(Nat) /\ Len(air) = n /\ air[n] = w
    BY <2>1, <2>5, <2>6
  <2>8. \A i \in 1 .. (n - 1) : air[i] = c.air[i]
    BY <2>1, <2>5, <2>6, SMTT(60)
  <2>9. n - 1 = c.ind + 4
    BY <1>3
  <2>10. QED
    BY <1>2, <1>4, <1>5, <2>7, <2>8, <2>9 DEF w, q
<1>8. QED
  BY <1>6, <1>7

LEMMA Sends ==
    ASSUME build \in Builds, NEW c, ConInv(c), c.ready = 1
    PROVE  ConInv(X!SendBit(c))
<1> DEFINE v == X!Stream(c.line)[c.ind + 5]
           k == c.tx_ind
           air == X!OnAir(c, X!Bit(v, k))
           d == X!SendBit(c)
<1>1. /\ X!Current(c) = v /\ v \in Byte /\ k \in 0 .. 7
      /\ air \in Seq(Nat) /\ Len(air) = c.ind + 5
      /\ \A i \in 1 .. (c.ind + 4) : air[i] = X!Stream(c.line)[i]
      /\ air[c.ind + 5] = v \div (2^k)
  BY BitSent
<1>2. /\ c.data_len \in 1 .. DataSize /\ c.line = SubSeq(c.data_out, 1, c.data_len)
      /\ c.ind \in Int /\ -4 <= c.ind /\ c.ind <= c.data_len + 1 /\ ConType(c)
  BY DEF ConInv, Busy
<1>3. /\ DOMAIN d = ConFields
      /\ d.udr = c.udr /\ d.typed = c.typed /\ d.data_out = c.data_out /\ d.data_len = c.data_len
      /\ d.line = c.line /\ d.air = air /\ d.data = v
      /\ IF k > 0 THEN d.tx_ind = k - 1 /\ d.ind = c.ind /\ d.ready = 1
         ELSE IF c.ind = c.data_len + 1 THEN d.tx_ind = 7 /\ d.ind = -4 /\ d.ready = 0
         ELSE d.tx_ind = 7 /\ d.ind = c.ind + 1 /\ d.ready = 1
  <2> DEFINE sent == [c EXCEPT !.data = v, !.pin = X!Bit(v, k), !.air = air]
  <2>1. d = IF k > 0 THEN [sent EXCEPT !.tx_ind = @ - 1]
            ELSE IF c.ind = c.data_len + 1 THEN [sent EXCEPT !.tx_ind = 7, !.ind = -4, !.ready = 0]
            ELSE [sent EXCEPT !.tx_ind = 7, !.ind = @ + 1]
    BY <1>1 DEF X!SendBit
  <2>2. DOMAIN c = ConFields
    BY <1>2 DEF ConType
  <2>3. /\ DOMAIN sent = ConFields /\ sent.data = v /\ sent.air = air
        /\ sent.udr = c.udr /\ sent.typed = c.typed /\ sent.data_out = c.data_out
        /\ sent.data_len = c.data_len /\ sent.line = c.line /\ sent.ready = 1
        /\ sent.ind = c.ind /\ sent.tx_ind = k
    <3> HIDE DEF v, air
    <3>1. QED
      BY <2>2 DEF ConFields
  <2> HIDE DEF sent, d, v, air
  <2>4. CASE k > 0
    BY <2>1, <2>3, <2>4 DEF ConFields
  <2>5. CASE ~(k > 0) /\ c.ind = c.data_len + 1
    BY <2>1, <2>3, <2>5 DEF ConFields
  <2>6. CASE ~(k > 0) /\ c.ind # c.data_len + 1
    BY <2>1, <2>3, <2>6 DEF ConFields
  <2>7. QED
    BY <2>4, <2>5, <2>6
<1>4. ConType(d)
  BY <1>1, <1>2, <1>3 DEF ConType
<1>5. CASE k > 0
  <2>1. k - 1 \in 0 .. 6 /\ (k - 1) + 1 = k /\ k - 1 # 7
    <3>1. k \in 0 .. 7
      BY <1>1
    <3> HIDE DEF k
    <3>2. QED
      BY <1>5, <3>1
  <2>2. d.ready = 1 /\ d.tx_ind = k - 1 /\ d.ind = c.ind
    BY <1>3, <1>5, SMTT(60)
  <2>3. Busy(d)
    BY <1>1, <1>2, <1>3, <2>1, <2>2 DEF Busy
  <2>4. QED
    BY <1>4, <2>2, <2>3 DEF ConInv, Idle
<1>6. CASE k = 0
  <2>1. air[c.ind + 5] = v
    BY <1>1, <1>6, FirstBit
  <2>2. CASE c.ind = c.data_len + 1
    <3>1. d.ready = 0 /\ d.ind = -4 /\ d.tx_ind = 7 /\ d.line = c.line /\ d.air = air
      BY <1>3, <1>6, <2>2
    <3> DEFINE q == X!Stream(c.line)
    <3>2. q \in Seq(Byte) /\ Len(q) = c.data_len + 6 /\ c.data_len \in Nat
      BY TextOf
    <3>3. Len(q) = c.ind + 5
      BY <1>2, <2>2, <3>2
    <3> HIDE DEF q
    <3>4. \A i \in 1 .. Len(q) : air[i] = q[i]
      <4>1. TAKE i \in 1 .. Len(q)
      <4>2. i \in 1 .. (c.ind + 4) \/ i = c.ind + 5
        BY <1>2, <3>3
      <4>3. QED
        BY <1>1, <2>1, <4>2 DEF q
    <3>5. Len(air) = Len(q) /\ air \in Seq(Nat)
      BY <1>1, <3>3
    <3>6. air = q
      <4> HIDE DEF air
      <4>1. QED
        BY <3>2, <3>4, <3>5, SameSequence
    <3>7. QED
      BY <1>4, <3>1, <3>6 DEF ConInv, Idle, Busy, q
  <2>3. CASE c.ind # c.data_len + 1
    <3>1. d.ready = 1 /\ d.ind = c.ind + 1 /\ d.tx_ind = 7 /\ d.line = c.line /\ d.air = air
      BY <1>3, <1>6, <2>3
    <3>2. /\ c.data_len \in Int /\ d.ind \in -4 .. (c.data_len + 1)
          /\ c.ind + 5 = d.ind + 4
      <4>1. c.data_len \in Nat
        BY TextOf
      <4>2. /\ c.ind \in Int /\ -4 <= c.ind /\ c.ind <= c.data_len + 1 /\ d.ind = c.ind + 1
        BY <1>2, <3>1
      <4> HIDE DEF d
      <4>3. QED
        BY <2>3, <4>1, <4>2
    <3>3. \A i \in 1 .. (d.ind + 4) : air[i] = X!Stream(c.line)[i]
      <4>1. TAKE i \in 1 .. (d.ind + 4)
      <4>2. i \in 1 .. (c.ind + 4) \/ i = c.ind + 5
        BY <1>2, <3>2, SMTT(60)
      <4>3. QED
        BY <1>1, <2>1, <4>2
    <3>4. Busy(d)
      BY <1>1, <1>2, <1>3, <3>1, <3>2, <3>3 DEF Busy
    <3>5. QED
      BY <1>4, <3>1, <3>4 DEF ConInv, Idle
  <2>4. QED
    BY <2>2, <2>3
<1>7. QED
  BY <1>1, <1>5, <1>6, SMTT(60)

\* A character, or the end of the line, taken while no packet is being sent.
LEMMA Takes ==
    ASSUME NEW c, ConInv(c), c.ready = 0,
           NEW e, e = (IF c.udr = 10 THEN X!EndLine(c) ELSE X!AddChar(c)),
           NEW d, d = [e EXCEPT !.udr = 0]
    PROVE  ConInv(d)
<1> DEFINE n == c.typed
<1>1. ConType(c) /\ c.ind = -4 /\ c.tx_ind = 7 /\ Idle(c) /\ DOMAIN c = ConFields
  BY SMTT(60) DEF ConInv, ConType, Idle
<1>2. n \in Nat /\ n <= DataSize /\ DataSize \in Nat /\ 0 \in Byte
  BY <1>1, BoardAssumption, SMTT(60) DEF ConType, Byte
<1>3. CASE c.udr = 10 /\ n # 0
  <2> DEFINE line == SubSeq(c.data_out, 1, n)
  <2>1. e = [c EXCEPT !.data_len = n, !.ready = 1, !.typed = 0, !.line = line, !.air = <<>>]
    BY <1>3 DEF X!EndLine
  <2> HIDE DEF n, line
  <2>2. /\ DOMAIN d = ConFields /\ d.udr = 0 /\ d.data_len = n /\ d.ready = 1 /\ d.typed = 0
        /\ d.line = line /\ d.air = <<>> /\ d.data_out = c.data_out
        /\ d.ind = -4 /\ d.tx_ind = 7
    BY <1>1, <2>1, ZenonT(60) DEF ConFields
  <2>3. c.data_out \in Seq(Byte) /\ Len(c.data_out) = DataSize
    BY <1>1 DEF ConType
  <2>4. line \in Seq(Byte) /\ Len(line) = n
    BY <1>2, <2>3 DEF line
  <2>5. n \in 1 .. DataSize /\ d.typed \in 0 .. DataSize /\ -4 \in -4 .. (n + 1)
    BY <1>2, <1>3, <2>2 DEF n
  <2>6. ConType(d)
    <3>1. d.line \in Seq(Byte) /\ Len(d.line) <= DataSize
      BY <1>2, <2>2, <2>4 DEF n
    <3>2. d.air \in Seq(Nat) /\ d.udr \in Byte /\ d.ready \in {0, 1}
      <4>1. <<>> \in Seq(Nat)
        OBVIOUS
      <4>2. QED
        BY <1>2, <2>2, <4>1
    <3>3. d.data_out \in Seq(Byte) /\ Len(d.data_out) = DataSize
      BY <2>2, <2>3
    <3>4. QED
      BY <2>2, <2>5, <3>1, <3>2, <3>3 DEF ConType
  <2>7. Busy(d)
    <3>1. Len(d.air) = d.ind + 4 /\ d.ind + 4 = 0
      BY <2>2
    <3>2. \A i \in 1 .. (d.ind + 4) : d.air[i] = X!Stream(d.line)[i]
      BY <3>1
    <3>3. d.data_len \in 1 .. DataSize /\ d.ind \in -4 .. (d.data_len + 1) /\ d.tx_ind \in 0 .. 7
      BY <2>2, <2>5
    <3>4. d.line = SubSeq(d.data_out, 1, d.data_len) /\ d.tx_ind = 7
      BY <2>2 DEF line
    <3>5. QED
      BY <3>1, <3>2, <3>3, <3>4 DEF Busy
  <2>8. QED
    BY <2>2, <2>6, <2>7 DEF ConInv, Idle
<1>4. CASE c.udr # 10 /\ n < DataSize
  <2> DEFINE data_ == [c.data_out EXCEPT ![n + 1] = c.udr]
  <2>1. e = [c EXCEPT !.data_out = data_, !.typed = n + 1]
    BY <1>1, <1>4 DEF X!AddChar, ConFields
  <2> HIDE DEF n, data_
  <2>2. /\ DOMAIN d = ConFields /\ d.udr = 0 /\ d.ready = 0 /\ d.typed = n + 1
        /\ d.line = c.line /\ d.air = c.air /\ d.data_out = data_
        /\ d.ind = -4 /\ d.tx_ind = 7
    BY <1>1, <2>1, ZenonT(60) DEF ConFields
  <2>3. data_ \in Seq(Byte) /\ Len(data_) = DataSize
    <3>1. c.data_out \in Seq(Byte) /\ Len(c.data_out) = DataSize /\ c.udr \in Byte
      BY <1>1 DEF ConType
    <3>2. n + 1 \in 1 .. Len(c.data_out)
      BY <1>2, <1>4, <3>1 DEF n
    <3> DEFINE m == n + 1
    <3> HIDE DEF m, n
    <3>3. m \in 1 .. Len(c.data_out) /\ data_ = [c.data_out EXCEPT ![m] = c.udr]
      BY <3>2 DEF data_, m
    <3>4. data_ \in Seq(Byte) /\ Len(data_) = Len(c.data_out)
      BY <3>1, <3>3
    <3>5. QED
      BY <3>1, <3>4
  <2>4. n + 1 \in 0 .. DataSize
    BY <1>2, <1>4 DEF n
  <2>5. ConType(d) /\ Idle(d)
    BY <1>1, <1>2, <2>2, <2>3, <2>4 DEF ConType, Idle
  <2>6. QED
    BY <2>2, <2>5 DEF ConInv, Busy
<1>5. CASE (c.udr = 10 /\ n = 0) \/ (c.udr # 10 /\ ~(n < DataSize))
  <2>1. e = c
    BY <1>5 DEF X!EndLine, X!AddChar
  <2>2. d = [c EXCEPT !.udr = 0]
    BY <2>1
  <2>3. /\ DOMAIN d = ConFields /\ d.udr = 0 /\ d.ready = 0 /\ d.typed = c.typed
        /\ d.line = c.line /\ d.air = c.air /\ d.data_out = c.data_out
        /\ d.ind = -4 /\ d.tx_ind = 7
    BY <1>1, <2>2 DEF ConFields
  <2>4. ConType(d) /\ Idle(d)
    BY <1>1, <1>2, <2>3 DEF ConType, Idle
  <2>5. QED
    BY <2>3, <2>4 DEF ConInv, Busy
<1>6. QED
  BY <1>3, <1>4, <1>5

LEMMA Ticks ==
    ASSUME build \in Builds, NEW c, ConInv(c)
    PROVE  ConInv(X!send_data(c))
<1>1. CASE c.ready = 1 /\ c.clk_i = 7
  BY <1>1, Sends DEF X!send_data
<1>2. CASE ~(c.ready = 1 /\ c.clk_i = 7)
  <2>1. DOMAIN c = ConFields /\ X!send_data(c) = X!SendClock(c)
    BY <1>2 DEF X!send_data, ConInv, ConType
  <2>2. QED
    BY <2>1, Clocks, SameLineKeeps
<1>3. QED
  BY <1>1, <1>2

LEMMA ConsoleStep ==
    ASSUME ConsoleInv, [X!Next]_(X!vars)
    PROVE  ConsoleInv'
<1>1. build \in Builds /\ keys \in Nat /\ DOMAIN con = X!Boards /\ \A b \in X!Boards : ConInv(con[b])
  BY DEF ConsoleInv
<1>2. SUFFICES ASSUME TRUE
               PROVE  /\ build' = build /\ keys' \in Nat /\ DOMAIN con' = X!Boards
                      /\ \A b \in X!Boards : ConInv(con'[b])
  <2>1. /\ build' = build /\ keys' \in Nat /\ DOMAIN con' = X!Boards
        /\ \A b \in X!Boards : ConInv(con'[b])
    BY <1>2
  <2>2. ASSUME NEW b \in X!Boards PROVE ConInv(con[b])'
    <3>1. ConType(con'[b]) /\ Idle(con'[b]) /\ Busy(con'[b])
      BY <2>1, <2>2 DEF ConInv
    <3>2. ConType(con[b])'
      BY <3>1 DEF ConType
    <3>3. Idle(con[b])'
      BY <2>1, <3>1, ZenonT(60) DEF Idle, X!Stream
    <3>4. Busy(con[b])'
      BY <2>1, <3>1 DEF Busy, X!Stream
    <3>5. QED
      BY <3>2, <3>3, <3>4 DEF ConInv
  <2>3. QED
    BY <1>1, <2>1, <2>2 DEF ConsoleInv, X!Boards
<1>3. ASSUME NEW b \in X!Boards, X!Next10(b)
      PROVE  /\ build' = build /\ keys' = keys /\ DOMAIN con' = X!Boards
             /\ \A o \in X!Boards : ConInv(con'[o])
  <2>1. /\ build' = build /\ keys' = keys
        /\ con' = [o \in X!Boards |->
                       IF o = b THEN X!send_data(X!recv_data(b))
                       ELSE [con[o] EXCEPT !.due = IF @ > con[b].due THEN @ - con[b].due ELSE 0]]
    BY <1>3 DEF X!Next10
  <2>2. ConInv(X!send_data(X!recv_data(b)))
    <3>1. ConInv(X!recv_data(b))
      BY <1>1, <1>3, Receives, SameLineKeeps DEF ConInv, ConType
    <3>2. QED
      BY <1>1, <3>1, Ticks
  <2>3. ASSUME NEW o \in X!Boards, o # b PROVE ConInv(con'[o])
    <3> DEFINE ms == IF con[o].due > con[b].due THEN con[o].due - con[b].due ELSE 0
    <3>1. ConInv(con[o]) /\ DOMAIN con[o] = ConFields
      BY <1>1 DEF ConInv, ConType
    <3>2. con'[o] = [con[o] EXCEPT !.due = ms]
      BY <2>1, <2>3, <3>1 DEF ConFields
    <3> HIDE DEF ms
    <3>3. QED
      BY <3>1, <3>2, Waits, SameLineKeeps
  <2>4. con'[b] = X!send_data(X!recv_data(b)) /\ DOMAIN con' = X!Boards
    BY <1>3, <2>1
  <2>5. QED
    BY <2>1, <2>2, <2>3, <2>4
<1>4. ASSUME NEW b \in X!Boards, X!UsartRxc(b)
      PROVE  /\ build' = build /\ keys' = keys /\ DOMAIN con' = X!Boards
             /\ \A o \in X!Boards : ConInv(con'[o])
  <2> DEFINE c == con[b]
             d == [(IF c.udr = 10 THEN X!EndLine(c) ELSE X!AddChar(c)) EXCEPT !.udr = 0]
  <2>1. /\ build' = build /\ keys' = keys /\ con' = [con EXCEPT ![b] = d] /\ c.ready = 0
    BY <1>4 DEF X!UsartRxc
  <2>2. ConInv(d)
    BY <1>1, <1>4, <2>1, Takes DEF X!Boards
  <2> HIDE DEF d
  <2>3. QED
    BY <1>1, <1>4, <2>1, <2>2
<1>5. CASE X!Type
  <2> DEFINE ch == Text[keys + 1]
             c == con[1]
             d == [c EXCEPT !.udr = ch]
  <2>1. /\ build' = build /\ con' = [con EXCEPT ![1] = d] /\ keys < Len(Text) /\ keys' = keys + 1
    BY <1>5 DEF X!Type
  <2>2. ch \in Byte
    <3> DEFINE m == keys + 1
    <3>1. Text \in Seq(Byte \ {0})
      BY BoardAssumption
    <3>2. m \in 1 .. Len(Text)
      BY <1>1, <2>1, <3>1
    <3> HIDE DEF m
    <3>3. Text[m] \in Byte
      BY <3>1, <3>2
    <3>4. QED
      BY <3>3 DEF m
  <2> HIDE DEF ch
  <2>3. ConInv(c) /\ DOMAIN c = ConFields /\ 1 \in X!Boards
    BY <1>1 DEF X!Boards, ConInv, ConType
  <2>4. ConInv(d)
    <3>1. /\ DOMAIN d = ConFields /\ d.udr = ch /\ d.typed = c.typed
          /\ d.data_out = c.data_out /\ d.data_len = c.data_len
          /\ d.ready = c.ready /\ d.line = c.line /\ d.air = c.air
          /\ d.ind = c.ind /\ d.tx_ind = c.tx_ind /\ d.data = c.data
      BY <2>3 DEF ConFields
    <3> HIDE DEF d
    <3>2. QED
      BY <2>2, <2>3, <3>1, ZenonT(60) DEF ConInv, ConType, Idle, Busy
  <2> HIDE DEF d
  <2>5. QED
    BY <1>1, <2>1, <2>3, <2>4
<1>6. CASE UNCHANGED X!vars
  BY <1>1, <1>6 DEF X!vars
<1>7. CASE X!Program
  <2>1. PICK b \in X!Boards : X!Next10(b) \/ X!UsartRxc(b)
    BY <1>7 DEF X!Program
  <2>2. QED
    BY <1>1, <1>3, <1>4, <2>1
<1>8. QED
  BY <1>5, <1>6, <1>7 DEF X!Next

LEMMA ConsoleInit ==
    ASSUME X!Init
    PROVE  ConsoleInv
<1>1. PICK s \in Starts :
          con = <<[X!Fresh EXCEPT !.clk_i = s.clk, !.due = 10], [X!Fresh EXCEPT !.due = s.ms]>>
  BY Zenon DEF X!Init
<1>2. build \in Builds /\ keys = 0 /\ keys \in Nat /\ DataSize \in Nat /\ 0 \in Byte
  <2>1. build \in Builds /\ keys = 0
    BY DEF X!Init
  <2>2. DataSize \in Nat
    BY BoardAssumption
  <2>3. 0 \in Byte
    BY DEF Byte
  <2>4. QED
    BY <2>1, <2>2, <2>3
<1> DEFINE zeros == [i \in 1 .. DataSize |-> 0]
<1>3. zeros \in Seq(Byte) /\ Len(zeros) = DataSize
  BY <1>2
<1> HIDE DEF zeros
<1>4. ASSUME NEW c, DOMAIN c = ConFields, c.udr = 0, c.typed = 0, c.data_out = zeros, c.ready = 0,
             c.line = <<>>, c.air = <<>>, c.ind = -4, c.tx_ind = 7
      PROVE  ConInv(c)
  <2>1. <<>> \in Seq(Byte) /\ <<>> \in Seq(Nat) /\ Len(<<>>) = 0 /\ 0 <= DataSize
    BY <1>2
  <2>2. ConType(c)
    BY <1>2, <1>3, <1>4, <2>1 DEF ConType
  <2>3. QED
    BY <1>4, <2>2 DEF ConInv, Idle, Busy
<1>5. ConInv(con[1])
  <2> DEFINE c == con[1]
  <2>1. c = [X!Fresh EXCEPT !.clk_i = s.clk, !.due = 10]
    BY <1>1
  <2>2. /\ DOMAIN c = ConFields /\ c.udr = 0 /\ c.typed = 0 /\ c.data_out = zeros /\ c.ready = 0
        /\ c.line = <<>> /\ c.air = <<>> /\ c.ind = -4 /\ c.tx_ind = 7
    BY <2>1 DEF X!Fresh, ConFields, zeros
  <2>3. QED
    BY <1>4, <2>2
<1>6. ConInv(con[2])
  <2> DEFINE c == con[2]
  <2>1. c = [X!Fresh EXCEPT !.due = s.ms]
    BY <1>1
  <2>2. /\ DOMAIN c = ConFields /\ c.udr = 0 /\ c.typed = 0 /\ c.data_out = zeros /\ c.ready = 0
        /\ c.line = <<>> /\ c.air = <<>> /\ c.ind = -4 /\ c.tx_ind = 7
    BY <2>1 DEF X!Fresh, ConFields, zeros
  <2>3. QED
    BY <1>4, <2>2
<1>7. DOMAIN con = X!Boards
  BY <1>1 DEF X!Boards
<1>8. QED
  BY <1>2, <1>5, <1>6, <1>7 DEF ConsoleInv, X!Boards

LEMMA ConsoleAlways == FairSpec => [](app = "console" => ConsoleInv)
<1>1. Init => (app = "console" => ConsoleInv)
  BY ConsoleInit DEF Init
<1>2. (app = "console" => ConsoleInv) /\ [Next]_vars => (app = "console" => ConsoleInv)'
  BY AppStep, ConsoleStep
<1>3. QED
  BY <1>1, <1>2, PTL DEF FairSpec

LEMMA FrontOf ==
    ASSUME NEW s, s \in Seq(Nat), NEW u, u \in Seq(Byte), NEW n \in Nat, n <= Len(s), n <= Len(u),
           \A i \in 1 .. n : s[i] = u[i]
    PROVE  SubSeq(s, 1, n) = SubSeq(u, 1, n) /\ Len(SubSeq(s, 1, n)) = n
<1>1. /\ SubSeq(s, 1, n) \in Seq(Nat) /\ Len(SubSeq(s, 1, n)) = n
      /\ \A i \in 1 .. n : SubSeq(s, 1, n)[i] = s[i]
  OBVIOUS
<1>2. /\ SubSeq(u, 1, n) \in Seq(Byte) /\ Len(SubSeq(u, 1, n)) = n
      /\ \A i \in 1 .. n : SubSeq(u, 1, n)[i] = u[i]
  OBVIOUS
<1> DEFINE x == SubSeq(s, 1, n)
           y == SubSeq(u, 1, n)
<1>3. x \in Seq(Nat) /\ y \in Seq(Byte) /\ Len(x) = n /\ Len(y) = n /\ \A i \in 1 .. n : x[i] = y[i]
  BY <1>1, <1>2
<1> HIDE DEF x, y
<1>4. x = y
  BY <1>3, SameSequence
<1>5. QED
  BY <1>3, <1>4 DEF x, y

\* Whatever is typed while it is sent, and however the two boards' clocks stand, what is
\* on the air is the packet of the line handed over.
THEOREM ConsoleSendsLine == FairSpec => []SentAsTyped
<1>1. ASSUME ConsoleInv, NEW b \in X!Boards
      PROVE  LET c == con[b]
                 complete == IF c.tx_ind = 7 THEN c.air ELSE SubSeq(c.air, 1, Len(c.air) - 1)
             IN IF c.ready = 1 THEN complete = SubSeq(X!Stream(c.line), 1, Len(complete))
                ELSE c.line # <<>> => complete = X!Stream(c.line)
  <2> DEFINE c == con[b]
             q == X!Stream(c.line)
             complete == IF c.tx_ind = 7 THEN c.air ELSE SubSeq(c.air, 1, Len(c.air) - 1)
  <2>1. ConInv(c) /\ build \in Builds /\ c.ready \in {0, 1}
    BY <1>1 DEF ConsoleInv, ConInv, ConType
  <2>2. CASE c.ready = 0
    BY <2>1, <2>2 DEF ConInv, Idle
  <2>3. CASE c.ready = 1
    <3> DEFINE n == c.ind + 4
    <3>1. /\ q \in Seq(Byte) /\ Len(q) = c.data_len + 6 /\ c.data_len \in Nat
      BY <2>1, <2>3, TextOf
    <3>2. /\ c.air \in Seq(Nat) /\ c.ind \in -4 .. (c.data_len + 1)
          /\ Len(c.air) = c.ind + (IF c.tx_ind = 7 THEN 4 ELSE 5)
          /\ \A i \in 1 .. n : c.air[i] = q[i]
      BY <2>1, <2>3 DEF ConInv, ConType, Busy
    <3>3. c.ind \in Int /\ n \in Nat /\ n <= c.data_len + 6
      <4>1. c.ind \in Int /\ -4 <= c.ind /\ c.ind <= c.data_len + 1
        BY <3>1, <3>2
      <4>2. c.data_len \in Nat
        BY <3>1
      <4> DEFINE j == c.ind
                 l == c.data_len
      <4> HIDE DEF j, l
      <4>3. j \in Int /\ j + 4 \in Nat /\ j + 4 <= l + 6
        BY <4>1, <4>2 DEF j, l
      <4>4. QED
        BY <4>3 DEF j, l
    <3>4. n <= Len(c.air) /\ n <= Len(q)
      BY <3>1, <3>2, <3>3
    <3>5. complete = SubSeq(c.air, 1, n)
      <4>1. CASE c.tx_ind = 7
        <5>1. Len(c.air) = n
          BY <3>2, <4>1
        <5>2. SubSeq(c.air, 1, Len(c.air)) = c.air
          BY <3>2
        <5>3. QED
          BY <4>1, <5>1, <5>2
      <4>2. CASE c.tx_ind # 7
        <5>1. Len(c.air) - 1 = n
          BY <3>2, <3>3, <4>2
        <5>2. QED
          BY <4>2, <5>1
      <4>3. QED
        BY <4>1, <4>2
    <3> HIDE DEF n, q, complete
    <3>6. complete = SubSeq(q, 1, n) /\ Len(complete) = n
      BY <3>1, <3>2, <3>3, <3>4, <3>5, FrontOf
    <3>7. QED
      BY <2>3, <3>6 DEF q, complete
  <2>4. QED
    BY <2>1, <2>2, <2>3
<1>2. (app = "console" => ConsoleInv) => SentAsTyped
  BY <1>1 DEF SentAsTyped, X!SentAsTyped
<1>3. QED
  BY <1>2, ConsoleAlways, PTL
=============================================================================
