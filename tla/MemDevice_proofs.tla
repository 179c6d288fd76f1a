-------------------------- MODULE MemDevice_proofs --------------------------
(***************************************************************************)
(* Proofs about MemDevice, for every geometry GeometryAssumption allows:    *)
(* the arithmetic of the page buffer, what it protects, and that the       *)
(* device implements LogicalMemory.                                        *)
(***************************************************************************)
EXTENDS MemDevice, TLAPS

(* Page arithmetic.  Everything about remainders is said with page-aligned    *)
(* addresses, so that the proofs below only add and compare.                  *)

Aligned(a) == \E q \in Nat : a = q * PageSize

\* The width of a word, for the proofs that need no more of it than this.
LEMMA WordSize == Word \in Nat /\ Word >= 3
BY DEF Word

LEMMA PageSizeType == PageSize \in Nat /\ PageSize >= 1 /\ PageSize < Word
<1>1. PageSize \in 2 .. (Word - 1)
  BY Zenon, GeometryAssumption DEF GeometryAssumption
<1>2. QED
  BY <1>1, WordSize

LEMMA Remainder ==
    ASSUME NEW a \in Nat, NEW n \in Nat, n >= 1
    PROVE  a % n \in 0 .. (n - 1) /\ \E q \in Nat : a = q * n + (a % n)
<1>1. a % n \in 0 .. (n - 1)
  OBVIOUS
<1>2. a \div n \in Nat /\ a = (a \div n) * n + (a % n)
  OBVIOUS
<1>3. QED
  BY <1>1, <1>2

LEMMA RemainderIsUnique ==
    ASSUME NEW q \in Nat, NEW n \in Nat, n >= 1, NEW r \in 0 .. (n - 1)
    PROVE  (q * n + r) % n = r
  OBVIOUS

LEMMA AlignedNext ==
    ASSUME NEW a \in Int, Aligned(a)
    PROVE  Aligned(a + PageSize)
<1>1. PICK q \in Nat : a = q * PageSize
  BY DEF Aligned
<1>2. a + PageSize = (q + 1) * PageSize
  BY <1>1, PageSizeType
<1>3. QED
  BY <1>2 DEF Aligned

LEMMA AlignedSum ==
    ASSUME NEW a \in Int, NEW b \in Int, Aligned(a), Aligned(b)
    PROVE  Aligned(a + b)
<1>1. PICK q \in Nat : a = q * PageSize
  BY DEF Aligned
<1>2. PICK r \in Nat : b = r * PageSize
  BY DEF Aligned
<1>3. a + b = (q + r) * PageSize
  BY <1>1, <1>2, PageSizeType
<1>4. QED
  BY <1>3 DEF Aligned

LEMMA AlignedGap ==
    ASSUME NEW a \in Int, NEW b \in Int, Aligned(a), Aligned(b), a > b - PageSize
    PROVE  a >= b
<1>1. PICK q \in Nat : a = q * PageSize
  BY DEF Aligned
<1>2. PICK r \in Nat : b = r * PageSize
  BY DEF Aligned
<1>3. CASE q >= r
  <2>1. q * PageSize >= r * PageSize
    BY <1>3, PageSizeType
  <2>2. QED
    BY <1>1, <1>2, <2>1
<1>4. CASE q <= r - 1
  <2>1. q * PageSize <= (r - 1) * PageSize
    BY <1>4, PageSizeType
  <2>2. (r - 1) * PageSize = r * PageSize - PageSize
    BY PageSizeType
  <2>3. QED
    BY <1>1, <1>2, <2>1, <2>2, PageSizeType
<1>5. QED
  BY <1>3, <1>4

LEMMA AlignedIsPage ==
    ASSUME NEW a \in Nat, Aligned(a)
    PROVE  \E q \in 0 .. a : a = q * PageSize
<1>1. PICK q \in Nat : a = q * PageSize
  BY DEF Aligned
<1>2. q <= q * PageSize
  BY PageSizeType
<1>3. QED
  BY <1>1, <1>2

LEMMA AlignedRemainder ==
    ASSUME NEW a \in Int, Aligned(a), NEW r \in 0 .. (PageSize - 1)
    PROVE  (a + r) % PageSize = r
<1>1. PICK q \in Nat : a = q * PageSize
  BY DEF Aligned
<1>2. QED
  BY <1>1, PageSizeType, RemainderIsUnique

LEMMA AlignedPage ==
    ASSUME NEW a \in Nat
    PROVE  a % PageSize \in 0 .. (PageSize - 1) /\ Aligned(a - (a % PageSize))
<1>1. a % PageSize \in 0 .. (PageSize - 1)
  BY PageSizeType, Remainder
<1>2. PICK q \in Nat : a = q * PageSize + (a % PageSize)
  BY PageSizeType, Remainder
<1>3. a - (a % PageSize) = q * PageSize
  BY <1>1, <1>2, PageSizeType
<1>4. QED
  BY <1>1, <1>3 DEF Aligned

LEMMA Geometry ==
    /\ FlashStart \in Nat /\ FlashSize \in Nat /\ BlAddr \in Nat /\ FlashEnd \in Nat
    /\ FlashStart < FlashSize /\ FlashSize <= BlAddr /\ BlAddr <= FlashEnd
    /\ FlashEnd < Word
    /\ Aligned(FlashStart) /\ Aligned(FlashSize)
    /\ EepromSize \in Nat /\ EepromSize >= 1 /\ EepromSize < Word
<1>1. /\ FlashStart \in Nat /\ FlashSize \in Nat /\ BlAddr \in Nat /\ FlashEnd \in Nat
      /\ FlashStart < FlashSize /\ FlashSize <= BlAddr /\ BlAddr <= FlashEnd
      /\ FlashEnd < Word
      /\ EepromSize \in 1 .. (Word - 1)
      /\ \E p \in 0 .. FlashStart : FlashStart = p * PageSize
      /\ \E q \in 0 .. FlashSize : FlashSize = q * PageSize
  BY GeometryAssumption, ZenonT(60) DEF GeometryAssumption
<1>2. EepromSize \in Nat /\ EepromSize >= 1 /\ EepromSize < Word
  BY <1>1, WordSize
<1>3. \A n \in Nat : \A q \in 0 .. n : q \in Nat
  OBVIOUS
<1>4. Aligned(FlashStart) /\ Aligned(FlashSize)
  BY Zenon, <1>1, <1>3 DEF Aligned
<1>5. QED
  BY Zenon, <1>1, <1>2, <1>4

-----------------------------------------------------------------------------
(* Type correctness.  It needs that a message that is being stored fits: the  *)
(* loop of usbFunctionWriteOut() has no check of its own.                      *)

FitsInv ==
    /\ mem_wr_off + Len(out) <= mem_size(mem_type)
    /\ pc \notin Storing => mem_i = 0 /\ Len(out) = 0
    /\ pc \in {"erase", "program"} =>
          mem_type = "flash" /\ BufIndex = PageSize - 1 /\ mem_i < Len(out)

LEMMA SizeFacts ==
    /\ mem_size("eeprom") = EepromSize
    /\ mem_size("flash") = FlashSize - FlashStart
    /\ \A t \in MemTypes : mem_size(t) \in Nat /\ mem_size(t) >= 1
BY Geometry DEF mem_size, MemTypes

LEMMA PacketType == Packet \in Nat /\ Packet >= 1
<1>1. Packet \in Nat \ {0}
  BY Zenon, GeometryAssumption DEF GeometryAssumption
<1>2. QED
  BY <1>1

LEMMA ClipType ==
    ASSUME NEW t \in MemTypes, NEW o \in Offset
    PROVE  Clip(t, o) \in 0 .. mem_size(t)
<1>1. o \in 0 .. (Word - 1)
  BY Zenon, DataAssumption DEF DataAssumption
<1>2. o \in Nat
  BY <1>1, WordSize
<1>3. QED
  BY <1>2, SizeFacts DEF Clip

LEMMA FollowingType ==
    ASSUME NEW t \in MemTypes, NEW o \in Nat
    PROVE  FollowingOff(t, o) \in 0 .. mem_size(t)
BY SizeFacts, PacketType DEF FollowingOff

LEMMA WindowType ==
    ASSUME TypeOK, NEW t \in MemTypes, NEW o \in 0 .. mem_size(t)
    PROVE  Window(t, o) \in Seq(Byte)
<1> DEFINE n == IF mem_size(t) - o < Packet THEN mem_size(t) - o ELSE Packet
<1>1. n \in Nat /\ n <= mem_size(t) - o
  BY SizeFacts, PacketType
<1>2. ASSUME NEW i \in 1 .. n PROVE mem_read_byte(t, o + i - 1) \in Byte
  <2>1. o + i - 1 \in 0 .. (mem_size(t) - 1)
    BY <1>1, SizeFacts
  <2>2. CASE t = "flash"
    <3>1. FlashStart + (o + i - 1) \in 0 .. FlashEnd
      BY <2>1, <2>2, SizeFacts, Geometry
    <3>2. QED
      BY <2>2, <3>1 DEF mem_read_byte, TypeOK
  <2>3. CASE t = "eeprom"
    <3>1. o + i - 1 \in 0 .. (EepromSize - 1)
      BY <2>1, <2>3, SizeFacts
    <3>2. QED
      BY <2>3, <3>1 DEF mem_read_byte, TypeOK
  <2>4. QED
    BY <2>2, <2>3 DEF MemTypes
<1>3. Window(t, o) = [i \in 1 .. n |-> mem_read_byte(t, o + i - 1)]
  BY DEF Window
<1> HIDE DEF n
<1>4. QED
  BY <1>1, <1>2, <1>3

LEMMA PayloadType == \A d \in Payload : d \in Seq(Byte) /\ Len(d) \in Nat
<1>1. \A d \in Payload : d \in Seq(Byte)
  BY DataAssumption
<1>2. QED
  BY <1>1

LEMMA WordType ==
    Word \in Nat /\ Word >= 1 /\ 0 \in 0 .. (Word - 1)
BY WordSize

LEMMA WordRemainder ==
    ASSUME NEW a \in Int
    PROVE  a % Word \in 0 .. (Word - 1)
<1>1. \A n \in Nat : n >= 1 => a % n \in 0 .. (n - 1)
  OBVIOUS
<1>2. QED
  BY <1>1, WordType

LEMMA PrefixAddress ==
    ASSUME NEW w \in Nat, w <= FlashSize - FlashStart,
           NEW i \in Nat, i < w % PageSize
    PROVE  FlashStart + (w - (w % PageSize)) + i \in 0 .. FlashEnd
<1>1. PICK r \in 0 .. (PageSize - 1) : r = w % PageSize /\ Aligned(w - r)
  BY AlignedPage
<1>2. \A q \in Nat : q * PageSize >= 0
  BY PageSizeType
<1>3. w - r >= 0
  BY <1>1, <1>2 DEF Aligned
<1>4. FlashStart + (w - r) + i \in 0 .. FlashEnd
  BY <1>1, <1>3, Geometry, PageSizeType
<1>5. QED
  BY <1>1, <1>4

LEMMA InitType == Init => TypeOK /\ FitsInv
<1> SUFFICES ASSUME Init PROVE TypeOK /\ FitsInv
  OBVIOUS
<1>1. Eeprom0 \in [0 .. (EepromSize - 1) -> Byte] /\ Flash0 \in [0 .. FlashEnd -> Byte]
      /\ Erased \in Byte
  BY Zenon, DataAssumption DEF DataAssumption
<1>2. TypeOK
  <2>1. mem_type = "eeprom" /\ mem_type \in MemTypes /\ mem_size(mem_type) \in Nat
    BY SizeFacts DEF Init, MemTypes
  <2>2. /\ mem_rd_off \in 0 .. mem_size(mem_type) /\ mem_wr_off \in 0 .. mem_size(mem_type)
        /\ fwp_buf_off \in 0 .. (Word - 1)
    BY <2>1, WordType DEF Init
  <2>3. flash_write_page_buffer \in [0 .. (PageSize - 1) -> Byte]
    BY <1>1 DEF Init
  <2>4. in1.off \in Nat /\ in1.data \in Seq(Byte) /\ out \in Seq(Byte) /\ mem_i \in 0 .. Len(out)
    BY DEF Init
  <2>5. pc \in {"poll", "ready"} \cup Storing
    BY DEF Init
  <2>6. QED
    BY <1>1, <2>1, <2>2, <2>3, <2>4, <2>5 DEF Init, TypeOK
<1>3. FitsInv
  BY SizeFacts DEF Init, FitsInv, Storing, MemTypes
<1>4. QED
  BY <1>2, <1>3

LEMMA CutType ==
    ASSUME NEW d \in Seq(Byte), NEW n \in Nat
    PROVE  LET c == IF Len(d) > n THEN SubSeq(d, 1, n) ELSE d
           IN  c \in Seq(Byte) /\ Len(c) \in Nat /\ Len(c) <= n
<1>1. Len(d) \in Nat
  OBVIOUS
<1>2. CASE Len(d) > n
  <2>1. SubSeq(d, 1, n) \in Seq(Byte) /\ Len(SubSeq(d, 1, n)) = n
    BY <1>1, <1>2
  <2>2. QED
    BY <1>2, <2>1
<1>3. CASE ~(Len(d) > n)
  BY <1>1, <1>3
<1>4. QED
  BY <1>2, <1>3

LEMMA TypeStep == TypeOK /\ FitsInv /\ [Next]_vars => TypeOK' /\ FitsInv'
<1> SUFFICES ASSUME TypeOK, FitsInv, [Next]_vars PROVE TypeOK' /\ FitsInv'
  OBVIOUS
<1> USE DEF loopVars, historyVars, vars
<1>t. /\ mem_type \in MemTypes
      /\ mem_rd_off \in 0 .. mem_size(mem_type)
      /\ mem_wr_off \in 0 .. mem_size(mem_type)
      /\ fwp_buf_off \in 0 .. (Word - 1)
      /\ flash_write_page_buffer \in [0 .. (PageSize - 1) -> Byte]
      /\ eeprom \in [0 .. (EepromSize - 1) -> Byte]
      /\ flash \in [0 .. FlashEnd -> Byte]
      /\ in1.off \in Nat /\ in1.data \in Seq(Byte)
      /\ pc \in {"poll", "ready"} \cup Storing
      /\ out \in Seq(Byte) /\ Len(out) \in Nat /\ mem_i \in 0 .. Len(out)
      /\ nextRd \in Nat /\ in1Full \in BOOLEAN /\ positioned \in BOOLEAN
      /\ fresh \in BOOLEAN
  BY DEF TypeOK
<1>u. mem_rd_off \in Nat /\ mem_wr_off \in Nat /\ fwp_buf_off \in Nat /\ mem_i \in Nat
      /\ mem_size(mem_type) \in Nat
  BY <1>t, SizeFacts
<1>b. Erased \in Byte
  BY Zenon, DataAssumption DEF DataAssumption
<1> DEFINE Load(t, o) == /\ in1' = [off |-> o, data |-> Window(t, o)]
                         /\ in1Full' = TRUE /\ fresh' = TRUE
<1>1. ASSUME NEW t \in MemTypes, NEW o \in 0 .. mem_size(t), Load(t, o)
      PROVE  /\ in1'.off \in Nat /\ in1'.data \in Seq(Byte)
             /\ in1Full' \in BOOLEAN /\ fresh' \in BOOLEAN
  <2>1. Window(t, o) \in Seq(Byte)
    BY WindowType
  <2>2. o \in Nat
    BY SizeFacts
  <2>3. QED
    BY <1>1, <2>1, <2>2
<1>2. ASSUME Boot, UNCHANGED <<eeprom, flash>> PROVE TypeOK' /\ FitsInv'
  <2>1. mem_type' = "eeprom" /\ "eeprom" \in MemTypes /\ mem_size(mem_type') \in Nat
    BY <1>2, SizeFacts DEF Boot, MemTypes
  <2>2. flash_write_page_buffer' \in [0 .. (PageSize - 1) -> Byte]
    BY <1>2, <1>b DEF Boot
  <2>3. /\ in1'.off \in Nat /\ in1'.data \in Seq(Byte)
        /\ out' \in Seq(Byte) /\ Len(out') = 0 /\ mem_i' = 0
    BY <1>2 DEF Boot
  <2>4. TypeOK'
    <3>1. /\ mem_rd_off' \in 0 .. mem_size(mem_type') /\ mem_wr_off' \in 0 .. mem_size(mem_type')
          /\ fwp_buf_off' \in 0 .. (Word - 1) /\ nextRd' \in Nat
      BY <1>2, <2>1, WordType DEF Boot
    <3>2. /\ pc' \in {"poll", "ready"} \cup Storing /\ mem_i' \in 0 .. Len(out')
          /\ in1Full' \in BOOLEAN /\ positioned' \in BOOLEAN /\ fresh' \in BOOLEAN
      <4>1. mem_i' \in 0 .. Len(out')
        BY <2>3
      <4>2. QED
        BY <1>2, <4>1 DEF Boot, Storing
    <3>3. /\ eeprom' \in [0 .. (EepromSize - 1) -> Byte]
          /\ flash' \in [0 .. FlashEnd -> Byte]
          /\ mem_type' \in MemTypes
      BY <1>2, <1>t, <2>1
    <3>4. QED
      BY <2>1, <2>2, <2>3, <3>1, <3>2, <3>3 DEF TypeOK
  <2>5. FitsInv'
    BY <1>2, <2>1, <2>3 DEF Boot, FitsInv, Storing
  <2>6. QED
    BY <2>4, <2>5
<1>3. CASE PollIdle
  BY <1>3, <1>t DEF PollIdle, PollDone, TypeOK, FitsInv, Storing
<1>4. ASSUME NEW t \in MemTypes, SetMemType(t) PROVE TypeOK' /\ FitsInv'
  <2>1. mem_size(t) \in Nat
    BY SizeFacts
  <2>2. Load(t, 0)
    BY <1>4 DEF SetMemType, pre_load_mem_data
  <2>3. /\ in1'.off \in Nat /\ in1'.data \in Seq(Byte)
        /\ in1Full' \in BOOLEAN /\ fresh' \in BOOLEAN
    BY <1>1, <2>1, <2>2
  <2>4. pc = "poll" /\ pc' = "ready" /\ UNCHANGED <<out, mem_i>>
    BY <1>4 DEF SetMemType, PollDone
  <2>5. TypeOK'
    BY <1>4, <1>t, <2>1, <2>3, <2>4, WordType DEF SetMemType, TypeOK
  <2>6. FitsInv'
    BY <1>4, <1>t, <2>1, <2>4 DEF SetMemType, FitsInv, Storing
  <2>7. QED
    BY <2>5, <2>6
<1>5. ASSUME NEW o \in Offset, SetMemRdOffset(o) PROVE TypeOK' /\ FitsInv'
  <2>1. Clip(mem_type, o) \in 0 .. mem_size(mem_type)
    BY <1>t, ClipType
  <2>2. Load(mem_type, Clip(mem_type, o))
    BY <1>5 DEF SetMemRdOffset, pre_load_mem_data
  <2>3. /\ in1'.off \in Nat /\ in1'.data \in Seq(Byte)
        /\ in1Full' \in BOOLEAN /\ fresh' \in BOOLEAN
    BY <1>1, <1>t, <2>1, <2>2
  <2>4. pc = "poll" /\ pc' = "ready" /\ UNCHANGED <<out, mem_i>>
    BY <1>5 DEF SetMemRdOffset, PollDone
  <2>5. TypeOK'
    BY <1>5, <1>t, <1>u, <2>1, <2>3, <2>4 DEF SetMemRdOffset, TypeOK
  <2>6. FitsInv'
    BY <1>5, <1>t, <2>4 DEF SetMemRdOffset, FitsInv, Storing
  <2>7. QED
    BY <2>5, <2>6
<1>6. ASSUME NEW o \in Offset, SetMemWrOffset(o) PROVE TypeOK' /\ FitsInv'
  <2>1. mem_wr_off' \in 0 .. mem_size(mem_type) /\ mem_wr_off' \in Nat
    BY <1>6, <1>t, <1>u, ClipType DEF SetMemWrOffset
  <2>2. (mem_wr_off') % PageSize \in 0 .. (PageSize - 1)
    BY <2>1, AlignedPage
  <2>3. fwp_buf_off' \in 0 .. (Word - 1)
    <3>1. \A b \in 0 .. (PageSize - 1) : b \in 0 .. (Word - 1)
      BY PageSizeType, WordType
    <3>2. (mem_wr_off') % PageSize \in 0 .. (Word - 1)
      BY <2>2, <3>1
    <3>3. fwp_buf_off' = IF mem_type = "flash" THEN (mem_wr_off') % PageSize ELSE fwp_buf_off
      BY <1>6 DEF SetMemWrOffset
    <3>4. QED
      BY Zenon, <1>t, <3>2, <3>3
  <2>4. flash_write_page_buffer' \in [0 .. (PageSize - 1) -> Byte]
    <3>1. CASE mem_type = "flash"
      <4> DEFINE w == mem_wr_off'
                 r == w % PageSize
      <4>1. ASSUME NEW i \in 0 .. (PageSize - 1), i < r
            PROVE  FlashStart + (w - r) + i \in 0 .. FlashEnd
        <5>1. w \in Nat /\ w <= FlashSize - FlashStart
          BY <2>1, <3>1, SizeFacts, Geometry
        <5>2. i \in Nat
          BY PageSizeType
        <5>3. QED
          BY <4>1, <5>1, <5>2, PrefixAddress
      <4>2. flash_write_page_buffer' =
              [i \in 0 .. (PageSize - 1) |->
                 IF i < r THEN flash[FlashStart + (w - r) + i] ELSE flash_write_page_buffer[i]]
        BY <1>6, <3>1 DEF SetMemWrOffset, PagePrefix
      <4> HIDE DEF w, r
      <4>3. QED
        BY <4>1, <4>2, <1>t
    <3>2. CASE mem_type # "flash"
      BY <1>6, <1>t, <3>2 DEF SetMemWrOffset
    <3>3. QED
      BY <3>1, <3>2
  <2>5. pc = "poll" /\ pc' = "ready" /\ UNCHANGED <<out, mem_i>>
    BY <1>6 DEF SetMemWrOffset, PollDone
  <2>6. TypeOK'
    BY <1>6, <1>t, <2>1, <2>3, <2>4, <2>5 DEF SetMemWrOffset, TypeOK
  <2>7. FitsInv'
    BY <1>6, <1>t, <1>u, <2>1, <2>5 DEF SetMemWrOffset, FitsInv, Storing
  <2>8. QED
    BY <2>6, <2>7
<1>7. ASSUME NEW d \in Payload, WriteOut(d) PROVE TypeOK' /\ FitsInv'
  <2>1. Room \in Nat /\ Room = mem_size(mem_type) - mem_wr_off
    BY <1>t, <1>u DEF Room
  <2>2. out' \in Seq(Byte) /\ Len(out') \in Nat /\ Len(out') <= Room
    BY <1>7, <2>1, PayloadType, CutType DEF WriteOut
  <2>3. /\ pc' \in {"ready", "write"} /\ mem_i' = 0
        /\ pc' = "ready" => Len(out') = 0
        /\ UNCHANGED <<mem_type, mem_wr_off>>
    BY <1>7 DEF WriteOut
  <2>4. TypeOK'
    BY <1>7, <1>t, <2>2, <2>3, SMTT(60) DEF WriteOut, TypeOK, Storing
  <2>5. FitsInv'
    BY <1>u, <2>1, <2>2, <2>3 DEF FitsInv, Storing
  <2>6. QED
    BY <2>4, <2>5
<1>8. CASE WriteEepromByte
  <2>1. out[mem_i + 1] \in Byte
    BY <1>8, <1>t, <1>u DEF WriteEepromByte
  <2>2. eeprom' \in [0 .. (EepromSize - 1) -> Byte]
    BY <1>8, <1>t, <2>1 DEF WriteEepromByte
  <2>3. mem_i' \in 0 .. Len(out) /\ UNCHANGED <<out, mem_type, mem_wr_off, pc>> /\ pc = "write"
    BY <1>8, <1>t DEF WriteEepromByte
  <2>4. TypeOK'
    BY <1>8, <1>t, <2>2, <2>3 DEF WriteEepromByte, TypeOK
  <2>5. FitsInv'
    BY <2>3 DEF FitsInv, Storing
  <2>6. QED
    BY <2>4, <2>5
<1>9. CASE BufferFlashByte
  <2>1. out[mem_i + 1] \in Byte
    BY <1>9, <1>t, <1>u DEF BufferFlashByte
  <2>2. flash_write_page_buffer' \in [0 .. (PageSize - 1) -> Byte]
    BY <1>9, <1>t, <2>1 DEF BufferFlashByte
  <2>3. /\ pc = "write" /\ mem_type = "flash" /\ mem_i < Len(out)
        /\ UNCHANGED <<out, mem_type, mem_wr_off, fwp_buf_off>>
        /\ \/ BufIndex = PageSize - 1 /\ pc' = "erase" /\ mem_i' = mem_i
           \/ pc' = "write" /\ mem_i' = mem_i + 1
    BY <1>9 DEF BufferFlashByte
  <2>4. pc' = "erase" => BufIndex' = BufIndex /\ BufIndex = PageSize - 1
    BY <2>3 DEF BufIndex
  <2>5. TypeOK'
    <3>1. mem_i' \in 0 .. Len(out) /\ pc' \in Storing
      BY <1>t, <2>3 DEF Storing
    <3>2. QED
      BY <1>9, <1>t, <2>2, <2>3, <3>1 DEF BufferFlashByte, TypeOK
  <2>6. FitsInv'
    BY <2>3, <2>4 DEF FitsInv, Storing
  <2>7. QED
    BY <2>5, <2>6
<1>10. CASE FlashErase
  <2>1. flash' \in [0 .. FlashEnd -> Byte]
    BY <1>10, <1>t, <1>b DEF FlashErase
  <2>2. /\ pc = "erase" /\ pc' = "program"
        /\ UNCHANGED <<out, mem_i, mem_type, mem_wr_off, fwp_buf_off>>
    BY <1>10 DEF FlashErase
  <2>3. BufIndex' = BufIndex
    BY <2>2 DEF BufIndex
  <2>4. TypeOK'
    BY <1>10, <1>t, <2>1, <2>2 DEF FlashErase, TypeOK, Storing
  <2>5. FitsInv'
    BY <2>2, <2>3 DEF FitsInv, Storing
  <2>6. QED
    BY <2>4, <2>5
<1>11. CASE FlashProgram
  <2>1. flash' \in [0 .. FlashEnd -> Byte]
    <3>1. \A a \in 0 .. FlashEnd : InBlock(a) => a - BlockAddr \in 0 .. (PageSize - 1)
      <4>1. BlockAddr \in Int
        BY <1>t, <1>u, Geometry, PageSizeType, SizeFacts DEF BlockAddr, mem_start
      <4>2. QED
        BY <4>1, PageSizeType, Geometry DEF InBlock
    <3>2. QED
      BY <1>11, <1>t, <3>1 DEF FlashProgram
  <2>2. /\ pc = "program" /\ pc' = "write" /\ mem_i' = mem_i + 1
        /\ UNCHANGED <<out, mem_type, mem_wr_off>>
    BY <1>11 DEF FlashProgram
  <2>3. mem_i' \in 0 .. Len(out)
    BY <1>t, <2>2 DEF FitsInv
  <2>4. fwp_buf_off' \in 0 .. (Word - 1)
    <3>1. fwp_buf_off' = (Word - (mem_i + 1)) % Word
      BY <1>11 DEF FlashProgram
    <3>2. Word - (mem_i + 1) \in Int
      BY <1>u, WordType
    <3>3. QED
      BY <3>1, <3>2, WordRemainder
  <2>5. TypeOK'
    BY <1>11, <1>t, <2>1, <2>2, <2>3, <2>4 DEF FlashProgram, TypeOK, Storing
  <2>6. FitsInv'
    BY <2>2 DEF FitsInv, Storing
  <2>7. QED
    BY <2>5, <2>6
<1>12. CASE WriteDone
  <2>1. /\ pc = "write" /\ pc' = "ready" /\ mem_i = Len(out)
        /\ out' = <<>> /\ mem_i' = 0 /\ mem_wr_off' = mem_wr_off + mem_i
        /\ UNCHANGED mem_type
    BY <1>12 DEF WriteDone
  <2>2. out' \in Seq(Byte) /\ Len(out') = 0
    BY <2>1
  <2>3. mem_wr_off' \in 0 .. mem_size(mem_type)
    BY <1>u, <2>1 DEF FitsInv
  <2>4. fwp_buf_off' \in 0 .. (Word - 1)
    <3>1. fwp_buf_off' = (fwp_buf_off + mem_i) % Word
      BY <1>12 DEF WriteDone
    <3>2. fwp_buf_off + mem_i \in Int
      BY <1>u
    <3>3. QED
      BY <3>1, <3>2, WordRemainder
  <2>5. TypeOK'
    BY <1>12, <1>t, <2>1, <2>2, <2>3, <2>4 DEF WriteDone, TypeOK
  <2>6. FitsInv'
    BY <1>u, <2>1, <2>2, <2>3 DEF FitsInv, Storing
  <2>7. QED
    BY <2>5, <2>6
<1>13. CASE Refill
  <2>1. FollowingOff(mem_type, mem_rd_off) \in 0 .. mem_size(mem_type)
    BY <1>t, <1>u, FollowingType
  <2>2. Load(mem_type, FollowingOff(mem_type, mem_rd_off))
        /\ mem_rd_off' = FollowingOff(mem_type, mem_rd_off)
    BY <1>13 DEF Refill, pre_load_mem_data
  <2>3. /\ in1'.off \in Nat /\ in1'.data \in Seq(Byte)
        /\ in1Full' \in BOOLEAN /\ fresh' \in BOOLEAN
    BY <1>1, <1>t, <2>1, <2>2
  <2>4. pc = "ready" /\ pc' = "poll" /\ UNCHANGED <<out, mem_i, mem_type, mem_wr_off>>
    BY <1>13 DEF Refill
  <2>5. TypeOK'
    BY <1>13, <1>t, <2>1, <2>2, <2>3, <2>4 DEF Refill, TypeOK
  <2>6. FitsInv'
    BY <2>4 DEF FitsInv, Storing
  <2>7. QED
    BY <2>5, <2>6
<1>14. CASE NotReady
  BY <1>14, <1>t DEF NotReady, TypeOK, FitsInv, Storing
<1>15. CASE HostRead
  <2>1. nextRd' \in Nat
    BY <1>15, <1>t, <1>u, FollowingType DEF HostRead
  <2>2. TypeOK'
    BY <1>15, <1>t, <2>1 DEF HostRead, TypeOK
  <2>3. FitsInv'
    BY <1>15 DEF HostRead, FitsInv, BufIndex, Storing
  <2>4. QED
    BY <2>2, <2>3
<1>16. CASE PowerLoss
  BY <1>16, <1>2 DEF PowerLoss
<1>17. CASE UNCHANGED vars
  BY <1>17, <1>t DEF TypeOK, FitsInv, BufIndex, Storing
<1>18. QED
  BY <1>3, <1>4, <1>5, <1>6, <1>7, <1>8, <1>9, <1>10, <1>11, <1>12, <1>13, <1>14, <1>15,
     <1>16, <1>17
  DEF Next, MainLoop

\* Whatever the host seeks to and sends, wherever power fails: the variables keep
\* to their ranges, the offsets within the selected memory.
THEOREM TypeCorrect == Spec => []TypeOK
<1>1. TypeOK /\ FitsInv /\ [Next]_vars => (TypeOK /\ FitsInv)'
  BY TypeStep
<1>2. QED
  BY InitType, <1>1, PTL DEF Spec

-----------------------------------------------------------------------------
(* The page buffer.  BufIndex is where the next byte goes; the address it is   *)
(* meant for, less BufIndex, is the start of a page.                           *)

PageStart == FlashStart + mem_wr_off + mem_i - BufIndex

BufferInv ==
    mem_type = "flash" => BufIndex \in 0 .. (PageSize - 1) /\ Aligned(PageStart)

LEMMA WordSmall ==
    ASSUME NEW a \in 0 .. (Word - 1)
    PROVE  a % Word = a /\ (a + 0) % Word = a
<1>1. \A n \in Nat : \A b \in Nat : b < n => b % n = b
  OBVIOUS
<1>2. a \in Nat /\ a < Word /\ a + 0 = a
  BY WordType
<1>3. QED
  BY <1>1, <1>2, WordType

LEMMA WordZero == (0 + 0) % Word = 0
BY DEF Word

LEMMA WordNext ==
    ASSUME NEW a \in Nat, NEW i \in Nat, ((a + i) % Word) + 1 <= Word - 1
    PROVE  (a + (i + 1)) % Word = ((a + i) % Word) + 1
BY DEF Word

LEMMA WordWrap ==
    ASSUME NEW i \in Nat
    PROVE  (((Word - (i + 1)) % Word) + (i + 1)) % Word = 0
BY DEF Word

LEMMA BufferInit == Init => BufferInv
BY DEF Init, BufferInv

LEMMA BufferStep == TypeOK /\ FitsInv /\ BufferInv /\ [Next]_vars => BufferInv'
<1> SUFFICES ASSUME TypeOK, FitsInv, BufferInv, [Next]_vars PROVE BufferInv'
  OBVIOUS
<1> USE DEF loopVars, historyVars, vars
<1>t. /\ mem_type \in MemTypes
      /\ mem_wr_off \in Nat /\ fwp_buf_off \in 0 .. (Word - 1) /\ fwp_buf_off \in Nat
      /\ mem_i \in Nat /\ mem_size(mem_type) \in Nat
      /\ FlashStart \in Nat
  BY SizeFacts, WordType, Geometry DEF TypeOK
<1>1. ASSUME UNCHANGED <<mem_type, mem_wr_off, fwp_buf_off, mem_i>> PROVE BufferInv'
  <2>1. BufIndex' = BufIndex
    BY <1>1 DEF BufIndex
  <2>2. PageStart' = PageStart
    BY <1>1, <2>1 DEF PageStart
  <2>3. QED
    BY <1>1, <2>1, <2>2 DEF BufferInv
\* The empty buffer at a page start.
<1>2. ASSUME Aligned(FlashStart + mem_wr_off' + mem_i'), BufIndex' = 0,
             mem_wr_off' \in Nat, mem_i' \in Nat
      PROVE  BufferInv'
  <2>1. PageStart' = FlashStart + mem_wr_off' + mem_i'
    BY <1>2, <1>t DEF PageStart
  <2>2. Aligned(PageStart')
    BY <1>2, <2>1
  <2>3. Aligned(PageStart)'
    BY <2>2 DEF Aligned
  <2>4. QED
    BY <1>2, <2>3, PageSizeType DEF BufferInv
<1>3. CASE PollIdle \/ Refill \/ NotReady \/ HostRead \/ WriteEepromByte \/ FlashErase
  <2>1. CASE WriteEepromByte
    BY <2>1 DEF WriteEepromByte, BufferInv
  <2>2. CASE PollIdle \/ Refill \/ NotReady \/ HostRead \/ FlashErase
    BY <2>2, <1>1 DEF PollIdle, PollDone, Refill, NotReady, HostRead, FlashErase
  <2>3. QED
    BY <1>3, <2>1, <2>2
<1>4. ASSUME NEW t \in MemTypes, SetMemType(t) PROVE BufferInv'
  <2>1. mem_wr_off' = 0 /\ fwp_buf_off' = 0 /\ mem_i' = 0
    BY <1>4 DEF SetMemType, PollDone, FitsInv, Storing
  <2>2. BufIndex' = 0
    BY <2>1, WordZero DEF BufIndex
  <2>3. FlashStart + mem_wr_off' + mem_i' = FlashStart
    BY <2>1, <1>t
  <2>4. QED
    BY <1>2, <2>1, <2>2, <2>3, Geometry
<1>5. ASSUME NEW o \in Offset, SetMemRdOffset(o) PROVE BufferInv'
  BY <1>5, <1>1 DEF SetMemRdOffset, PollDone
<1>6. ASSUME NEW o \in Offset, SetMemWrOffset(o) PROVE BufferInv'
  <2>1. CASE mem_type = "flash"
    <3>1. mem_wr_off' \in Nat
      BY <1>6, <1>t, ClipType DEF SetMemWrOffset
    <3>2. mem_i = 0 /\ mem_i' = 0 /\ fwp_buf_off' = (mem_wr_off') % PageSize
      BY <1>6, <2>1 DEF SetMemWrOffset, PollDone, FitsInv, Storing
    <3>3. /\ fwp_buf_off' \in 0 .. (PageSize - 1)
          /\ Aligned(mem_wr_off' - fwp_buf_off')
      BY <3>1, <3>2, AlignedPage
    <3>4. fwp_buf_off' \in 0 .. (Word - 1)
      BY <3>3, PageSizeType, WordType
    <3>5. BufIndex' = fwp_buf_off'
      BY <3>2, <3>4, WordSmall DEF BufIndex
    <3>6. PageStart' = FlashStart + (mem_wr_off' - fwp_buf_off')
      BY <3>1, <3>2, <3>3, <3>5, <1>t, PageSizeType DEF PageStart
    <3>7. Aligned(PageStart')
      BY <3>1, <3>3, <3>6, Geometry, AlignedSum, PageSizeType
    <3>8. Aligned(PageStart)'
      BY <3>7 DEF Aligned
    <3>9. QED
      BY <3>3, <3>5, <3>8 DEF BufferInv
  <2>2. CASE mem_type # "flash"
    BY <1>6, <2>2 DEF SetMemWrOffset, BufferInv
  <2>3. QED
    BY <2>1, <2>2
<1>7. ASSUME NEW d \in Payload, WriteOut(d) PROVE BufferInv'
  <2>1. pc = "poll" /\ mem_i' = 0 /\ UNCHANGED <<mem_type, mem_wr_off, fwp_buf_off>>
    BY <1>7 DEF WriteOut
  <2>2. mem_i = 0
    BY <2>1 DEF FitsInv, Storing
  <2>3. QED
    BY <1>1, <2>1, <2>2
<1>8. CASE BufferFlashByte
  <2>1. mem_type = "flash" /\ UNCHANGED <<mem_type, mem_wr_off, fwp_buf_off>>
    BY <1>8 DEF BufferFlashByte
  <2>2. BufIndex \in 0 .. (PageSize - 1) /\ Aligned(PageStart)
    BY <2>1 DEF BufferInv
  <2>3. CASE BufIndex = PageSize - 1
    BY <1>8, <1>1, <2>1, <2>3 DEF BufferFlashByte
  <2>4. CASE BufIndex # PageSize - 1
    <3>1. mem_i' = mem_i + 1
      BY <1>8, <2>4 DEF BufferFlashByte
    <3>2. BufIndex + 1 \in 0 .. (PageSize - 1) /\ BufIndex + 1 <= Word - 1
      BY <2>2, <2>4, PageSizeType, WordType
    <3>3. BufIndex' = BufIndex + 1
      BY <2>1, <3>1, <3>2, <1>t, WordNext DEF BufIndex
    <3>4. PageStart' = PageStart
      BY <2>1, <2>2, <3>1, <3>3, <1>t, PageSizeType DEF PageStart
    <3>5. QED
      BY <2>1, <2>2, <3>2, <3>3, <3>4 DEF BufferInv, Aligned
  <2>5. QED
    BY <2>3, <2>4
<1>9. CASE FlashProgram
  <2>1. /\ pc = "program" /\ mem_i' = mem_i + 1 /\ UNCHANGED <<mem_type, mem_wr_off>>
        /\ fwp_buf_off' = (Word - (mem_i + 1)) % Word
    BY <1>9 DEF FlashProgram
  <2>2. mem_type = "flash" /\ BufIndex = PageSize - 1
    BY <2>1 DEF FitsInv
  <2>3. BufIndex' = 0
    BY <2>1, <1>t, WordWrap DEF BufIndex
  <2>4. Aligned(PageStart + PageSize)
    <3>1. PageStart \in Int
      BY <1>t, <2>2, PageSizeType DEF PageStart
    <3>2. QED
      BY <3>1, <2>2, AlignedNext DEF BufferInv
  <2>5. PageStart + PageSize = FlashStart + mem_wr_off' + mem_i'
    BY <1>t, <2>1, <2>2, PageSizeType DEF PageStart
  <2>6. QED
    BY <1>2, <1>t, <2>1, <2>3, <2>4, <2>5
<1>10. CASE WriteDone
  <2>1. /\ UNCHANGED mem_type /\ mem_i' = 0
        /\ mem_wr_off' = mem_wr_off + mem_i
        /\ fwp_buf_off' = BufIndex
    BY <1>10 DEF WriteDone, BufIndex
  <2>2. BufIndex \in 0 .. (Word - 1)
    BY <1>t, WordRemainder DEF BufIndex
  <2>3. BufIndex' = BufIndex
    <3>1. BufIndex' = (fwp_buf_off' + mem_i') % Word
      BY DEF BufIndex
    <3>2. QED
      BY <2>1, <2>2, <3>1, WordSmall
  <2>4. PageStart' = PageStart
    BY <1>t, <2>1, <2>2, <2>3, WordType DEF PageStart
  <2>5. QED
    BY <2>1, <2>3, <2>4 DEF BufferInv, Aligned
<1>11. CASE PowerLoss
  BY <1>11 DEF PowerLoss, Boot, BufferInv
<1>12. CASE UNCHANGED vars
  BY <1>12, <1>1
<1>13. QED
  BY <1>3, <1>4, <1>5, <1>6, <1>7, <1>8, <1>9, <1>10, <1>11, <1>12 DEF Next, MainLoop

\* The place of the next byte in the page buffer is its address's place in the
\* page, for every page size, packet size, seek and 16-bit wrap.
THEOREM BufferTracksOffset == Spec => []PageBufferTracksOffset
<1> DEFINE Inv == TypeOK /\ FitsInv /\ BufferInv
<1>1. Init => Inv
  BY InitType, BufferInit
<1>2. Inv /\ [Next]_vars => Inv'
  BY TypeStep, BufferStep
<1>3. Inv => PageBufferTracksOffset
  <2> SUFFICES ASSUME Inv, mem_type = "flash"
               PROVE  /\ BufIndex < PageSize
                      /\ (FlashStart + mem_wr_off + mem_i) % PageSize = BufIndex
    BY DEF PageBufferTracksOffset
  <2>1. BufIndex \in 0 .. (PageSize - 1) /\ Aligned(PageStart)
    BY DEF BufferInv
  <2>2. FlashStart \in Nat /\ mem_wr_off \in Nat /\ mem_i \in Nat
    BY SizeFacts, Geometry DEF TypeOK
  <2>3. PageStart \in Int /\ PageStart + BufIndex = FlashStart + mem_wr_off + mem_i
    BY <2>1, <2>2, PageSizeType DEF PageStart
  <2>4. (PageStart + BufIndex) % PageSize = BufIndex
    BY <2>1, <2>3, AlignedRemainder
  <2>5. QED
    BY <2>1, <2>3, <2>4, PageSizeType
<1>4. QED
  BY <1>1, <1>2, <1>3, PTL DEF Spec

-----------------------------------------------------------------------------
(* What the host sees: its writes stay inside the flash window and no page of  *)
(* them is refused, its reads are in order.                                    *)

(* The page flash_write_block() is called for is the one BufferInv speaks of. *)

LEMMA BlockInWindow ==
    ASSUME TypeOK, FitsInv, BufferInv, pc \in {"erase", "program"}
    PROVE  /\ BlockAddr \in Nat /\ Writable(BlockAddr)
           /\ BlockAddr >= FlashStart /\ BlockAddr + PageSize <= FlashSize
<1>1. mem_type = "flash" /\ BufIndex = PageSize - 1 /\ mem_i < Len(out) /\ Aligned(PageStart)
  BY DEF FitsInv, BufferInv
<1>2. mem_wr_off \in Nat /\ mem_i \in Nat /\ Len(out) \in Nat
  BY <1>1, SizeFacts DEF TypeOK
<1>3. BlockAddr = PageStart /\ BlockAddr \in Int
  BY <1>1, <1>2, Geometry, PageSizeType DEF BlockAddr, PageStart, mem_start
<1>4. FlashStart + mem_wr_off + mem_i < FlashSize
  BY <1>1, <1>2, SizeFacts, Geometry DEF FitsInv
<1>5. BlockAddr + PageSize <= FlashSize
  BY <1>1, <1>2, <1>3, <1>4, Geometry, PageSizeType DEF PageStart
<1>6. BlockAddr > FlashStart - PageSize
  BY <1>1, <1>2, <1>3, Geometry, PageSizeType DEF PageStart
<1>7. BlockAddr >= FlashStart
  BY <1>1, <1>3, <1>6, Geometry, AlignedGap
<1>8. BlockAddr \in Nat /\ BlockAddr < BlAddr
  BY <1>3, <1>5, <1>7, Geometry, PageSizeType
<1>9. \E q \in 0 .. BlockAddr : BlockAddr = q * PageSize
  BY <1>1, <1>3, <1>8, AlignedIsPage
<1>10. QED
  BY <1>5, <1>7, <1>8, <1>9 DEF Writable

\* usbFunctionWriteOut() may ignore what flash_write_block() returns.
THEOREM PagesAreAccepted == Spec => []PagesAccepted
<1> DEFINE Inv == TypeOK /\ FitsInv /\ BufferInv
<1>1. Init => Inv
  BY InitType, BufferInit
<1>2. Inv /\ [Next]_vars => Inv'
  BY TypeStep, BufferStep
<1>3. Inv => PagesAccepted
  BY BlockInWindow DEF PagesAccepted
<1>4. QED
  BY <1>1, <1>2, <1>3, PTL DEF Spec

LEMMA FirmwareStep ==
    TypeOK /\ FitsInv /\ BufferInv /\ FirmwareIntact /\ [Next]_vars => FirmwareIntact'
<1> SUFFICES ASSUME TypeOK, FitsInv, BufferInv, FirmwareIntact, [Next]_vars
             PROVE  FirmwareIntact'
  OBVIOUS
<1> USE DEF loopVars, historyVars, vars
<1>1. ASSUME UNCHANGED flash PROVE FirmwareIntact'
  BY <1>1 DEF FirmwareIntact
<1>2. ASSUME pc \in {"erase", "program"},
             \A a \in 0 .. FlashEnd : ~InBlock(a) => flash'[a] = flash[a]
      PROVE  FirmwareIntact'
  <2>1. \A a \in 0 .. FlashEnd : InBlock(a) => a \in FlashStart .. (FlashSize - 1)
    BY <1>2, BlockInWindow, Geometry, PageSizeType DEF InBlock
  <2>2. QED
    BY <1>2, <2>1 DEF FirmwareIntact
<1>3. CASE FlashErase
  <2>1. \A a \in 0 .. FlashEnd : ~InBlock(a) => flash'[a] = flash[a]
    BY <1>3 DEF FlashErase
  <2>2. QED
    BY <1>2, <1>3, <2>1 DEF FlashErase
<1>4. CASE FlashProgram
  <2>1. \A a \in 0 .. FlashEnd : ~InBlock(a) => flash'[a] = flash[a]
    BY <1>4 DEF FlashProgram
  <2>2. QED
    BY <1>2, <1>4, <2>1 DEF FlashProgram
<1>5. CASE PollIdle \/ WriteEepromByte \/ BufferFlashByte \/ WriteDone \/ Refill
           \/ NotReady \/ HostRead \/ PowerLoss \/ UNCHANGED vars
  BY <1>1, <1>5 DEF PollIdle, WriteEepromByte, BufferFlashByte, WriteDone, Refill,
                    NotReady, HostRead, PowerLoss
<1>6. ASSUME NEW t \in MemTypes, SetMemType(t) PROVE FirmwareIntact'
  BY <1>1, <1>6 DEF SetMemType
<1>7. ASSUME NEW o \in Offset, SetMemRdOffset(o) \/ SetMemWrOffset(o) PROVE FirmwareIntact'
  BY <1>1, <1>7 DEF SetMemRdOffset, SetMemWrOffset
<1>8. ASSUME NEW d \in Payload, WriteOut(d) PROVE FirmwareIntact'
  BY <1>1, <1>8 DEF WriteOut
<1>9. QED
  BY <1>3, <1>4, <1>5, <1>6, <1>7, <1>8 DEF Next, MainLoop

\* No sequence of seeks and writes changes the firmware or the boot section.
THEOREM FirmwareIsIntact == Spec => []FirmwareIntact
<1> DEFINE Inv == TypeOK /\ FitsInv /\ BufferInv /\ FirmwareIntact
<1>1. Init => Inv
  <2>1. Init => FirmwareIntact
    BY DEF Init, FirmwareIntact
  <2>2. QED
    BY <2>1, InitType, BufferInit
<1>2. Inv /\ [Next]_vars => Inv'
  BY TypeStep, BufferStep, FirmwareStep
<1>3. QED
  BY <1>1, <1>2, PTL DEF Spec

-----------------------------------------------------------------------------
(* Reads.  The main loop's mem_rd_off lags the host by exactly one message    *)
(* while endpoint 1 is empty.                                                  *)

ReadInv ==
    /\ pc = "program" => ~fresh
    /\ positioned /\ in1Full =>
          /\ in1.off = nextRd /\ mem_rd_off = nextRd
          /\ fresh => in1.data = Window(mem_type, nextRd)
    /\ positioned /\ ~in1Full => nextRd = FollowingOff(mem_type, mem_rd_off)

LEMMA ReadStep == TypeOK /\ FitsInv /\ ReadInv /\ [Next]_vars => ReadInv'
<1> SUFFICES ASSUME TypeOK, FitsInv, ReadInv, [Next]_vars PROVE ReadInv'
  OBVIOUS
<1> USE DEF loopVars, historyVars, vars
<1>1. ASSUME UNCHANGED <<mem_type, mem_rd_off, in1, in1Full, nextRd, positioned>>,
             fresh' => fresh /\ UNCHANGED <<eeprom, flash>>,
             pc' = "program" => ~fresh'
      PROVE  ReadInv'
  <2>1. fresh' => Window(mem_type, nextRd)' = Window(mem_type, nextRd)
    BY <1>1 DEF Window, mem_read_byte
  <2>2. QED
    BY <1>1, <2>1 DEF ReadInv
<1>2. ASSUME NEW t, NEW o, mem_type' = t, mem_rd_off' = o, nextRd' = o \/ ~positioned',
             pre_load_mem_data(t, o), UNCHANGED <<eeprom, flash>>, pc' # "program"
      PROVE  ReadInv'
  <2>1. /\ in1'.off = o /\ in1'.data = Window(t, o)
        /\ in1Full' = TRUE
    BY <1>2 DEF pre_load_mem_data
  <2>2. nextRd' = o => Window(mem_type, nextRd)' = Window(t, o)
    BY <1>2 DEF Window, mem_read_byte
  <2>3. QED
    BY <1>2, <2>1, <2>2 DEF ReadInv
<1>3. CASE PollIdle \/ NotReady \/ WriteDone \/ UNCHANGED vars
  BY <1>3, <1>1 DEF PollIdle, PollDone, NotReady, WriteDone, ReadInv
<1>4. ASSUME NEW t \in MemTypes, SetMemType(t) PROVE ReadInv'
  BY <1>4, <1>2 DEF SetMemType, PollDone
<1>5. ASSUME NEW o \in Offset, SetMemRdOffset(o) PROVE ReadInv'
  <2>1. mem_type' = mem_type /\ pc' # "program"
    BY <1>5 DEF SetMemRdOffset, PollDone
  <2>2. QED
    BY <1>5, <1>2, <2>1 DEF SetMemRdOffset
<1>6. ASSUME NEW o \in Offset, SetMemWrOffset(o) PROVE ReadInv'
  BY <1>6, <1>1 DEF SetMemWrOffset, PollDone
<1>7. ASSUME NEW d \in Payload, WriteOut(d) PROVE ReadInv'
  BY <1>7, <1>1 DEF WriteOut
<1>8. CASE WriteEepromByte \/ BufferFlashByte
  BY <1>8, <1>1 DEF WriteEepromByte, BufferFlashByte
<1>9. CASE FlashErase
  BY <1>9, <1>1 DEF FlashErase
<1>10. CASE FlashProgram
  <2>1. ~fresh /\ ~fresh' /\ pc' # "program"
    BY <1>10 DEF FlashProgram, ReadInv
  <2>2. QED
    BY <1>10, <1>1, <2>1 DEF FlashProgram
<1>11. CASE HostRead
  <2>1. /\ in1Full /\ in1Full' = FALSE
        /\ nextRd' = FollowingOff(mem_type, nextRd)
        /\ UNCHANGED <<mem_type, mem_rd_off, positioned, pc>> /\ pc # "program"
    BY <1>11 DEF HostRead, Storing
  <2>2. FollowingOff(mem_type, mem_rd_off)' = FollowingOff(mem_type, mem_rd_off)
    BY <2>1 DEF FollowingOff
  <2>3. QED
    BY <2>1, <2>2 DEF ReadInv
<1>12. CASE Refill
  <2>1. /\ ~in1Full /\ UNCHANGED <<mem_type, nextRd, positioned, eeprom, flash>>
        /\ mem_rd_off' = FollowingOff(mem_type, mem_rd_off) /\ pc' # "program"
        /\ pre_load_mem_data(mem_type, mem_rd_off')
    BY <1>12 DEF Refill
  <2>2. nextRd' = mem_rd_off' \/ ~positioned'
    BY <2>1 DEF ReadInv
  <2>3. QED
    BY <1>2, <2>1, <2>2
<1>13. CASE PowerLoss
  BY <1>13 DEF PowerLoss, Boot, ReadInv
<1>14. QED
  BY <1>3, <1>4, <1>5, <1>6, <1>7, <1>8, <1>9, <1>10, <1>11, <1>12, <1>13 DEF Next, MainLoop

\* The packets a host reads follow each other without gap or repetition from
\* where it sought to, and are current unless it wrote since they were preloaded;
\* GET_MEM_RD_OFFSET is behind by at most the packet just read.
THEOREM ReadsAreInOrder == Spec => [](ReadsInOrder /\ ReportedOffsetLags)
<1> DEFINE Inv == TypeOK /\ FitsInv /\ ReadInv
<1>1. Init => Inv
  <2>1. Init => ReadInv
    BY DEF Init, ReadInv
  <2>2. QED
    BY <2>1, InitType
<1>2. Inv /\ [Next]_vars => Inv'
  BY TypeStep, ReadStep
<1>3. Inv => ReadsInOrder /\ ReportedOffsetLags
  BY DEF TypeOK, ReadInv, ReadsInOrder, ReportedOffsetLags
<1>4. QED
  BY <1>1, <1>2, <1>3, PTL DEF Spec

-----------------------------------------------------------------------------
(* MemDevice implements LogicalMemory, for every geometry: what the host   *)
(* writes lands in order, a page at a time, through the page buffer, the   *)
(* erase and program steps and power losses between any two of them.       *)

\* Between the erasing of a page and its programming the page is empty.
ErasedInv == pc = "program" => \A a \in 0 .. FlashEnd : InBlock(a) => flash[a] = Erased

WriteInv == TypeOK /\ FitsInv /\ BufferInv /\ ErasedInv

LEMMA ErasedStep == TypeOK /\ FitsInv /\ BufferInv /\ ErasedInv /\ [Next]_vars => ErasedInv'
<1> SUFFICES ASSUME TypeOK, FitsInv, BufferInv, ErasedInv, [Next]_vars PROVE ErasedInv'
  OBVIOUS
<1> USE DEF loopVars, historyVars, vars
<1>1. ASSUME pc' # "program" PROVE ErasedInv'
  BY <1>1 DEF ErasedInv
<1>2. CASE FlashErase
  <2>1. Writable(BlockAddr)
    BY <1>2, BlockInWindow DEF FlashErase
  <2>2. \A a \in 0 .. FlashEnd : InBlock(a) => flash'[a] = Erased
    BY <1>2, <2>1 DEF FlashErase
  <2>3. BlockAddr' = BlockAddr
    BY <1>2 DEF FlashErase, BlockAddr
  <2>4. QED
    BY <2>2, <2>3 DEF ErasedInv, InBlock
<1>3. CASE UNCHANGED vars
  <2>1. BlockAddr' = BlockAddr
    BY <1>3 DEF BlockAddr
  <2>2. QED
    BY <1>3, <2>1 DEF ErasedInv, InBlock
<1>4. CASE PollIdle \/ WriteEepromByte \/ BufferFlashByte \/ FlashProgram \/ WriteDone
           \/ Refill \/ NotReady \/ HostRead \/ PowerLoss
  BY <1>1, <1>4 DEF PollIdle, PollDone, WriteEepromByte, BufferFlashByte, FlashProgram,
                    WriteDone, Refill, NotReady, HostRead, PowerLoss, Boot, Storing
<1>5. ASSUME NEW t \in MemTypes, SetMemType(t) PROVE ErasedInv'
  BY <1>1, <1>5 DEF SetMemType, PollDone
<1>6. ASSUME NEW o \in Offset, SetMemRdOffset(o) \/ SetMemWrOffset(o) PROVE ErasedInv'
  BY <1>1, <1>6 DEF SetMemRdOffset, SetMemWrOffset, PollDone
<1>7. ASSUME NEW d \in Payload, WriteOut(d) PROVE ErasedInv'
  BY <1>1, <1>7, SMTT(60) DEF WriteOut
<1>8. QED
  BY <1>2, <1>3, <1>4, <1>5, <1>6, <1>7 DEF Next, MainLoop

-----------------------------------------------------------------------------
(* The page the buffer stands for, in offsets of the flash window.            *)

Cells == 0 .. (mem_size("flash") - 1)

LEMMA PageSizeAtLeastTwo == PageSize \in Nat /\ PageSize > 1
<1>1. PageSize \in 2 .. (Word - 1)
  BY Zenon, GeometryAssumption DEF GeometryAssumption
<1>2. QED
  BY <1>1, WordSize

LEMMA CellsAre ==
    /\ Cells = 0 .. (FlashSize - FlashStart - 1)
    /\ \A o \in Cells : o \in Nat /\ FlashStart + o \in 0 .. FlashEnd
BY SizeFacts, Geometry DEF Cells

LEMMA AlignedDifference ==
    ASSUME NEW a \in Int, NEW b \in Int, Aligned(a), Aligned(b), a >= b
    PROVE  Aligned(a - b)
<1>1. PICK q \in Nat : a = q * PageSize
  BY DEF Aligned
<1>2. PICK r \in Nat : b = r * PageSize
  BY DEF Aligned
<1>3. CASE q >= r
  <2>1. a - b = (q - r) * PageSize /\ q - r \in Nat
    BY <1>1, <1>2, <1>3, PageSizeType
  <2>2. QED
    BY <2>1 DEF Aligned
<1>4. CASE q <= r - 1
  <2>1. q * PageSize <= (r - 1) * PageSize
    BY <1>4, PageSizeType
  <2>2. (r - 1) * PageSize = r * PageSize - PageSize
    BY PageSizeType
  <2>3. QED
    BY <1>1, <1>2, <2>1, <2>2, PageSizeType
<1>5. QED
  BY <1>3, <1>4

LEMMA Offsets ==
    ASSUME WriteInv
    PROVE  /\ mem_type \in MemTypes /\ mem_wr_off \in Nat /\ mem_i \in Nat
           /\ fwp_buf_off \in 0 .. (Word - 1) /\ BufIndex \in Nat
BY SizeFacts, WordType, WordRemainder DEF WriteInv, TypeOK, BufIndex

\* The buffered page lies in the window and starts at a page boundary.
LEMMA PageIs ==
    ASSUME WriteInv, mem_type = "flash"
    PROVE  /\ BufIndex \in 0 .. (PageSize - 1)
           /\ PageBase \in Nat /\ Aligned(PageBase)
           /\ mem_wr_off + mem_i = PageBase + BufIndex
           /\ BufIndex = PageSize - 1 => BlockAddr = FlashStart + PageBase
<1>1. BufIndex \in 0 .. (PageSize - 1) /\ Aligned(PageStart)
  BY DEF WriteInv, BufferInv
<1>2. mem_wr_off \in Nat /\ mem_i \in Nat /\ FlashStart \in Nat
  BY Offsets, Geometry
<1>3. PageBase \in Int /\ PageStart = FlashStart + PageBase
      /\ mem_wr_off + mem_i = PageBase + BufIndex
  BY <1>1, <1>2, PageSizeType DEF PageBase, PageStart
<1>4. PageStart > FlashStart - PageSize
  BY <1>1, <1>2, PageSizeType DEF PageStart
<1>5. PageStart >= FlashStart
  BY <1>1, <1>2, <1>3, <1>4, AlignedGap, Geometry
<1>6. PageBase = PageStart - FlashStart /\ PageBase \in Nat
  BY <1>2, <1>3, <1>5
<1>7. Aligned(PageStart - FlashStart)
  BY <1>1, <1>2, <1>3, <1>5, AlignedDifference, Geometry
<1>8. Aligned(PageBase)
  BY Zenon, <1>6, <1>7
<1>9. BufIndex = PageSize - 1 => BlockAddr = FlashStart + PageBase
  BY <1>1, <1>2, <1>3, PageSizeType DEF BlockAddr, mem_start
<1>10. QED
  BY <1>1, <1>3, <1>6, <1>8, <1>9

-----------------------------------------------------------------------------
(* The two views of the flash: Plain is what its cells hold.                  *)

Plain == [o \in Cells |-> flash[FlashStart + o]]

LEMMA WindowIs ==
    /\ pc # "program" => FlashWindow = Plain
    /\ pc = "program" => FlashView = FlashWindow
    /\ mem_type # "flash" => FlashView = FlashWindow
BY DEF FlashWindow, FlashView, Plain, Cells

LEMMA ViewIs ==
    ASSUME mem_type = "flash", pc # "program"
    PROVE  FlashView = [o \in Cells |->
                          IF o \in PageBase .. (PageBase + BufIndex - 1)
                          THEN flash_write_page_buffer[o - PageBase]
                          ELSE flash[FlashStart + o]]
BY DEF FlashWindow, FlashView, Cells

\* With an empty buffer nothing is written that is not durable.
LEMMA EmptyBuffer ==
    ASSUME mem_type = "flash" => BufIndex = 0 /\ mem_wr_off \in Nat /\ mem_i \in Nat
    PROVE  FlashView = FlashWindow
<1>1. CASE mem_type = "flash"
  <2>1. \A o \in Cells : o \notin PageBase .. (PageBase + BufIndex - 1)
    BY <1>1 DEF PageBase, Cells
  <2>2. QED
    BY <2>1 DEF FlashView, FlashWindow, Cells
<1>2. QED
  BY <1>1, WindowIs

\* mem and view of LogicalMemory, at either memory.
LEMMA ByKindIs ==
    ASSUME NEW e, NEW f
    PROVE  /\ ByKind(e, f)["eeprom"] = e
           /\ ByKind(e, f)["flash"] = f
           /\ \A g : [ByKind(e, f) EXCEPT !["eeprom"] = g] = ByKind(g, f)
           /\ \A g : [ByKind(e, f) EXCEPT !["flash"] = g] = ByKind(e, g)
BY DEF ByKind, MemTypes

-----------------------------------------------------------------------------
(* Each step of the firmware is a step of LogicalMemory, or none.             *)

LEMMA NothingWritten ==
    ASSUME UNCHANGED mem_type, WrittenTo' = WrittenTo, UNCHANGED eeprom,
           FlashWindow' = FlashWindow, FlashView' = FlashView,
           (pc' = "program") <=> (pc = "program")
    PROVE  UNCHANGED Logical!vars
<1>1. ByKind(eeprom, FlashWindow)' = ByKind(eeprom, FlashWindow)
      /\ ByKind(eeprom, FlashView)' = ByKind(eeprom, FlashView)
  BY DEF ByKind
<1>2. (pc = "program")' = (pc = "program")
  BY Zenon
<1>3. QED
  BY <1>1, <1>2 DEF Logical!vars

\* A step that leaves the page buffer and the memories alone.
LEMMA NoByteMoves ==
    ASSUME UNCHANGED <<mem_type, mem_wr_off, fwp_buf_off, mem_i,
                       flash_write_page_buffer, eeprom, flash>>,
           pc' = pc \/ (pc # "program" /\ pc' # "program")
    PROVE  UNCHANGED Logical!vars
<1>1. BufIndex' = BufIndex /\ BlockAddr' = BlockAddr
  BY DEF BufIndex, BlockAddr
<1>2. WrittenTo' = WrittenTo /\ PageBase' = PageBase
  BY <1>1 DEF WrittenTo, PageBase
<1>3. ((pc = "program")' <=> (pc = "program")) /\ \A a : InBlock(a)' <=> InBlock(a)
  BY <1>1 DEF InBlock
<1>4. FlashWindow' = FlashWindow
  BY <1>1, <1>3 DEF FlashWindow, InBlock
<1>5. FlashView' = FlashView
  BY <1>1, <1>2, <1>3, <1>4 DEF FlashView
<1>6. QED
  BY <1>2, <1>3, <1>4, <1>5, NothingWritten

LEMMA WriteDoneMoves ==
    ASSUME WriteInv, WriteDone
    PROVE  UNCHANGED Logical!vars
<1>1. /\ pc = "write" /\ pc' = "ready" /\ mem_i' = 0
      /\ mem_wr_off' = mem_wr_off + mem_i /\ fwp_buf_off' = BufIndex
      /\ UNCHANGED <<mem_type, flash_write_page_buffer, eeprom, flash>>
  BY DEF WriteDone, BufIndex
<1>2. BufIndex' = BufIndex
  <2>1. BufIndex \in 0 .. (Word - 1)
    BY Offsets, WordRemainder, WordType DEF BufIndex
  <2>2. BufIndex' = (fwp_buf_off' + mem_i') % Word
    BY DEF BufIndex
  <2>3. QED
    BY <1>1, <2>1, <2>2, WordSmall
<1>3. WrittenTo' = WrittenTo /\ PageBase' = PageBase
  BY <1>1, <1>2, Offsets DEF WrittenTo, PageBase
<1>4. FlashWindow' = FlashWindow
  BY <1>1 DEF FlashWindow
<1>5. FlashView' = FlashView
  BY <1>1, <1>2, <1>3, <1>4 DEF FlashView
<1>6. QED
  BY <1>1, <1>3, <1>4, <1>5, NothingWritten

LEMMA SelectMoves ==
    ASSUME WriteInv, NEW t \in MemTypes, SetMemType(t)
    PROVE  Logical!Select(t)
<1>1. /\ pc = "poll" /\ pc' = "ready" /\ mem_i' = 0
      /\ mem_type' = t /\ mem_wr_off' = 0 /\ fwp_buf_off' = 0
      /\ UNCHANGED <<eeprom, flash>>
  BY DEF SetMemType, PollDone, WriteInv, FitsInv, Storing
<1>2. BufIndex' = 0
  BY <1>1, WordZero DEF BufIndex
<1>3. FlashView' = FlashWindow'
  BY <1>1, <1>2 DEF FlashView, FlashWindow, PageBase
<1>4. FlashWindow' = FlashWindow
  BY <1>1 DEF FlashWindow
<1>5. WrittenTo' = 0
  BY <1>1 DEF WrittenTo
<1>6. ByKind(eeprom, FlashView)' = ByKind(eeprom, FlashWindow)
      /\ ByKind(eeprom, FlashWindow)' = ByKind(eeprom, FlashWindow)
  BY <1>1, <1>3, <1>4 DEF ByKind
<1>7. ~(pc = "program") /\ (pc = "program")' = (pc = "program")
  BY Zenon, <1>1
<1>8. QED
  BY <1>1, <1>5, <1>6, <1>7 DEF Logical!Select

LEMMA SeekMoves ==
    ASSUME WriteInv, NEW o \in Offset, SetMemWrOffset(o)
    PROVE  Logical!Seek(Clip(mem_type, o)) /\ Clip(mem_type, o) \in 0 .. mem_size(mem_type)
<1> DEFINE w == Clip(mem_type, o)
           r == w % PageSize
<1>0. w \in 0 .. mem_size(mem_type) /\ w \in Nat
  BY Offsets, ClipType, SizeFacts
<1>1. /\ pc = "poll" /\ pc' = "ready" /\ mem_i' = 0
      /\ mem_wr_off' = w
      /\ UNCHANGED <<mem_type, eeprom, flash>>
  BY DEF SetMemWrOffset, PollDone, WriteInv, FitsInv, Storing
<1>2. FlashWindow' = FlashWindow
  BY <1>1 DEF FlashWindow
<1>3. FlashView' = FlashWindow
  <2>1. CASE mem_type = "flash"
    <3>1. fwp_buf_off' = r /\ flash_write_page_buffer' = PagePrefix(w)
      BY <2>1, <1>1 DEF SetMemWrOffset
    <3>2. r \in 0 .. (PageSize - 1) /\ r \in 0 .. (Word - 1) /\ r \in Nat
      BY <1>0, AlignedPage, PageSizeType, WordType
    <3>3. BufIndex' = r
      BY <1>1, <3>1, <3>2, WordSmall DEF BufIndex
    <3>4. PageBase' = w - r
      BY <1>0, <1>1, <3>2, <3>3 DEF PageBase
    <3>5. ASSUME NEW c \in Cells, c \in (w - r) .. (w - r + r - 1)
          PROVE  flash_write_page_buffer'[c - (w - r)] = flash[FlashStart + c]
      <4>1. c - (w - r) \in 0 .. (PageSize - 1) /\ c - (w - r) < r
        BY <1>0, <3>2, <3>5, CellsAre, PageSizeType, SMTT(60)
      <4>2. FlashStart + (w - r) + (c - (w - r)) = FlashStart + c
        BY <1>0, <3>2, <3>5, CellsAre, Geometry
      <4> HIDE DEF w
      <4>3. PagePrefix(w)[c - (w - r)] = flash[FlashStart + (w - r) + (c - (w - r))]
        BY <4>1 DEF PagePrefix
      <4>4. QED
        BY <3>1, <4>2, <4>3
    <3> HIDE DEF w, r
    <3>6. FlashView' = [c \in Cells |->
                          IF c \in (w - r) .. (w - r + r - 1)
                          THEN flash_write_page_buffer'[c - (w - r)]
                          ELSE flash[FlashStart + c]]
      BY <1>1, <2>1, <3>3, <3>4 DEF FlashView, FlashWindow, Cells
    <3>7. FlashView' = Plain
      BY <3>5, <3>6 DEF Plain
    <3>8. QED
      BY <1>1, <3>7, WindowIs
  <2>2. CASE mem_type # "flash"
    <3>1. FlashView' = FlashWindow'
      BY <1>1, <2>2 DEF FlashView, FlashWindow
    <3>2. QED
      BY <1>2, <3>1
  <2>3. QED
    BY <2>1, <2>2
<1>4. WrittenTo' = w
  BY <1>0, <1>1 DEF WrittenTo
<1>5. ByKind(eeprom, FlashView)' = ByKind(eeprom, FlashWindow)
      /\ ByKind(eeprom, FlashWindow)' = ByKind(eeprom, FlashWindow)
  BY <1>1, <1>2, <1>3 DEF ByKind
<1>6. ~(pc = "program") /\ (pc = "program")' = (pc = "program")
  BY Zenon, <1>1
<1>7. QED
  BY <1>0, <1>1, <1>4, <1>5, <1>6 DEF Logical!Seek

\* Writing a byte, said with the views alone.
LEMMA PutMoves ==
    ASSUME NEW k \in MemTypes, NEW w \in Nat, NEW b, NEW n \in Nat,
           mem_type = k, UNCHANGED mem_type, pc # "program",
           WrittenTo = w, WrittenTo' = w + 1, w < n,
           n = ByKind(EepromSize, FlashSize - FlashStart)[k],
           NEW whole \in BOOLEAN,
           whole <=> (w + 1) % (ByKind(1, PageSize)[k]) = 0,
           (pc' = "program") <=> (whole /\ ByKind(1, PageSize)[k] > 1),
           ByKind(eeprom, FlashView)' =
             [ByKind(eeprom, FlashView) EXCEPT ![k] = [@ EXCEPT ![w] = b]],
           ByKind(eeprom, FlashWindow)' =
             IF whole THEN ByKind(eeprom, FlashView)' ELSE ByKind(eeprom, FlashWindow)
    PROVE  Logical!Put(b)
<1>1. ~(pc = "program")
  OBVIOUS
<1>2. Logical!CompletesUnit <=> whole
  BY DEF Logical!CompletesUnit
<1>3. (pc = "program")' <=> (Logical!CompletesUnit /\ ByKind(1, PageSize)[mem_type] > 1)
  BY <1>2
<1>4. (pc = "program")' = (Logical!CompletesUnit /\ ByKind(1, PageSize)[mem_type] > 1)
  BY Zenon, <1>3
<1>5. ByKind(eeprom, FlashWindow)' =
        IF Logical!CompletesUnit THEN ByKind(eeprom, FlashView)' ELSE ByKind(eeprom, FlashWindow)
  BY Zenon, <1>2
<1>6. QED
  BY Zenon, <1>1, <1>4, <1>5 DEF Logical!Put

LEMMA EepromPut ==
    ASSUME WriteInv, WriteEepromByte
    PROVE  Logical!Put(out[mem_i + 1]) /\ out[mem_i + 1] \in Byte
<1> DEFINE b == out[mem_i + 1]
           w == mem_wr_off + mem_i
<1>1. /\ pc = "write" /\ pc' = "write" /\ mem_type = "eeprom" /\ mem_i < Len(out)
      /\ mem_i' = mem_i + 1 /\ eeprom' = [eeprom EXCEPT ![w] = b]
      /\ UNCHANGED <<mem_type, mem_wr_off, fwp_buf_off, flash_write_page_buffer, flash, out>>
  BY DEF WriteEepromByte
<1>2. b \in Byte /\ Len(out) \in Nat
  BY <1>1, Offsets DEF WriteInv, TypeOK
<1>3. w \in Nat /\ WrittenTo = w /\ WrittenTo' = w + 1 /\ w < EepromSize
  <2>1. mem_wr_off + Len(out) <= EepromSize
    BY <1>1, SizeFacts DEF WriteInv, FitsInv
  <2>2. WrittenTo = w + 0 /\ WrittenTo' = mem_wr_off + (mem_i + 1) + 0
    BY <1>1 DEF WrittenTo
  <2>3. mem_wr_off \in Nat /\ mem_i \in Nat /\ mem_i < Len(out) /\ Len(out) \in Nat
    BY <1>1, <1>2, Offsets
  <2>4. QED
    BY <2>1, <2>2, <2>3, Geometry
<1>4. FlashWindow' = FlashWindow /\ FlashView = FlashWindow
  BY <1>1 DEF FlashWindow, FlashView
<1>5. FlashView' = FlashWindow'
  BY <1>1 DEF FlashWindow, FlashView
<1>6. /\ EepromSize = ByKind(EepromSize, FlashSize - FlashStart)["eeprom"]
      /\ ByKind(1, PageSize)["eeprom"] = 1
  BY ByKindIs
<1>7. (w + 1) % 1 = 0
  BY <1>3
<1>8. ByKind(eeprom, FlashView)' =
        [ByKind(eeprom, FlashView) EXCEPT !["eeprom"] = [@ EXCEPT ![w] = b]]
  BY <1>1, <1>4, <1>5 DEF ByKind, MemTypes
<1>9. ByKind(eeprom, FlashWindow)' = ByKind(eeprom, FlashView)'
  BY <1>5 DEF ByKind
<1> HIDE DEF b, w
<1>10. "eeprom" \in MemTypes /\ EepromSize \in Nat /\ TRUE \in BOOLEAN
  BY Geometry DEF MemTypes
<1>11. ~((pc' = "program") \/ ByKind(1, PageSize)["eeprom"] > 1)
  BY <1>1, <1>6
<1>12. (w + 1) % (ByKind(1, PageSize)["eeprom"]) = 0
  BY <1>6, <1>7
<1>13. Logical!Put(b)
  BY <1>1, <1>3, <1>6, <1>8, <1>9, <1>10, <1>11, <1>12, PutMoves
<1>14. QED
  BY <1>2, <1>13 DEF b

\* A byte that does not fill the page only enters the view.
LEMMA BufferedPut ==
    ASSUME WriteInv, BufferFlashByte, BufIndex # PageSize - 1
    PROVE  Logical!Put(out[mem_i + 1]) /\ out[mem_i + 1] \in Byte
<1> DEFINE b == out[mem_i + 1]
           w == mem_wr_off + mem_i
<1>1. /\ pc = "write" /\ pc' = "write" /\ mem_type = "flash" /\ mem_i < Len(out)
      /\ mem_i' = mem_i + 1
      /\ flash_write_page_buffer' = [flash_write_page_buffer EXCEPT ![BufIndex] = b]
      /\ UNCHANGED <<mem_type, mem_wr_off, fwp_buf_off, eeprom, flash, out>>
  BY DEF BufferFlashByte
<1>2. b \in Byte /\ Len(out) \in Nat
  BY <1>1, Offsets DEF WriteInv, TypeOK
<1>3. w \in Nat /\ WrittenTo = w /\ WrittenTo' = w + 1 /\ w < FlashSize - FlashStart
  <2>1. mem_wr_off + Len(out) <= FlashSize - FlashStart
    BY <1>1, SizeFacts DEF WriteInv, FitsInv
  <2>2. WrittenTo = w + 0 /\ WrittenTo' = mem_wr_off + (mem_i + 1) + 0
    BY <1>1 DEF WrittenTo
  <2>3. mem_wr_off \in Nat /\ mem_i \in Nat /\ mem_i < Len(out) /\ Len(out) \in Nat
    BY <1>1, <1>2, Offsets
  <2>4. QED
    BY <2>1, <2>2, <2>3, Geometry
<1>4. /\ BufIndex \in 0 .. (PageSize - 1) /\ PageBase \in Nat /\ Aligned(PageBase)
      /\ w = PageBase + BufIndex
  BY <1>1, PageIs
<1>5. BufIndex' = BufIndex + 1
  <2>1. BufIndex + 1 <= Word - 1 /\ fwp_buf_off \in Nat /\ mem_i \in Nat
    BY <1>4, Offsets, PageSizeType, WordType
  <2>2. QED
    BY <1>1, <2>1, WordNext DEF BufIndex
<1>6. PageBase' = PageBase
  BY <1>1, <1>3, <1>4, <1>5, Offsets, PageSizeType, SMTT(60) DEF PageBase
<1>7. FlashWindow' = FlashWindow
  BY <1>1 DEF FlashWindow
<1>8. ByKind(1, PageSize)["flash"] = PageSize
      /\ FlashSize - FlashStart = ByKind(EepromSize, FlashSize - FlashStart)["flash"]
  BY ByKindIs
<1>9. (w + 1) % PageSize # 0
  <2>1. BufIndex + 1 \in 0 .. (PageSize - 1) /\ BufIndex + 1 # 0
    BY <1>4, PageSizeType
  <2>2. (PageBase + (BufIndex + 1)) % PageSize = BufIndex + 1
    BY <1>4, <2>1, AlignedRemainder
  <2>3. w + 1 = PageBase + (BufIndex + 1)
    BY <1>3, <1>4, PageSizeType
  <2>4. QED
    BY <2>1, <2>2, <2>3
<1>10. flash_write_page_buffer \in [0 .. (PageSize - 1) -> Byte]
  BY DEF WriteInv, TypeOK
<1>11. FlashView = [o \in Cells |-> IF o \in PageBase .. (PageBase + BufIndex - 1)
                                   THEN flash_write_page_buffer[o - PageBase]
                                   ELSE flash[FlashStart + o]]
  BY <1>1, ViewIs
<1>12. FlashView' = [o \in Cells |-> IF o \in PageBase .. (PageBase + (BufIndex + 1) - 1)
                                    THEN flash_write_page_buffer'[o - PageBase]
                                    ELSE flash[FlashStart + o]]
  BY <1>1, <1>5, <1>6 DEF FlashView, FlashWindow, Cells
<1> HIDE DEF b, w
<1>13. FlashView' = [FlashView EXCEPT ![w] = b]
  <2>1. w \in Cells
    BY <1>3, CellsAre, Geometry
  <2>2. ASSUME NEW o \in Cells
        PROVE  FlashView'[o] = [FlashView EXCEPT ![w] = b][o]
    <3>1. CASE o = w
      <4>1. o \in PageBase .. (PageBase + (BufIndex + 1) - 1) /\ o - PageBase = BufIndex
        BY <1>4, <3>1, PageSizeType
      <4>2. FlashView'[o] = flash_write_page_buffer'[BufIndex]
        BY <1>12, <4>1
      <4>3. flash_write_page_buffer'[BufIndex] = b
        BY <1>1, <1>4, <1>10
      <4>4. QED
        BY <1>11, <3>1, <4>2, <4>3
    <3>2. CASE o # w
      <4>1. o \in PageBase .. (PageBase + (BufIndex + 1) - 1)
            <=> o \in PageBase .. (PageBase + BufIndex - 1)
        BY <1>4, <3>2, CellsAre, PageSizeType
      <4>2. o \in PageBase .. (PageBase + BufIndex - 1) =>
              o - PageBase \in 0 .. (PageSize - 1) /\ o - PageBase # BufIndex
        BY <1>4, CellsAre, PageSizeType
      <4>3. o \in PageBase .. (PageBase + BufIndex - 1) =>
              flash_write_page_buffer'[o - PageBase] = flash_write_page_buffer[o - PageBase]
        BY <1>1, <1>10, <4>2
      <4>4. FlashView'[o] = FlashView[o]
        BY <1>11, <1>12, <4>1, <4>3
      <4>5. QED
        BY <1>11, <3>2, <4>4
    <3>3. QED
      BY <3>1, <3>2
  <2>3. QED
    BY <1>11, <1>12, <2>2
<1>14. ByKind(eeprom, FlashView)' =
        [ByKind(eeprom, FlashView) EXCEPT !["flash"] = [@ EXCEPT ![w] = b]]
  BY <1>1, <1>13 DEF ByKind, MemTypes
<1>15. ByKind(eeprom, FlashWindow)' = ByKind(eeprom, FlashWindow)
  BY <1>1, <1>7 DEF ByKind
<1>16. "flash" \in MemTypes /\ FlashSize - FlashStart \in Nat /\ FALSE \in BOOLEAN
  BY Geometry DEF MemTypes
<1>17. ~((pc' = "program") \/ (w + 1) % (ByKind(1, PageSize)["flash"]) = 0)
  BY <1>1, <1>8, <1>9
<1>18. Logical!Put(b)
  BY <1>1, <1>3, <1>8, <1>14, <1>15, <1>16, <1>17, PutMoves
<1>19. QED
  BY <1>2, <1>18 DEF b

\* The byte that fills the page waits for the page to be erased.
LEMMA PageFills ==
    ASSUME WriteInv, BufferFlashByte, BufIndex = PageSize - 1
    PROVE  UNCHANGED Logical!vars
<1>1. /\ pc = "write" /\ pc' = "erase" /\ mem_type = "flash"
      /\ flash_write_page_buffer' =
            [flash_write_page_buffer EXCEPT ![BufIndex] = out[mem_i + 1]]
      /\ UNCHANGED <<mem_type, mem_wr_off, fwp_buf_off, mem_i, eeprom, flash, out>>
  BY DEF BufferFlashByte
<1>2. BufIndex' = BufIndex
  BY <1>1 DEF BufIndex
<1>3. PageBase' = PageBase /\ WrittenTo' = WrittenTo
  BY <1>1, <1>2 DEF PageBase, WrittenTo
<1>4. FlashWindow' = FlashWindow
  BY <1>1 DEF FlashWindow
<1>5. /\ PageBase \in Nat /\ BufIndex \in 0 .. (PageSize - 1)
      /\ flash_write_page_buffer \in [0 .. (PageSize - 1) -> Byte]
  BY <1>1, PageIs DEF WriteInv, TypeOK
<1>6. ASSUME NEW o \in Cells, o \in PageBase .. (PageBase + BufIndex - 1)
      PROVE  flash_write_page_buffer'[o - PageBase] = flash_write_page_buffer[o - PageBase]
  <2>1. o - PageBase \in 0 .. (PageSize - 1) /\ o - PageBase # BufIndex
    BY <1>5, <1>6, CellsAre, PageSizeType
  <2>2. QED
    BY <1>1, <1>5, <2>1
<1>7. FlashView = [o \in Cells |-> IF o \in PageBase .. (PageBase + BufIndex - 1)
                                  THEN flash_write_page_buffer[o - PageBase]
                                  ELSE flash[FlashStart + o]]
  BY <1>1, ViewIs
<1>8. FlashView' = [o \in Cells |-> IF o \in PageBase .. (PageBase + BufIndex - 1)
                                   THEN flash_write_page_buffer'[o - PageBase]
                                   ELSE flash[FlashStart + o]]
  BY <1>1, <1>2, <1>3 DEF FlashView, FlashWindow, Cells
<1>9. FlashView' = FlashView
  BY <1>6, <1>7, <1>8
<1>10. QED
  BY <1>1, <1>3, <1>4, <1>9, NothingWritten

\* flash[FlashStart + o] is in the block exactly when o is on the buffered page.
LEMMA BlockIs ==
    ASSUME WriteInv, pc \in {"erase", "program"}, NEW o \in Cells
    PROVE  /\ InBlock(FlashStart + o) <=> o \in PageBase .. (PageBase + PageSize - 1)
           /\ FlashStart + o - BlockAddr = o - PageBase
           /\ FlashStart + o \in 0 .. FlashEnd
<1>1. mem_type = "flash" /\ BufIndex = PageSize - 1
  BY DEF WriteInv, FitsInv
<1>2. PageBase \in Nat /\ BlockAddr = FlashStart + PageBase
  BY <1>1, PageIs
<1>3. o \in Nat /\ FlashStart \in Nat /\ FlashStart + o \in 0 .. FlashEnd
  BY CellsAre, Geometry
<1>4. QED
  BY <1>2, <1>3, PageSizeType DEF InBlock

\* From its erasing on the page counts as written, its last byte included.
LEMMA ErasePut ==
    ASSUME WriteInv, FlashErase
    PROVE  /\ Logical!Put(flash_write_page_buffer[PageSize - 1])
           /\ flash_write_page_buffer[PageSize - 1] \in Byte
<1> DEFINE b == flash_write_page_buffer[PageSize - 1]
           w == mem_wr_off + mem_i
<1>1. /\ pc = "erase" /\ pc' = "program"
      /\ UNCHANGED <<mem_type, mem_wr_off, fwp_buf_off, flash_write_page_buffer,
                     eeprom, out, mem_i>>
  BY DEF FlashErase
<1>2. mem_type = "flash" /\ BufIndex = PageSize - 1 /\ mem_i < Len(out)
  BY <1>1 DEF WriteInv, FitsInv
<1>3. b \in Byte /\ Len(out) \in Nat
  <2>1. PageSize - 1 \in 0 .. (PageSize - 1)
    BY PageSizeType
  <2>2. QED
    BY <2>1 DEF WriteInv, TypeOK
<1>4. w \in Nat /\ WrittenTo = w /\ WrittenTo' = w + 1 /\ w < FlashSize - FlashStart
  <2>1. mem_wr_off + Len(out) <= FlashSize - FlashStart
    BY <1>2, SizeFacts DEF WriteInv, FitsInv
  <2>2. WrittenTo = w + 0 /\ WrittenTo' = w + 1
    BY <1>1 DEF WrittenTo
  <2>3. QED
    BY <1>2, <1>3, <2>1, <2>2, Offsets, Geometry, SMTT(60)
<1>5. PageBase \in Nat /\ Aligned(PageBase) /\ w = PageBase + (PageSize - 1)
  BY <1>2, PageIs
<1>6. (w + 1) % PageSize = 0
  <2>1. Aligned(PageBase + PageSize)
    BY <1>5, AlignedNext
  <2>2. w + 1 = PageBase + PageSize + 0 /\ PageBase + PageSize \in Int
        /\ 0 \in 0 .. (PageSize - 1)
    BY <1>5, PageSizeType
  <2>3. (PageBase + PageSize + 0) % PageSize = 0
    BY <2>1, <2>2, AlignedRemainder
  <2>4. QED
    BY <2>2, <2>3
<1>7. BlockAddr' = BlockAddr
  BY <1>1 DEF BlockAddr
<1>8. \A o \in Cells : ~InBlock(FlashStart + o) => flash'[FlashStart + o] = flash[FlashStart + o]
  BY CellsAre DEF FlashErase
<1>9. FlashWindow' = [o \in Cells |-> IF o \in PageBase .. (PageBase + PageSize - 1)
                                     THEN flash_write_page_buffer[o - PageBase]
                                     ELSE flash[FlashStart + o]]
  <2>1. FlashWindow' = [o \in Cells |-> IF InBlock(FlashStart + o)
                                       THEN flash_write_page_buffer[FlashStart + o - BlockAddr]
                                       ELSE flash'[FlashStart + o]]
    BY <1>1, <1>7 DEF FlashWindow, InBlock, Cells
  <2>2. \A o \in Cells : /\ InBlock(FlashStart + o) <=> o \in PageBase .. (PageBase + PageSize - 1)
                         /\ FlashStart + o - BlockAddr = o - PageBase
    BY <1>1, BlockIs
  <2>3. QED
    BY <1>8, <2>1, <2>2
<1>10. FlashView' = FlashWindow'
  BY <1>1 DEF FlashView, FlashWindow
<1>11. FlashView = [o \in Cells |-> IF o \in PageBase .. (PageBase + (PageSize - 1) - 1)
                                   THEN flash_write_page_buffer[o - PageBase]
                                   ELSE flash[FlashStart + o]]
  BY <1>1, <1>2, ViewIs
<1>12. FlashView' = [FlashView EXCEPT ![w] = b]
  <2>1. w \in Cells
    BY <1>4, CellsAre, Geometry
  <2>2. ASSUME NEW o \in Cells
        PROVE  FlashView'[o] = [FlashView EXCEPT ![w] = b][o]
    <3>1. CASE o = w
      <4>1. o \in PageBase .. (PageBase + PageSize - 1) /\ o - PageBase = PageSize - 1
        BY <1>5, <3>1, PageSizeType
      <4>2. FlashView'[o] = b
        BY <1>9, <1>10, <4>1
      <4>3. QED
        BY <1>11, <3>1, <4>2
    <3>2. CASE o # w
      <4>1. o \in PageBase .. (PageBase + PageSize - 1)
            <=> o \in PageBase .. (PageBase + (PageSize - 1) - 1)
        BY <1>5, <3>2, CellsAre, PageSizeType
      <4>2. FlashView'[o] = FlashView[o]
        BY <1>9, <1>10, <1>11, <4>1
      <4>3. QED
        BY <1>11, <3>2, <4>2
    <3>3. QED
      BY <3>1, <3>2
  <2>3. FlashView' = [o \in Cells |-> FlashView'[o]]
    BY <1>9, <1>10
  <2>4. [FlashView EXCEPT ![w] = b] = [o \in Cells |-> [FlashView EXCEPT ![w] = b][o]]
    BY <1>11
  <2>5. QED
    BY <2>2, <2>3, <2>4
<1>13. ByKind(eeprom, FlashView)' =
        [ByKind(eeprom, FlashView) EXCEPT !["flash"] = [@ EXCEPT ![w] = b]]
  BY <1>1, <1>12 DEF ByKind, MemTypes
<1>14. ByKind(eeprom, FlashWindow)' = ByKind(eeprom, FlashView)'
  BY <1>10 DEF ByKind
<1>15. ByKind(1, PageSize)["flash"] = PageSize
      /\ FlashSize - FlashStart = ByKind(EepromSize, FlashSize - FlashStart)["flash"]
  BY ByKindIs
<1> HIDE DEF b, w
<1>16. "flash" \in MemTypes /\ FlashSize - FlashStart \in Nat /\ TRUE \in BOOLEAN
  BY Geometry DEF MemTypes
<1>17. (w + 1) % (ByKind(1, PageSize)["flash"]) = 0 /\ ByKind(1, PageSize)["flash"] > 1
  BY <1>6, <1>15, PageSizeAtLeastTwo
<1>18. Logical!Put(b)
  BY <1>1, <1>2, <1>4, <1>13, <1>14, <1>15, <1>16, <1>17, PutMoves
<1>19. QED
  BY <1>3, <1>18 DEF b

LEMMA ProgramMoves ==
    ASSUME WriteInv, FlashProgram
    PROVE  Logical!Programmed
<1>1. /\ pc = "program" /\ pc' = "write" /\ mem_i' = mem_i + 1
      /\ fwp_buf_off' = (Word - (mem_i + 1)) % Word
      /\ UNCHANGED <<mem_type, mem_wr_off, flash_write_page_buffer, eeprom>>
  BY DEF FlashProgram
<1>2. BufIndex' = 0
  BY <1>1, Offsets, WordWrap DEF BufIndex
<1>3. FlashView' = FlashWindow'
  <2>1. mem_wr_off' \in Nat /\ mem_i' \in Nat
    BY <1>1, Offsets
  <2>2. PageBase' \in Int
    BY <1>2, <2>1 DEF PageBase
  <2>3. ASSUME NEW o \in Cells PROVE o \notin PageBase' .. (PageBase' + BufIndex' - 1)
    <3>1. o \in Int
      BY CellsAre
    <3>2. \A p, i \in Int : i \notin p .. (p + 0 - 1)
      OBVIOUS
    <3>3. o \notin PageBase' .. (PageBase' + 0 - 1)
      BY Zenon, <2>2, <3>1, <3>2
    <3>4. QED
      BY Zenon, <1>2, <3>3
  <2>4. QED
    BY <1>1, <2>3 DEF FlashView, FlashWindow, Cells
<1>4. FlashView = FlashWindow
  BY <1>1, WindowIs
<1>5. FlashWindow' = FlashWindow
  <2>1. Writable(BlockAddr) /\ BlockAddr \in Nat
    BY <1>1, BlockInWindow DEF WriteInv
  <2>2. \A o \in Cells :
          /\ InBlock(FlashStart + o) =>
               flash'[FlashStart + o] = flash_write_page_buffer[FlashStart + o - BlockAddr]
          /\ ~InBlock(FlashStart + o) => flash'[FlashStart + o] = flash[FlashStart + o]
    <3>1. \A a \in 0 .. FlashEnd :
            /\ InBlock(a) => flash'[a] = flash_write_page_buffer[a - BlockAddr]
            /\ ~InBlock(a) => flash'[a] = flash[a]
      BY <2>1 DEF FlashProgram
    <3>2. ASSUME NEW o \in Cells
          PROVE  /\ FlashStart + o \in 0 .. FlashEnd
                 /\ (FlashStart + o) - BlockAddr = FlashStart + o - BlockAddr
      BY <2>1, CellsAre, Geometry
    <3>3. QED
      BY <3>1, <3>2
  <2>3. FlashWindow' = [o \in Cells |-> flash'[FlashStart + o]]
    BY <1>1 DEF FlashWindow, Cells
  <2>4. QED
    BY <1>1, <2>2, <2>3 DEF FlashWindow, Cells
<1>6. WrittenTo' = WrittenTo
  BY <1>1, Offsets DEF WrittenTo
<1>7. ByKind(eeprom, FlashView)' = ByKind(eeprom, FlashView)
      /\ ByKind(eeprom, FlashWindow)' = ByKind(eeprom, FlashWindow)
  BY <1>1, <1>3, <1>4, <1>5 DEF ByKind
<1>8. (pc = "program") /\ (pc = "program")' = FALSE
  BY Zenon, <1>1
<1>9. QED
  BY <1>1, <1>6, <1>7, <1>8 DEF Logical!Programmed

\* A power loss costs what the buffer holds and, while it is programmed, the page.
LEMMA PowerLossMoves ==
    ASSUME WriteInv, PowerLoss
    PROVE  Logical!PowerLoss
<1>1. /\ mem_type' = "eeprom" /\ mem_wr_off' = 0 /\ mem_i' = 0 /\ pc' = "poll"
      /\ UNCHANGED <<eeprom, flash>>
  BY DEF PowerLoss, Boot
<1>2. FlashView' = FlashWindow' /\ FlashWindow' = Plain
  BY <1>1 DEF FlashView, FlashWindow, Plain, Cells
<1>3. WrittenTo' = 0
  BY <1>1 DEF WrittenTo
<1>4. ByKind(eeprom, FlashView)' = ByKind(eeprom, Plain)
      /\ ByKind(eeprom, FlashWindow)' = ByKind(eeprom, Plain)
  BY <1>1, <1>2 DEF ByKind
<1>5. ByKind(eeprom, Plain) =
        IF pc = "program" THEN Logical!UnitLost ELSE ByKind(eeprom, FlashWindow)
  <2>1. CASE pc # "program"
    BY <2>1, WindowIs
  <2>2. CASE pc = "program"
    <3>1. mem_type = "flash" /\ BufIndex = PageSize - 1
      BY <2>2 DEF WriteInv, FitsInv
    <3>2. PageBase \in Nat /\ mem_wr_off + mem_i = PageBase + (PageSize - 1)
      BY <3>1, PageIs
    <3>3. WrittenTo = PageBase + PageSize
      BY <2>2, <3>2, Offsets, PageSizeType DEF WrittenTo
    <3>4. /\ ByKind(1, PageSize)[mem_type] = PageSize
          /\ ByKind(eeprom, FlashWindow)[mem_type] = FlashWindow
      BY <3>1, ByKindIs
    <3>5. DOMAIN FlashWindow = Cells
      BY DEF FlashWindow, Cells
    <3> DEFINE Lost == [o \in Cells |-> IF o \in PageBase .. (PageBase + PageSize - 1)
                                        THEN Erased ELSE FlashWindow[o]]
    <3>6. (WrittenTo - PageSize) .. (WrittenTo - 1) = PageBase .. (PageBase + PageSize - 1)
      BY <3>2, <3>3, PageSizeType
    <3>7. Logical!UnitLost = [ByKind(eeprom, FlashWindow) EXCEPT !["flash"] = Lost]
      BY <3>1, <3>4, <3>5, <3>6 DEF Logical!UnitLost
    <3>8. [ByKind(eeprom, FlashWindow) EXCEPT !["flash"] = Lost] = ByKind(eeprom, Lost)
      BY DEF ByKind, MemTypes
    <3>9. Lost = Plain
      <4>1. ASSUME NEW o \in Cells
            PROVE  Lost[o] = Plain[o]
        <5>1. /\ InBlock(FlashStart + o) <=> o \in PageBase .. (PageBase + PageSize - 1)
              /\ FlashStart + o \in 0 .. FlashEnd
          BY <2>2, BlockIs
        <5>2. CASE InBlock(FlashStart + o)
          <6>1. flash[FlashStart + o] = Erased
            BY <2>2, <5>1, <5>2 DEF WriteInv, ErasedInv
          <6>2. QED
            BY <5>1, <5>2, <6>1 DEF Plain
        <5>3. CASE ~InBlock(FlashStart + o)
          <6>1. FlashWindow[o] = flash[FlashStart + o]
            BY <5>3 DEF FlashWindow, Cells
          <6>2. QED
            BY <5>1, <5>3, <6>1 DEF Plain
        <5>4. QED
          BY <5>2, <5>3
      <4>2. QED
        BY <4>1 DEF Plain
    <3> HIDE DEF Lost
    <3>10. QED
      BY <2>2, <3>7, <3>8, <3>9
  <2>3. QED
    BY <2>1, <2>2
<1>6. (pc = "program")' = FALSE
  BY Zenon, <1>1
<1>7. QED
  BY <1>1, <1>3, <1>4, <1>5, <1>6 DEF Logical!PowerLoss

LEMMA StepImplements == WriteInv /\ [Next]_vars => [Logical!Next]_(Logical!vars)
<1> SUFFICES ASSUME WriteInv, [Next]_vars PROVE [Logical!Next]_(Logical!vars)
  OBVIOUS
<1>1. pc \in {"poll", "ready"} => mem_i = 0
  BY DEF WriteInv, FitsInv, Storing
<1>2. mem_type \in MemTypes
  BY Offsets
<1>3. ASSUME NEW b \in Byte, Logical!Put(b) PROVE Logical!Next
  BY <1>3 DEF Logical!Next
<1>4. CASE PollIdle \/ Refill \/ NotReady \/ HostRead \/ UNCHANGED vars
  <2>1. UNCHANGED <<mem_type, mem_wr_off, fwp_buf_off, mem_i,
                    flash_write_page_buffer, eeprom, flash>>
    BY <1>4 DEF PollIdle, PollDone, Refill, NotReady, HostRead, loopVars, vars
  <2>2. pc' = pc \/ (pc # "program" /\ pc' # "program")
    BY <1>4 DEF PollIdle, PollDone, Refill, NotReady, HostRead, loopVars, vars
  <2>3. QED
    BY <2>1, <2>2, NoByteMoves
<1>5. ASSUME NEW t \in MemTypes, SetMemType(t) PROVE [Logical!Next]_(Logical!vars)
  BY <1>5, SelectMoves DEF Logical!Next
<1>6. ASSUME NEW o \in Offset, SetMemRdOffset(o) PROVE [Logical!Next]_(Logical!vars)
  BY <1>6, NoByteMoves DEF SetMemRdOffset, PollDone
<1>7. ASSUME NEW o \in Offset, SetMemWrOffset(o) PROVE [Logical!Next]_(Logical!vars)
  <2>1. mem_size(mem_type) = ByKind(EepromSize, FlashSize - FlashStart)[mem_type]
    BY <1>2, SizeFacts, ByKindIs DEF MemTypes
  <2>2. QED
    BY <1>7, <2>1, SeekMoves DEF Logical!Next
<1>8. ASSUME NEW d \in Payload, WriteOut(d) PROVE [Logical!Next]_(Logical!vars)
  <2>1. /\ UNCHANGED <<mem_type, mem_wr_off, fwp_buf_off, flash_write_page_buffer, eeprom, flash>>
        /\ pc = "poll" /\ mem_i' = 0 /\ pc' # "program"
    BY <1>8 DEF WriteOut
  <2>2. QED
    BY <1>1, <2>1, NoByteMoves
<1>9. CASE WriteEepromByte
  BY <1>3, <1>9, EepromPut
<1>10. CASE BufferFlashByte
  BY <1>3, <1>10, BufferedPut, PageFills
<1>11. CASE FlashErase
  BY <1>3, <1>11, ErasePut
<1>12. CASE FlashProgram
  BY <1>12, ProgramMoves DEF Logical!Next
<1>13. CASE WriteDone
  BY <1>13, WriteDoneMoves
<1>14. CASE PowerLoss
  BY <1>14, PowerLossMoves DEF Logical!Next
<1>15. QED
  BY <1>4, <1>5, <1>6, <1>7, <1>8, <1>9, <1>10, <1>11, <1>12, <1>13, <1>14 DEF Next, MainLoop

\* What the host sends lands at consecutive offsets from its last seek, whatever
\* the messages are cut into; a page becomes durable when its last byte arrives
\* (main.c usbFunctionWriteOut(), SET_MEM_WR_OFFSET; flash.c flash_write_block()),
\* and a power loss costs the bytes buffered and the page being programmed.
THEOREM WritesAreLogical == Spec => ImplementsLogicalMemory
<1>1. Init => WriteInv
  <2>1. Init => ErasedInv
    BY DEF Init, ErasedInv
  <2>2. QED
    BY <2>1, InitType, BufferInit DEF WriteInv
<1>2. WriteInv /\ [Next]_vars => WriteInv'
  BY TypeStep, BufferStep, ErasedStep DEF WriteInv
<1>3. Init => Logical!Init
  <2> SUFFICES ASSUME Init PROVE Logical!Init
    OBVIOUS
  <2>1. /\ FlashWindow = [o \in 0 .. (FlashSize - FlashStart - 1) |-> Flash0[FlashStart + o]]
        /\ FlashView = FlashWindow
    BY SizeFacts DEF Init, FlashWindow, FlashView
  <2>2. /\ mem_type = "eeprom" /\ eeprom = Eeprom0
        /\ ~(pc = "program") /\ (pc = "program") = FALSE
    BY Zenon DEF Init
  <2>3. WrittenTo = 0
    BY DEF Init, WrittenTo
  <2>4. QED
    BY <2>1, <2>2, <2>3 DEF Logical!Init
<1>4. WriteInv /\ [Next]_vars => [Logical!Next]_(Logical!vars)
  BY StepImplements
<1>5. QED
  BY <1>1, <1>2, <1>3, <1>4, PTL DEF Spec, ImplementsLogicalMemory, Logical!Spec
=============================================================================
