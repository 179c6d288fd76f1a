----------------------------- MODULE MemDevice -----------------------------
(***************************************************************************)
(* The memory device of the LDDK firmware: the window on EEPROM or on the  *)
(* application flash that the host selects and positions with control      *)
(* requests, reads through interrupt-IN endpoint 1 (one message preloaded, *)
(* refilled by the main loop) and writes through OUT endpoint 1 (EEPROM    *)
(* byte by byte, flash through a one-page buffer and flash_write_block()). *)
(*                                                                         *)
(* One pass of the main loop is "poll" (usbPoll() hands the firmware at    *)
(* most one received message) followed by "ready" (the refill of endpoint  *)
(* 1).  HostRead is the interrupt routine; it runs between any two steps   *)
(* except while a received message is being processed, when the routine    *)
(* answers NAK (module UsbDriver is about that rule).                      *)
(***************************************************************************)
EXTENDS Integers, Sequences

CONSTANTS
    Packet,      \* bytes of a full low-speed packet (8)
    PageSize,    \* SPM_PAGESIZE = BLOCK_SIZE (128)
    EepromSize,  \* EEPROM_SIZE (0x400)
    FlashStart,  \* FLASH_START, first address of the flash window (0x1000)
    FlashSize,   \* FLASH_SIZE, the address the flash window ends at (0x7000)
    BlAddr,      \* BL_ADDR, where the boot section starts (0x7000)
    FlashEnd,    \* FLASHEND, the last flash address (0x7fff)
    Byte,        \* values of a byte
    Erased,      \* what an erased flash byte reads as (0xff)
    Offset,      \* the wValue words the host passes as offsets
    Payload,     \* the messages the host sends to OUT endpoint 1
    Eeprom0,     \* contents of the EEPROM before the first power-up
    Flash0       \* contents of the flash before the first power-up

Word == 65536    \* unsigned is 16 bits wide on the AVR

ASSUME GeometryAssumption ==
    /\ Packet \in Nat \ {0}
    /\ PageSize \in 2 .. (Word - 1)
    /\ EepromSize \in 1 .. (Word - 1)
    /\ FlashStart \in Nat /\ FlashSize \in Nat /\ BlAddr \in Nat /\ FlashEnd \in Nat
    /\ FlashStart < FlashSize /\ FlashSize <= BlAddr
    /\ BlAddr <= FlashEnd /\ FlashEnd < Word
    /\ EepromSize + Packet < Word /\ FlashSize + Packet < Word    \* offset + 8 fits
    /\ \E p \in 0 .. FlashStart : FlashStart = p * PageSize
    /\ \E q \in 0 .. FlashSize : FlashSize = q * PageSize

ASSUME DataAssumption ==
    /\ Erased \in Byte
    /\ Offset \subseteq 0 .. (Word - 1)
    /\ \A d \in Payload : d \in Seq(Byte) /\ Len(d) \in 1 .. Packet
    /\ Eeprom0 \in [0 .. (EepromSize - 1) -> Byte]
    /\ Flash0 \in [0 .. FlashEnd -> Byte]

VARIABLES
    mem_type,                 \* the memory the window is on
    mem_rd_off,               \* offset of the message preloaded last
    mem_wr_off,               \* offset of the next byte to be written
    fwp_buf_off,              \* fill level of the page buffer, a 16-bit word
    flash_write_page_buffer,
    eeprom, flash,            \* the two memories; they survive a power loss
    in1,                      \* the message in usbTxStatus1: its offset and data
    in1Full,                  \* usbTxLen1 holds a data length: not yet sent
    pc,                       \* where the main loop is
    out, mem_i,               \* the OUT message being stored, and its loop index
    nextRd, positioned, fresh \* history: see below

(* nextRd: the offset the host's next read is due to return, counted from   *)
(* its last seek or select.  positioned: the host has done one since the    *)
(* firmware started.  fresh: no write since the message was preloaded.      *)

loopVars == <<pc, out, mem_i>>
historyVars == <<nextRd, positioned, fresh>>
vars == <<mem_type, mem_rd_off, mem_wr_off, fwp_buf_off, flash_write_page_buffer,
          eeprom, flash, in1, in1Full, loopVars, historyVars>>

MemTypes == {"eeprom", "flash"}
Storing == {"write", "erase", "program"}   \* inside usbFunctionWriteOut()

-----------------------------------------------------------------------------
mem_start(t) == IF t = "flash" THEN FlashStart ELSE 0
mem_size(t) == IF t = "flash" THEN FlashSize - FlashStart ELSE EepromSize

Clip(t, o) == IF o > mem_size(t) THEN mem_size(t) ELSE o

mem_read_byte(t, o) == IF t = "flash" THEN flash[FlashStart + o] ELSE eeprom[o]

\* The bytes a read at offset o returns: a full packet, or what is left.
Window(t, o) ==
    LET left == mem_size(t) - o
        n == IF left < Packet THEN left ELSE Packet
    IN  [i \in 1 .. n |-> mem_read_byte(t, o + i - 1)]

pre_load_mem_data(t, o) ==
    /\ in1' = [off |-> o, data |-> Window(t, o)]
    /\ in1Full' = TRUE
    /\ fresh' = TRUE

\* The offset the main loop moves on to once the message at o was sent.
FollowingOff(t, o) == IF o + Packet < mem_size(t) THEN o + Packet ELSE mem_size(t)

-----------------------------------------------------------------------------
\* main() after a reset: set_mem_type(eeprom) preloads the message at offset 0,
\* then usbInit() marks the endpoint empty.
Boot ==
    /\ mem_type' = "eeprom"
    /\ mem_rd_off' = 0 /\ mem_wr_off' = 0 /\ fwp_buf_off' = 0
    /\ flash_write_page_buffer' = [i \in 0 .. (PageSize - 1) |-> Erased]
    /\ in1' = [off |-> 0, data |-> <<>>]
    /\ in1Full' = FALSE
    /\ pc' = "poll" /\ out' = <<>> /\ mem_i' = 0
    /\ nextRd' = 0 /\ positioned' = FALSE /\ fresh' = TRUE

Init ==
    /\ mem_type = "eeprom"
    /\ mem_rd_off = 0 /\ mem_wr_off = 0 /\ fwp_buf_off = 0
    /\ flash_write_page_buffer = [i \in 0 .. (PageSize - 1) |-> Erased]
    /\ eeprom = Eeprom0 /\ flash = Flash0
    /\ in1 = [off |-> 0, data |-> <<>>]
    /\ in1Full = FALSE
    /\ pc = "poll" /\ out = <<>> /\ mem_i = 0
    /\ nextRd = 0 /\ positioned = FALSE /\ fresh = TRUE

\* Power fails, or the watchdog fires, wherever the main loop is.
PowerLoss == Boot /\ UNCHANGED <<eeprom, flash>>

-----------------------------------------------------------------------------
PollDone == pc' = "ready" /\ UNCHANGED <<out, mem_i>>

\* usbPoll() finds no message for the memory device.
PollIdle ==
    /\ pc = "poll" /\ PollDone
    /\ UNCHANGED <<mem_type, mem_rd_off, mem_wr_off, fwp_buf_off,
                   flash_write_page_buffer, eeprom, flash, in1, in1Full, historyVars>>

\* CUSTOM_RQ_SET_MEM_TYPE
SetMemType(t) ==
    /\ pc = "poll" /\ PollDone
    /\ mem_type' = t
    /\ mem_rd_off' = 0 /\ mem_wr_off' = 0 /\ fwp_buf_off' = 0
    /\ pre_load_mem_data(t, 0)
    /\ nextRd' = 0 /\ positioned' = TRUE
    /\ UNCHANGED <<flash_write_page_buffer, eeprom, flash>>

\* CUSTOM_RQ_SET_MEM_RD_OFFSET.  The preloaded message is overwritten.
SetMemRdOffset(o) ==
    /\ pc = "poll" /\ PollDone
    /\ mem_rd_off' = Clip(mem_type, o)
    /\ pre_load_mem_data(mem_type, Clip(mem_type, o))
    /\ nextRd' = Clip(mem_type, o) /\ positioned' = TRUE
    /\ UNCHANGED <<mem_type, mem_wr_off, fwp_buf_off, flash_write_page_buffer,
                   eeprom, flash>>

\* The page buffer once the bytes of o's page below o are read back into it.
PagePrefix(o) ==
    [i \in 0 .. (PageSize - 1) |->
        IF i < (o % PageSize) THEN flash[FlashStart + (o - (o % PageSize)) + i]
        ELSE flash_write_page_buffer[i]]

\* mutant: the page's bytes below the offset are not read back
SetMemWrOffset_NoPrefix(o) ==
    /\ pc = "poll" /\ PollDone
    /\ mem_wr_off' = Clip(mem_type, o)
    /\ fwp_buf_off' = IF mem_type = "flash" THEN (mem_wr_off') % PageSize ELSE fwp_buf_off
    /\ UNCHANGED <<mem_type, mem_rd_off, flash_write_page_buffer, eeprom, flash,
                   in1, in1Full, historyVars>>

\* CUSTOM_RQ_SET_MEM_WR_OFFSET.  PageSize is a power of two: & (SPM_PAGESIZE - 1)
\* is the remainder.
SetMemWrOffset(o) ==
    /\ pc = "poll" /\ PollDone
    /\ mem_wr_off' = Clip(mem_type, o)
    /\ IF mem_type = "flash"
       THEN /\ fwp_buf_off' = (mem_wr_off') % PageSize
            /\ flash_write_page_buffer' = PagePrefix(mem_wr_off')
       ELSE UNCHANGED <<fwp_buf_off, flash_write_page_buffer>>
    /\ UNCHANGED <<mem_type, mem_rd_off, eeprom, flash, in1, in1Full, historyVars>>

-----------------------------------------------------------------------------
\* usbFunctionWriteOut() for endpoint 1, one byte of its loop per step.

Room == mem_size(mem_type) - mem_wr_off

WriteOut_NoLimit(d) ==    \* mutant: the message is not cut at the end of the memory
    /\ pc = "poll"
    /\ out' = d /\ pc' = "write" /\ mem_i' = 0
    /\ UNCHANGED <<mem_type, mem_rd_off, mem_wr_off, fwp_buf_off,
                   flash_write_page_buffer, eeprom, flash, in1, in1Full, historyVars>>

WriteOut(d) ==
    /\ pc = "poll"
    /\ out' = IF Len(d) > Room THEN SubSeq(d, 1, Room) ELSE d
    /\ pc' = IF Len(out') = 0 THEN "ready" ELSE "write"
    /\ mem_i' = 0
    /\ UNCHANGED <<mem_type, mem_rd_off, mem_wr_off, fwp_buf_off,
                   flash_write_page_buffer, eeprom, flash, in1, in1Full, historyVars>>

BufIndex == (fwp_buf_off + mem_i) % Word

WriteEepromByte ==
    /\ pc = "write" /\ mem_i < Len(out) /\ mem_type = "eeprom"
    /\ eeprom' = [eeprom EXCEPT ![mem_wr_off + mem_i] = out[mem_i + 1]]
    /\ mem_i' = mem_i + 1
    /\ fresh' = FALSE
    /\ UNCHANGED <<mem_type, mem_rd_off, mem_wr_off, fwp_buf_off,
                   flash_write_page_buffer, flash, in1, in1Full, pc, out,
                   nextRd, positioned>>

BufferFlashByte ==
    /\ pc = "write" /\ mem_i < Len(out) /\ mem_type = "flash"
    /\ flash_write_page_buffer' =
          [flash_write_page_buffer EXCEPT ![BufIndex] = out[mem_i + 1]]
    /\ IF BufIndex = PageSize - 1
       THEN pc' = "erase" /\ UNCHANGED mem_i
       ELSE mem_i' = mem_i + 1 /\ UNCHANGED pc
    /\ UNCHANGED <<mem_type, mem_rd_off, mem_wr_off, fwp_buf_off, eeprom, flash,
                   in1, in1Full, out, historyVars>>

\* flash_write_block(): the page it is called for and the pages it accepts.
BlockAddr_NoStart == mem_wr_off + mem_i - (PageSize - 1)   \* mutant: offset, not address

BlockAddr == mem_start(mem_type) + mem_wr_off + mem_i - (PageSize - 1)
InBlock(a) == a \in BlockAddr .. (BlockAddr + PageSize - 1)
Writable(a) == a < BlAddr /\ \E q \in 0 .. a : a = q * PageSize

FlashErase ==
    /\ pc = "erase"
    /\ flash' = IF Writable(BlockAddr)
                THEN [a \in 0 .. FlashEnd |-> IF InBlock(a) THEN Erased ELSE flash[a]]
                ELSE flash
    /\ pc' = "program"
    /\ fresh' = FALSE
    /\ UNCHANGED <<mem_type, mem_rd_off, mem_wr_off, fwp_buf_off,
                   flash_write_page_buffer, eeprom, in1, in1Full, out, mem_i,
                   nextRd, positioned>>

FlashProgram_NoWrap ==    \* mutant: the fill level is reset to 0, not to -(mem_i + 1)
    /\ pc = "program"
    /\ flash' = IF Writable(BlockAddr)
                THEN [a \in 0 .. FlashEnd |->
                        IF InBlock(a) THEN flash_write_page_buffer[a - BlockAddr]
                        ELSE flash[a]]
                ELSE flash
    /\ fwp_buf_off' = 0
    /\ mem_i' = mem_i + 1
    /\ pc' = "write"
    /\ UNCHANGED <<mem_type, mem_rd_off, mem_wr_off, flash_write_page_buffer,
                   eeprom, in1, in1Full, out, historyVars>>

FlashProgram ==
    /\ pc = "program"
    /\ flash' = IF Writable(BlockAddr)
                THEN [a \in 0 .. FlashEnd |->
                        IF InBlock(a) THEN flash_write_page_buffer[a - BlockAddr]
                        ELSE flash[a]]
                ELSE flash
    /\ fwp_buf_off' = (Word - (mem_i + 1)) % Word
    /\ mem_i' = mem_i + 1
    /\ pc' = "write"
    /\ UNCHANGED <<mem_type, mem_rd_off, mem_wr_off, flash_write_page_buffer,
                   eeprom, in1, in1Full, out, historyVars>>

WriteDone ==
    /\ pc = "write" /\ mem_i = Len(out)
    /\ fwp_buf_off' = (fwp_buf_off + mem_i) % Word
    /\ mem_wr_off' = mem_wr_off + mem_i
    /\ pc' = "ready" /\ out' = <<>> /\ mem_i' = 0
    /\ UNCHANGED <<mem_type, mem_rd_off, flash_write_page_buffer, eeprom, flash,
                   in1, in1Full, historyVars>>

-----------------------------------------------------------------------------
\* The interrupt routine answers an IN of endpoint 1 with the preloaded message.
HostRead ==
    /\ in1Full /\ pc \notin Storing
    /\ in1Full' = FALSE
    /\ nextRd' = FollowingOff(mem_type, nextRd)
    /\ UNCHANGED <<mem_type, mem_rd_off, mem_wr_off, fwp_buf_off,
                   flash_write_page_buffer, eeprom, flash, in1, loopVars,
                   positioned, fresh>>

Refill_Unguarded ==    \* mutant: usbInterruptIsReady() is not asked
    /\ pc = "ready" /\ pc' = "poll"
    /\ mem_rd_off' = FollowingOff(mem_type, mem_rd_off)
    /\ pre_load_mem_data(mem_type, mem_rd_off')
    /\ UNCHANGED <<mem_type, mem_wr_off, fwp_buf_off, flash_write_page_buffer,
                   eeprom, flash, out, mem_i, nextRd, positioned>>

\* usbInterruptIsReady(): move on and preload the next message.
Refill ==
    /\ pc = "ready" /\ pc' = "poll"
    /\ ~in1Full
    /\ mem_rd_off' = FollowingOff(mem_type, mem_rd_off)
    /\ pre_load_mem_data(mem_type, mem_rd_off')
    /\ UNCHANGED <<mem_type, mem_wr_off, fwp_buf_off, flash_write_page_buffer,
                   eeprom, flash, out, mem_i, nextRd, positioned>>

NotReady ==
    /\ pc = "ready" /\ pc' = "poll"
    /\ in1Full
    /\ UNCHANGED <<mem_type, mem_rd_off, mem_wr_off, fwp_buf_off,
                   flash_write_page_buffer, eeprom, flash, in1, in1Full, out, mem_i,
                   historyVars>>

-----------------------------------------------------------------------------
MainLoop ==
    \/ PollIdle
    \/ \E t \in MemTypes : SetMemType(t)
    \/ \E o \in Offset : SetMemRdOffset(o) \/ SetMemWrOffset(o)
    \/ \E d \in Payload : WriteOut(d)
    \/ WriteEepromByte \/ BufferFlashByte
    \/ FlashErase \/ FlashProgram
    \/ WriteDone
    \/ Refill \/ NotReady

Next == MainLoop \/ HostRead \/ PowerLoss

Spec == Init /\ [][Next]_vars

-----------------------------------------------------------------------------
TypeOK ==
    /\ mem_type \in MemTypes
    /\ mem_rd_off \in 0 .. mem_size(mem_type)
    /\ mem_wr_off \in 0 .. mem_size(mem_type)
    /\ fwp_buf_off \in 0 .. (Word - 1)
    /\ flash_write_page_buffer \in [0 .. (PageSize - 1) -> Byte]
    /\ eeprom \in [0 .. (EepromSize - 1) -> Byte]
    /\ flash \in [0 .. FlashEnd -> Byte]
    /\ in1.off \in Nat /\ in1.data \in Seq(Byte)
    /\ in1Full \in BOOLEAN
    /\ pc \in {"poll", "ready"} \cup Storing
    /\ out \in Seq(Byte) /\ mem_i \in 0 .. Len(out)
    /\ nextRd \in Nat /\ positioned \in BOOLEAN /\ fresh \in BOOLEAN

\* The fill level of the page buffer is the write position's place in its page,
\* through every wrap of the 16-bit arithmetic: no byte is stored outside the
\* buffer, none at the place of another (usbFunctionWriteOut, SET_MEM_WR_OFFSET).
PageBufferTracksOffset ==
    mem_type = "flash" =>
        /\ BufIndex < PageSize
        /\ (FlashStart + mem_wr_off + mem_i) % PageSize = BufIndex

\* The firmware below the window and the boot section above it are never
\* written, whatever the host seeks to and sends.
FirmwareIntact ==
    \A a \in 0 .. FlashEnd :
        a \notin FlashStart .. (FlashSize - 1) => flash[a] = Flash0[a]

\* usbFunctionWriteOut() ignores the result of flash_write_block(): a page it
\* refused would be lost in silence.  It never refuses one.
PagesAccepted ==
    pc \in {"erase", "program"} => Writable(BlockAddr) /\ BlockAddr >= FlashStart

\* After a seek or a select the host reads the memory in order, each packet
\* exactly once, with the current contents unless it wrote meanwhile.
ReadsInOrder ==
    positioned /\ in1Full =>
        /\ in1.off = nextRd
        /\ fresh => in1.data = Window(mem_type, nextRd)

\* What GET_MEM_RD_OFFSET reports is the offset of the host's next read, or
\* that of the read just served.
ReportedOffsetLags ==
    positioned =>
        \/ mem_rd_off = nextRd
        \/ ~in1Full /\ nextRd = FollowingOff(mem_type, mem_rd_off)

\* usbdrv.h: usbInterruptIsReady() "indicates whether the last interrupt message
\* has already been sent".  So the message preloaded before usbInit() should be
\* sent before the main loop moves on, and the first read return offset 0.
FirstReadFromStart == in1Full => in1.off = nextRd

-----------------------------------------------------------------------------
(* The refinement of LogicalMemory.  Written and not yet durable: the bytes  *)
(* of the page buffer below the fill level.  While a page is being           *)
(* programmed, the abstract memory holds it already.                         *)

WrittenTo == mem_wr_off + mem_i + (IF pc = "program" THEN 1 ELSE 0)

FlashWindow ==
    [o \in 0 .. (mem_size("flash") - 1) |->
        IF pc = "program" /\ InBlock(FlashStart + o)
        THEN flash_write_page_buffer[FlashStart + o - BlockAddr]
        ELSE flash[FlashStart + o]]

PageBase == mem_wr_off + mem_i - BufIndex

FlashView ==
    [o \in 0 .. (mem_size("flash") - 1) |->
        IF mem_type = "flash" /\ pc # "program" /\ o \in PageBase .. (PageBase + BufIndex - 1)
        THEN flash_write_page_buffer[o - PageBase]
        ELSE FlashWindow[o]]

ByKind(e, f) == [k \in MemTypes |-> IF k = "eeprom" THEN e ELSE f]

Logical == INSTANCE LogicalMemory WITH
    Kind <- MemTypes,
    Size <- ByKind(EepromSize, FlashSize - FlashStart),
    Unit <- ByKind(1, PageSize),
    Default <- "eeprom",
    Contents <- ByKind(Eeprom0,
                       [o \in 0 .. (FlashSize - FlashStart - 1) |-> Flash0[FlashStart + o]]),
    kind <- mem_type,
    wr <- WrittenTo,
    mem <- ByKind(eeprom, FlashWindow),
    view <- ByKind(eeprom, FlashView),
    busy <- (pc = "program")

\* The page buffer, its wrapping fill level, the prefix read back on a seek, the
\* erase and program steps, and power losses between any two of them: the host
\* sees a memory written in order, page by page.
ImplementsLogicalMemory == Logical!Spec
=============================================================================
