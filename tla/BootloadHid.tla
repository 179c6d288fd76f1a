---------------------------- MODULE BootloadHid ----------------------------
(***************************************************************************)
(* The boot loader and its uploader: bootloadHID reads an Intel hex file   *)
(* and sends it in HID reports, one block each; a report is one            *)
(* control-OUT transfer, cut into packets that the firmware takes one per  *)
(* usbPoll().  usbFunctionWrite() erases a page at its first word, loads   *)
(* the words into the temporary page buffer of the AVR and writes the page *)
(* at its last word.                                                       *)
(*                                                                         *)
(* The unit of addresses and lengths is the flash word (two bytes).  What  *)
(* the driver does with tokens, toggles and CRCs is in UsbDriver; here the *)
(* bus is the receive buffer of one packet (rx) and the reply the driver   *)
(* has for the host's IN tokens (reply).                                   *)
(***************************************************************************)
EXTENDS Integers, Sequences

CONSTANTS
    PacketWords,   \* words of a full packet (4)
    HeaderWords,   \* report id and address in front of a block (2)
    BlockWords,    \* words of a block, deviceData_t.data (64)
    FlashWords,    \* FLASHEND + 1 (16384)
    BootStart,     \* BL_ADDR (14336 on the ATmega32, Makefile)
    Reserve,       \* what the uploader keeps free at the end: 2048 bytes (1024)
    BufferWords,   \* sizeof(dataBuffer) (32896)
    Value,         \* contents of a word
    Erased,        \* what an erased word reads as (0xffff)
    Garbled,       \* a word after an interrupted or a repeated write
    Flash0,        \* contents of the flash before the first upload
    NoFile,        \* no file on the command line
    Bench          \* what is tried: [page, files, disturb] records

VARIABLE bench     \* one of them; it never changes

PageWords == bench.page     \* SPM_PAGESIZE (64)
File == bench.files         \* the hex files: sequences of records [base, type, data]
Disturb == bench.disturb    \* what may go wrong: "abort" the uploader, "power" off

Unfilled == "unfilled"

ASSUME GeometryAssumption ==
    /\ PacketWords \in Nat \ {0} /\ HeaderWords \in 0 .. (PacketWords - 1)
    /\ BlockWords \in Nat \ {0}
    /\ FlashWords \in Nat /\ Reserve \in 0 .. FlashWords /\ BufferWords \in Nat
    /\ BufferWords >= FlashWords /\ BootStart \in 0 .. FlashWords
    /\ (FlashWords - Reserve) % BlockWords = 0
    /\ \A b \in Bench :
          /\ b.page \in Nat \ {0}
          /\ BlockWords % b.page = 0 \/ b.page % BlockWords = 0
          /\ BootStart % b.page = 0
          /\ FlashWords % b.page = 0 /\ (FlashWords - Reserve) % b.page = 0

ASSUME DataAssumption ==
    /\ Erased \in Value /\ Garbled \in Value /\ Unfilled \notin Value
    /\ Flash0 \in [0 .. (FlashWords - 1) -> Value]
    /\ \A b \in Bench :
          /\ b.files \subseteq Seq([base : 0 .. BufferWords, type : 0 .. 255,
                                   data : Seq(Value \ {Garbled})])
          /\ \A f \in b.files : \A i \in DOMAIN f :
                f[i].base + Len(f[i].data) <= BufferWords
          /\ NoFile \notin b.files
          /\ b.disturb \subseteq {"abort", "power"}

VARIABLES
    flash,          \* survives a power loss
    buf,            \* the temporary page buffer; Unfilled: not loaded yet
    rww,            \* the application section can be read
    rx,             \* usbRxBuf: the packet usbPoll() has not finished with
    userRW,         \* USB_FLG_USE_USER_RW in usbMsgFlags
    reply,          \* the answer to IN tokens: "none" (NAK), "info", "empty"
    currentAddress, offset,
    wr,             \* usbFunctionWrite(): address, words left to load
    exitMainloop,
    pc,             \* where the firmware is
    stage, file, leave, startAddr, endAddr,   \* the uploader
    sent,           \* words of the report already sent
    linked,         \* the device has not gone since the uploader opened it
    ok,             \* the last uploader to end returned success
    first, clean, covered   \* history: see below

(* first: where the upload started, rounded down.  clean: the page buffer  *)
(* was empty when it did.  covered: the words of all pages of all uploads. *)

device == <<flash, buf, rww, rx, userRW, reply, currentAddress, offset, wr,
            exitMainloop, pc>>
host == <<stage, file, leave, startAddr, endAddr, sent, linked, ok, first, clean, covered>>
vars == <<device, host>>

NoHeader == -1
None == [kind |-> "none", header |-> NoHeader, words |-> <<>>]
Setup(request) == [kind |-> request, header |-> NoHeader, words |-> <<>>]
Data(header, words) == [kind |-> "data", header |-> header, words |-> words]
NotWriting == [address |-> 0, words |-> <<>>]
EmptyBuf == [i \in 0 .. (PageWords - 1) |-> Unfilled]
\* usbFunctionWrite():
InWrite == {"word", "erasing", "fill", "write", "writing", "end"}
InLoader == {"poll", "exit"} \union InWrite
\* The device answers: not yet so after a reset that leads to the application.
OnBus == pc \in {"poll"} \union InWrite \/ (pc = "exit" /\ exitMainloop)

RoundDown(a, n) == a - (a % n)
PageOf(a) == RoundDown(a, PageWords) .. (RoundDown(a, PageWords) + PageWords - 1)

-----------------------------------------------------------------------------
(* The uploader's view of a file. *)

Records(f) == {f[i] : i \in {j \in DOMAIN f : f[j].type = 0}}
Span(r) == r.base .. (r.base + Len(r.data) - 1)

\* parseIntelHex(): the image, startAddr and endAddr, updated record by record.
Fresh == [image |-> [a \in 0 .. (BufferWords - 1) |-> Erased], start |-> BufferWords, end |-> 0]

WithRecord_AllTypes(p, r) ==    \* mutant: records of every type are data
    [image |-> [a \in 0 .. (BufferWords - 1) |->
                  IF a \in Span(r) THEN r.data[a - r.base + 1] ELSE p.image[a]],
     start |-> IF p.start > r.base THEN r.base ELSE p.start,
     end |-> IF p.end < r.base + Len(r.data) THEN r.base + Len(r.data) ELSE p.end]

WithRecord(p, r) ==
    IF r.type # 0 THEN p
    ELSE [image |-> [a \in 0 .. (BufferWords - 1) |->
                       IF a \in Span(r) THEN r.data[a - r.base + 1] ELSE p.image[a]],
          start |-> IF p.start > r.base THEN r.base ELSE p.start,
          end |-> IF p.end < r.base + Len(r.data) THEN r.base + Len(r.data) ELSE p.end]

Parsed(f) ==    \* [n]: after n records
    LET after[n \in 0 .. Len(f)] ==
            IF n = 0 THEN Fresh ELSE WithRecord(after[n - 1], f[n])
    IN  after

Image(f) == Parsed(f)[Len(f)].image
StartAddress(f) == Parsed(f)[Len(f)].start
EndAddress(f) == Parsed(f)[Len(f)].end

\* mask + 1: blocks of a report or pages, whichever are larger.
Unit == IF PageWords < BlockWords THEN BlockWords ELSE PageWords

\* The data of the report for the block at a, after its header.
Block(f, a) == LET image == Image(f) IN [i \in 1 .. BlockWords |-> image[a + i - 1]]

-----------------------------------------------------------------------------
Init ==
    /\ bench \in Bench
    /\ flash = Flash0 /\ buf = EmptyBuf /\ rww = TRUE
    /\ rx = None /\ userRW = FALSE /\ reply = "none"
    /\ currentAddress = 0 /\ offset = 0 /\ wr = NotWriting
    /\ exitMainloop = FALSE /\ pc = "poll"
    /\ stage = "closed" /\ file = NoFile /\ leave = FALSE
    /\ startAddr = 0 /\ endAddr = 0 /\ sent = 0 /\ linked = FALSE /\ ok = FALSE
    /\ first = 0 /\ clean = FALSE /\ covered = {}

-----------------------------------------------------------------------------
(* The firmware: usbPoll() in the main loop. *)

SetPage_KeepsOffset ==    \* mutant: offset is not reset for a new report
    /\ rx.kind = "setPage"
    /\ userRW' = TRUE /\ reply' = "none"
    /\ UNCHANGED <<offset, exitMainloop, pc>>

\* SET_REPORT of the page report: usbFunctionWrite() gets its data.
SetPage ==
    /\ rx.kind = "setPage"
    /\ offset' = 0 /\ userRW' = TRUE /\ reply' = "none"
    /\ UNCHANGED <<exitMainloop, pc>>

\* SET_REPORT of the other report: the main loop ends after this usbPoll(), and
\* the report's data is never looked at.
SetLeave ==
    /\ rx.kind = "setLeave"
    /\ exitMainloop' = TRUE /\ userRW' = FALSE /\ reply' = "empty"
    /\ pc' = "exit"
    /\ UNCHANGED offset

GetInfo ==
    /\ rx.kind = "getInfo"
    /\ userRW' = FALSE /\ reply' = "info"
    /\ UNCHANGED <<offset, exitMainloop, pc>>

ProcessSetup ==
    /\ pc = "poll"
    /\ SetPage \/ SetLeave \/ GetInfo
    /\ rx' = None
    /\ UNCHANGED <<flash, buf, rww, currentAddress, wr, host>>

\* The address in the header, if nothing of this report has come yet, and offset.
WriteBegin ==
    /\ pc = "poll" /\ rx.kind = "data" /\ userRW
    /\ wr' = [address |-> IF offset = 0 THEN rx.header ELSE currentAddress,
              words |-> rx.words]
    /\ offset' = (offset + Len(rx.words)) % (2 * BlockWords)    \* uchar
    /\ pc' = "word"
    /\ UNCHANGED <<flash, buf, rww, rx, userRW, reply, currentAddress,
                   exitMainloop, host>>

\* SPM in the boot section is refused by the lock bits (Makefile, LOCK).
Writable(a) == a < BootStart
OwnPage(a) == {w \in PageOf(a) : Writable(w)}

\* The flash with every word of a's page reading as v.
PageReads(a, v) == [w \in DOMAIN flash |-> IF w \in OwnPage(a) THEN v ELSE flash[w]]

\* What boot_page_write() makes of a word: bits are only ever cleared, so a word
\* that is not erased and gets another value ends up as neither.
Programmed(old, new) ==
    IF new \in {Unfilled, Erased, old} THEN old ELSE IF old = Erased THEN new ELSE Garbled
PageProgrammed(a) ==
    [w \in DOMAIN flash |->
        IF w \in OwnPage(a) THEN Programmed(flash[w], buf[w % PageWords]) ELSE flash[w]]

\* Words left to load, or all of this packet loaded.
NextWord(words) == IF words = <<>> THEN "end" ELSE "word"

\* boot_page_erase(), begun; boot_spm_busy_wait() ends with PageErased.
PageErase ==
    /\ pc = "word" /\ wr.address % PageWords = 0
    /\ rww' = (rww /\ ~ Writable(wr.address))
    /\ pc' = "erasing"
    /\ UNCHANGED <<flash, buf, rx, userRW, reply, currentAddress, offset, wr, exitMainloop, host>>

PageErased_TooEarly ==    \* mutant: boot_spm_busy_wait() is missing
    /\ pc = "erasing"
    /\ pc' = "fill"
    /\ UNCHANGED <<flash, buf, rww, rx, userRW, reply, currentAddress, offset, wr,
                   exitMainloop, host>>

PageErased ==
    /\ pc = "erasing"
    /\ flash' = PageReads(wr.address, Erased)
    /\ pc' = "fill"
    /\ UNCHANGED <<buf, rww, rx, userRW, reply, currentAddress, offset, wr,
                   exitMainloop, host>>

\* boot_page_fill(): a word of the buffer can be loaded once; which value a
\* second load leaves is not defined.
PageFill ==
    /\ pc = "fill" \/ (pc = "word" /\ wr.address % PageWords # 0)
    /\ LET i == wr.address % PageWords
       IN  \E v \in {Head(wr.words), buf[i]} \ {Unfilled} : buf' = [buf EXCEPT ![i] = v]
    /\ wr' = [address |-> wr.address + 1, words |-> Tail(wr.words)]
    /\ pc' = IF (wr.address + 1) % PageWords = 0 THEN "write" ELSE NextWord(wr'.words)
    /\ UNCHANGED <<flash, rww, rx, userRW, reply, currentAddress, offset,
                   exitMainloop, host>>

\* boot_page_write(prevAddr), begun.
PageWrite ==
    /\ pc = "write"
    /\ rww' = (rww /\ ~ Writable(wr.address - 1))
    /\ pc' = "writing"
    /\ UNCHANGED <<flash, buf, rx, userRW, reply, currentAddress, offset, wr,
                   exitMainloop, host>>

PageWritten_NextPage ==    \* mutant: boot_page_write(address.l), not prevAddr
    /\ pc = "writing"
    /\ flash' = PageProgrammed(wr.address)
    /\ buf' = EmptyBuf
    /\ pc' = NextWord(wr.words)
    /\ UNCHANGED <<rww, rx, userRW, reply, currentAddress, offset, wr,
                   exitMainloop, host>>

\* boot_spm_busy_wait(): the page is written and the buffer empty again.  A write
\* that the lock bits refuse may leave the buffer as it is.
PageWritten ==
    /\ pc = "writing"
    /\ flash' = PageProgrammed(wr.address - 1)
    /\ \/ buf' = EmptyBuf
       \/ ~ Writable(wr.address - 1) /\ UNCHANGED buf
    /\ pc' = NextWord(wr.words)
    /\ UNCHANGED <<rww, rx, userRW, reply, currentAddress, offset, wr,
                   exitMainloop, host>>

IsLast_Late == offset > BlockWords    \* mutant: one past the end of the block

\* isLast, the high bit of offset: the block is complete.
IsLast == offset >= BlockWords

WriteEnd ==
    /\ pc = "end"
    /\ currentAddress' = wr.address
    /\ reply' = IF IsLast THEN "empty" ELSE reply
    /\ wr' = NotWriting /\ rx' = None /\ pc' = "poll"
    /\ UNCHANGED <<flash, buf, rww, userRW, offset, exitMainloop, host>>

LeaveBootloader_NoRww ==    \* mutant: boot_rww_enable() is missing
    /\ pc = "exit"
    /\ pc' = "app"
    /\ linked' = FALSE /\ rx' = None /\ reply' = "none"
    /\ UNCHANGED <<flash, buf, rww, userRW, currentAddress, offset, wr, exitMainloop,
                   stage, file, leave, startAddr, endAddr, sent, ok, first, clean, covered>>

\* leaveBootloader(): boot_rww_enable() also clears the page buffer.
LeaveBootloader ==
    /\ pc = "exit"
    /\ buf' = EmptyBuf /\ rww' = TRUE
    /\ pc' = "app"
    /\ linked' = FALSE /\ rx' = None /\ reply' = "none"
    /\ UNCHANGED <<flash, userRW, currentAddress, offset, wr, exitMainloop,
                   stage, file, leave, startAddr, endAddr, sent, ok, first, clean, covered>>

\* What the flash holds when power fails now: a page being erased, or the words a
\* page write is changing, are lost.
Interrupted ==
    IF pc = "erasing" THEN PageReads(wr.address, Garbled)
    ELSE IF pc = "writing"
    THEN LET new == PageProgrammed(wr.address - 1)
         IN  [w \in DOMAIN flash |-> IF new[w] = flash[w] THEN flash[w] ELSE Garbled]
    ELSE flash

PowerLoss ==
    /\ "power" \in Disturb /\ pc # "off"
    /\ flash' = Interrupted
    /\ buf' = EmptyBuf /\ rww' = TRUE
    /\ rx' = None /\ userRW' = FALSE /\ reply' = "none"
    /\ currentAddress' = 0 /\ offset' = 0 /\ wr' = NotWriting
    /\ exitMainloop' = FALSE /\ pc' = "off" /\ linked' = FALSE
    /\ UNCHANGED <<stage, file, leave, startAddr, endAddr, sent, ok,
                   first, clean, covered>>

\* main(): the switch decides between the boot loader and the application.
Reset ==
    /\ pc = "off"
    /\ pc' \in {"poll", "exit"}
    /\ UNCHANGED <<flash, buf, rww, rx, userRW, reply, currentAddress, offset, wr,
                   exitMainloop, host>>

-----------------------------------------------------------------------------
(* The uploader. *)

\* main() and usbOpenDevice(), which finds a device that is in the boot loader;
\* its descriptor requests leave nothing the next SETUP does not reset.
Start(f, l) ==
    /\ stage = "closed" /\ OnBus
    /\ file' = f /\ leave' = l
    /\ IF f = NoFile
       THEN l /\ stage' = "leave" /\ UNCHANGED <<startAddr, endAddr>>
       ELSE /\ stage' = "ask"
            /\ startAddr' = StartAddress(f) /\ endAddr' = EndAddress(f)
            /\ startAddr' < endAddr'     \* else: no data, exit
    /\ sent' = 0 /\ linked' = TRUE /\ ok' = FALSE /\ clean' = FALSE
    /\ UNCHANGED <<device, first, covered>>

\* The driver takes a packet only into an empty buffer.
Send(packet) == linked /\ OnBus /\ rx = None /\ rx' = packet

\* An IN token is answered with a packet only when no message waits.
Answered(r) == linked /\ OnBus /\ rx = None /\ reply = r

SendSetup ==
    /\ \/ stage = "ask" /\ Send(Setup("getInfo")) /\ stage' = "size"
       \/ stage = "block" /\ Send(Setup("setPage")) /\ stage' = "data"
       \/ stage = "leave" /\ Send(Setup("setLeave")) /\ stage' = "leaving"
    /\ sent' = 0
    /\ UNCHANGED <<flash, buf, rww, userRW, reply, currentAddress, offset, wr,
                   exitMainloop, pc, file, leave, startAddr, endAddr, linked, ok,
                   first, clean, covered>>

\* The uploader ends: its exit status is 0 iff good.
Close(good) == stage' = "closed" /\ ok' = good

\* The info report, and the check against the space it keeps free.  (The empty
\* packet that ends the transfer never reaches the receive buffer.)
ReadInfo ==
    /\ stage = "size" /\ Answered("info")
    /\ reply' = "none"
    /\ IF endAddr > FlashWords - Reserve
       THEN Close(FALSE) /\ UNCHANGED <<startAddr, endAddr, first, clean, covered>>
       ELSE /\ startAddr' = RoundDown(startAddr, Unit)
            /\ endAddr' = RoundDown(endAddr + Unit - 1, Unit)
            /\ stage' = "block" /\ UNCHANGED ok
            /\ first' = startAddr' /\ clean' = (buf = EmptyBuf)
            /\ covered' = covered \union (startAddr' .. (endAddr' - 1))
    /\ UNCHANGED <<flash, buf, rww, rx, userRW, currentAddress, offset, wr,
                   exitMainloop, pc, file, leave, sent, linked>>

\* The next data packet of the report; the first carries the header.
Cut ==
    LET room == IF sent = 0 THEN PacketWords - HeaderWords ELSE PacketWords
    IN  IF BlockWords - sent < room THEN BlockWords - sent ELSE room
NextPacket ==
    Data(IF sent = 0 THEN startAddr ELSE NoHeader,
         SubSeq(Block(file, startAddr), sent + 1, sent + Cut))

SendData ==
    /\ stage = "data"
    /\ Send(NextPacket)
    /\ sent' = sent + Cut
    /\ stage' = IF sent' = BlockWords THEN "status" ELSE "data"
    /\ UNCHANGED <<flash, buf, rww, userRW, reply, currentAddress, offset, wr,
                   exitMainloop, pc, file, leave, startAddr, endAddr, linked, ok,
                   first, clean, covered>>

ReadStatus_LastBlockMissing ==    \* mutant: the loop ends one block early
    /\ stage = "status" /\ Answered("empty")
    /\ reply' = "none"
    /\ startAddr' = startAddr + BlockWords
    /\ \/ startAddr' + BlockWords < endAddr /\ stage' = "block" /\ UNCHANGED ok
       \/ startAddr' + BlockWords >= endAddr /\ Close(TRUE)
    /\ UNCHANGED <<flash, buf, rww, rx, userRW, currentAddress, offset, wr,
                   exitMainloop, pc, file, leave, endAddr, sent, linked,
                   first, clean, covered>>

\* The empty packet that ends the transfer of a block.
ReadStatus ==
    /\ stage = "status" /\ Answered("empty")
    /\ reply' = "none"
    /\ startAddr' = startAddr + BlockWords
    /\ \/ startAddr' < endAddr /\ stage' = "block" /\ UNCHANGED ok
       \/ startAddr' >= endAddr /\ leave /\ stage' = "leave" /\ UNCHANGED ok
       \/ startAddr' >= endAddr /\ ~ leave /\ Close(TRUE)
    /\ UNCHANGED <<flash, buf, rww, rx, userRW, currentAddress, offset, wr,
                   exitMainloop, pc, file, leave, endAddr, sent, linked,
                   first, clean, covered>>

\* Errors of the leave report are ignored: the device may be gone already.
Left ==
    /\ \/ stage = "leaving" /\ Answered("empty") /\ reply' = "none"
       \/ stage \in {"leave", "leaving"} /\ ~ linked /\ UNCHANGED reply
    /\ Close(TRUE)
    /\ UNCHANGED <<flash, buf, rww, rx, userRW, currentAddress, offset, wr,
                   exitMainloop, pc, file, leave, startAddr, endAddr, sent, linked,
                   first, clean, covered>>

\* Any other transfer with a device that is gone is an error.
Failed ==
    /\ stage \in {"ask", "size", "block", "data", "status"} /\ ~ linked
    /\ Close(FALSE)
    /\ UNCHANGED <<device, file, leave, startAddr, endAddr, sent, linked, first, clean,
                   covered>>

\* The uploader is interrupted.
Abort ==
    /\ "abort" \in Disturb /\ stage # "closed"
    /\ Close(FALSE)
    /\ UNCHANGED <<device, file, leave, startAddr, endAddr, sent, linked, first, clean,
                   covered>>

-----------------------------------------------------------------------------
Write == WriteBegin \/ PageErase \/ PageErased \/ PageFill \/ PageWrite \/ PageWritten \/ WriteEnd
Firmware == ProcessSetup \/ Write \/ LeaveBootloader
Transfer == SendSetup \/ ReadInfo \/ SendData \/ ReadStatus \/ Left \/ Failed
Disturbance == Abort \/ PowerLoss \/ Reset

Next ==
    /\ \/ Firmware \/ Transfer \/ Disturbance
       \/ \E f \in File \union {NoFile}, l \in BOOLEAN : Start(f, l)
    /\ bench' = bench

\* The main loop runs, and libusb retries a packet until it is taken.
Spec == Init /\ [][Next]_<<vars, bench>> /\ WF_vars(Firmware) /\ WF_vars(Transfer)

-----------------------------------------------------------------------------
Words == 0 .. (FlashWords - 1)

TypeOK ==
    /\ flash \in [Words -> Value]
    /\ buf \in [0 .. (PageWords - 1) -> Value \union {Unfilled}]
    /\ rww \in BOOLEAN /\ userRW \in BOOLEAN
    /\ rx.kind \in {"none", "setPage", "setLeave", "getInfo", "data"}
    /\ reply \in {"none", "info", "empty"}
    /\ currentAddress \in 0 .. FlashWords /\ offset \in 0 .. (2 * BlockWords - 1)
    /\ rx.header \in {NoHeader} \union (0 .. FlashWords) /\ rx.words \in Seq(Value)
    /\ wr.address \in 0 .. FlashWords /\ wr.words \in Seq(Value)
    /\ exitMainloop \in BOOLEAN /\ pc \in InLoader \union {"app", "off"}
    /\ stage \in {"closed", "ask", "size", "block", "data", "status", "leave", "leaving"}
    /\ file \in File \union {NoFile} /\ leave \in BOOLEAN
    /\ startAddr \in 0 .. BufferWords /\ endAddr \in 0 .. BufferWords
    /\ sent \in 0 .. BlockWords /\ linked \in BOOLEAN /\ ok \in BOOLEAN
    /\ first \in 0 .. FlashWords /\ clean \in BOOLEAN /\ covered \subseteq Words

\* The value the file gives word a: that of the last record that covers it.
FileWord(f, a) ==
    LET rec == {i \in DOMAIN f : f[i].type = 0 /\ a \in Span(f[i])}
        last == CHOOSE i \in rec : \A j \in rec : j <= i
    IN  IF rec = {} THEN Erased ELSE f[last].data[a - f[last].base + 1]

\* The uploader has sent blocks, or has ended well.
Uploaded == file # NoFile /\ (stage \in {"block", "data", "status", "leave", "leaving"} \/ ok)

\* Every complete page of the blocks the host has got a status for holds the
\* file's words, whatever records they come from and however pages and blocks
\* divide: the acknowledgement of a block is a promise that survives a power
\* loss.  It needs a page buffer that was empty when the upload started.
AcknowledgedIsLoaded ==
    Uploaded /\ clean =>
        \A a \in first .. (RoundDown(startAddr, PageWords) - 1) :
            Writable(a) => flash[a] = FileWord(file, a)

\* When an uploader ends with success, every word of the file has been
\* acknowledged in a complete page: with the above, the file is in the flash.
SuccessIsComplete ==
    (ok \/ stage \in {"leave", "leaving"}) /\ file # NoFile =>
        \A r \in Records(file) : Span(r) \subseteq first .. (RoundDown(startAddr, PageWords) - 1)

\* Whatever is aborted and whenever power fails: words outside the pages of the
\* files uploaded so far are never touched.
RestIntact == \A a \in Words \ covered : flash[a] = Flash0[a]

\* usbFunctionWrite()'s position and the uploader's agree whenever the firmware
\* has taken what was sent, and it looks for a header exactly in the packets that
\* have one, those of an uploader that was interrupted included.
ReportInStep ==
    /\ (stage \in {"data", "status"} /\ linked /\ rx = None) =>
          /\ userRW /\ offset = sent
          /\ sent > 0 => currentAddress = startAddr + sent
    /\ (pc = "poll" /\ rx.kind = "data" /\ userRW) => (offset = 0 <=> rx.header # NoHeader)

\* A page is written only when it is erased: no word is programmed twice.
NeverOverprogrammed ==
    pc = "write" => \A w \in OwnPage(wr.address - 1) : flash[w] = Erased

\* The application starts with its flash readable.
AppReadable == pc = "app" => rww

\* Every upload that the uploader accepts ends, and with success unless the device
\* was lost or the uploader can be interrupted: no transfer is left without its status.  (usb_control_msg() would
\* give up after 5 s; the model has no such way out while the device is there.)
UploadEnds ==
    (stage = "ask" /\ endAddr <= FlashWords - Reserve)
        ~> (stage = "closed" /\ (ok \/ ~ linked \/ "abort" \in Disturb))

\* Readme.txt: the boot loader "waits for data on the USB interface and loads it
\* into the remaining part of the flash memory".  After an upload that reported
\* success, every word of the file is in the flash.
ReportedIsLoaded ==
    ok /\ file # NoFile =>
        \A r \in Records(file) : \A a \in Span(r) : flash[a] = FileWord(file, a)
=============================================================================
