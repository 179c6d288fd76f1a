# Formal models of the DDK software

The repository holds the software of the Device Development Kit, an AVR board (ATmega16/32):
the *LDDK firmware*, which makes the board a USB device with a software-only USB driver, the
*boot loader* with its uploader, and a collection of *examples* (libraries and demos). This
directory holds TLA+ models of its core, the TLC configurations that check them, and theorems
about them checked by TLAPS. `PROJECT.json` lists every component, run, mutant, finding,
hazard and theorem, and maps each definition to the source lines it stands for.

## The system

| Component | State it keeps | Operations | Interacts with |
|---|---|---|---|
| USB driver, interrupt routine (`LDDKFirmware/Code/asmcommon.inc`, `usbdrvasm16.inc`) | `usbRxBuf` (two buffers), `usbRxLen`, `usbRxToken`, `usbCurrentTok`, `usbTxLen`, `usbTxLen1/3`, `usbDeviceAddr` | one run per packet on the bus: tokens, data, handshakes; answers by itself | main loop, through shared variables without locks; the host |
| USB driver, C part (`usbdrv.c`) | `usbMsgLen`, `usbMsgPtr`, `usbTxBuf`, `usbTxStatus1/3`, `usbNewDeviceAddr` | `usbPoll` (process a message, build a packet, see a bus reset), `usbSetInterrupt(3)`, `usbInit` | interrupt routine; firmware callbacks `usbFunctionSetup`, `usbFunctionWriteOut` |
| Memory device (`LDDKFirmware/Code/main.c`, `BootloadHID/firmware/fwb.c`) | `mem_type`, `mem_rd_off`, `mem_wr_off`, `fwp_buf_off`, `flash_write_page_buffer`; EEPROM and flash | SET/GET of type and offsets, preload and refill of endpoint 1, writes through OUT endpoint 1, page erase and program | driver callbacks and calls |
| Serial bridge (`main.c`, `Examples/serial.c`) | `ser_buf`, `ser_data_cnt`, the USART's FIFO | USART to IN endpoint 2, OUT endpoint 2 to USART | driver; REG_DIRD switches the USART |
| LED, echo and register requests (`main.c`) | port registers | masked set and get | control pipe |
| Boot loader (`BootloadHID/firmware/main.c`) | `currentAddress`, `offset`, `exitMainloop`, the hardware's page buffer | SET_REPORT in 8-byte pieces, page erase, fill and write, leave | its own copy of the driver; uploader |
| Uploader (`BootloadHID/commandline/main.c`) | `dataBuffer`, `startAddress`, `endAddress` | parse Intel hex, round to pages, upload, reset | boot loader through HID reports |
| Programmers (`Examples/serial_`, `parallel_`, `jtag_programmer.c`) | their pins | enter, read, write, erase, leave programming mode | a target chip, pin by pin |
| Programmer demos (`Examples/*_pgmer_demo.c`) | nothing but their place | erase, program, verify, report | a programmer; a switch that bounces |
| TWI, RTC, clock (`Examples/twi.c`, `rtc.c`, `clock.c`) | `cur_mode`, the time being edited | start, address, read, write, stop; show and set the time | a DS1307 on a two-wire bus; two buttons; LCD |
| Infrared remote (`Examples/ir_remote.c`) | one slot: `not_processed`, `cycles_to_load`, `carrier_state_to_load` | main loop posts bursts, timer interrupt plays them | each other |
| Packet radio (`Examples/ask_rf_ind_rx_tx.c`) | bit counters, calibration, packet framing | timer interrupt: a bit each; serial output from inside it | another board, a noisy radio link |
| Radio console (`Examples/ask_rf_demo2.c`) | `data_out`, `data_len`, `ready`, sync state | receive interrupt takes a line, timer interrupt sends and receives bits | another board; its console |
| Pager (`Examples/ask_rf_serial.c`, `clcd.c`) | letter to send, LCD position | main loop sends and displays, receive interrupt receives and displays | another board; a display shared by both |
| LCD library, menu (`Examples/clcd.c`, `menu.c`) | `clcd_pos`; mode and values | nibbles on the pins; screens | HD44780 |
| Flash command line (`Examples/flash_demo.c`) | a line | read and write a block of flash | the boot loader's `flash_write_block()` |
| LED cube (`Examples/led_cube.c`), wave generator (`waveforms.c`) | `cube_zy`, `z_cur`; counters | timer interrupt draws a layer, puts out samples | main program; shift registers, pins |
| Stepper motor, test utilities, build | none | fixed sequences, one request each | none |

### What is hard

* **Interleaving without locks.** The interrupt routines may run between any two instructions of
  the main loop. In the driver who owns a buffer is encoded in a length variable; remote, cube,
  console and pager share variables, or a whole display, between interrupt and main program.
* **Ordering.** A SETUP replaces an unfinished transfer; SET_ADDRESS takes effect with the next
  data packet sent; SET_INTERFACE resets toggles; the firmware preloads messages before the
  host asks for them; every function of a programmer starts from the pins and the TAP state
  that the last one left.
* **Interrupts off, or not served.** `flash_write_block()` is deaf for two page operations; the
  radio programs print from inside the timer interrupt and miss bits meanwhile.
* **Numeric edges.** `fwp_buf_off` relies on 16-bit wrap-around; offsets stop at the end of the
  memory; messages straddle pages; BCD and calendar wraps; two signed walks through a table.
* **Failure.** Power loss anywhere, between erase and program of a page too; a programmer cut
  off in the middle of a scan; a TWI byte without acknowledge; flipped bits and lost bytes on the
  radio; a reset between the two nibbles of a display byte; cells that no longer hold a value.

### What makes each part correct

* Driver: no packet is sent from a half-written buffer, no message is overwritten while it is
  processed, each reply is sent completely and in order, PIDs alternate as the host expects,
  every message is processed, host and device agree on the address, every transfer ends.
* Memory device: the host sees one memory per type, written in order from the offset it sought;
  only partial pages are lost; firmware and boot section are never written; reads are in order.
* Serial bridge: bytes in order, none lost while there is room and time, none added; no pin has
  two uses; the firmware waits for ever only where the host switched the serial line off.
* Boot loader with uploader: a block that was acknowledged stays in the flash, after a success
  the flash holds the file, no page is written that was not erased, nothing outside the file's
  pages changes, every upload ends, the application starts with its flash readable.
* Programmers: the pin sequences add up to the operations the API promises and to no others (the
  fuses of the parallel driver apart, whose `set_bs2()` and `reset_bs2()` drive BS1); no command
  reaches a busy target; every session ends; the demo's report is true of the target.
* Clock: what is shown is one instant, what is reported as set is set. Remote: every burst in
  order and whole. Radios: what is shown was sent, the receiver finds the next packet, what is
  on the air is the line that was handed over. Display, cube, waves, menu: what is seen is what
  the program's state says.

## Modules

| Module | Models | State and actions |
|---|---|---|
| `UsbDriver` | interrupt routine and main loop of the driver, on an open bus: any packet at any time, in any order | one action per packet kind (`HandleSetupOrOut`, `IgnorePacket`, `HandleData...`, `HandleIn...`); the main loop moves a program counter from one access of shared state to the next (`PollRx`, `ProcessSetup`, `SetupAbort`, `SetupDispatch`, `SetupReply`, `FreeRx`, `PollTx`, `BuildToggle`, `BuildCopy`, `BuildArm`, `Line...`, `SetInt...`). Variables have the code's names. `acked`, `reply` and `hostPid` are history |
| `UsbBus` | `UsbDriver` with one conforming host | control transfers (`Start` to `StatusIn` or `StatusOutData`), OUT messages, polls, aborts, bus resets; `FlashBegin` and `FlashEnd` are the `cli()` and `sei()` of `flash_write_block()` |
| `MemDevice` | memory device: requests, main loop refill, OUT messages byte by byte, page erase and program, power loss | one action per request and per byte stored; `HostRead` is the interrupt routine answering endpoint 1 |
| `LogicalMemory` | abstract specification: a memory per type, written in order, durable by unit | `Select`, `Seek`, `Put`, `Programmed`, `PowerLoss`; implemented by `MemDevice` (`ImplementsLogicalMemory`) |
| `BootloadHid` | boot loader and uploader: hex records, rounding, reports cut into packets, `usbFunctionWrite()` word by word, the AVR's page buffer, leaving; interrupted uploads, power loss | firmware: `ProcessSetup`, `WriteBegin`, `PageErase` to `PageWritten`, `WriteEnd`, `LeaveBootloader`, `Reset`; uploader: `Start`, `SendSetup`, `ReadInfo`, `SendData`, `ReadStatus`, `Left`, `Failed`, `Abort`. `first`, `clean`, `covered` are history |
| `SerialBridge` | the firmware's main loop around the driver: endpoint 2, USART, button, LED and register requests, in byte times of the line | `NothingToPoll`, `WriteSerial`, `WriteMemory`, `Request`, `ByteTx`, `EepromWritten`, `Button`, `SerialRx`, `SetInterrupt3`; `HostWrites`, `HostPolls`, `ByteTime` are the world. `arrived`, `got`, `due`, `led` are history |
| `ByteChannel` | abstract specification: what the bridge promises of the bytes on its line | `Accept`, `Overrun`, `Miss`, `Deliver`, `Turn`; implemented by `SerialBridge` (`ImplementsByteChannel`) |
| `TargetChip` | the AVR being programmed (external): memories, programming engine, and `Promised`, what each function of the API should do to it | operators used by the next four |
| `JtagPgmer`, `ParallelPgmer`, `SerialPgmer` | every function of a programmer, as the list of pin writes it performs | one step per pin operation, `Ready` when the target finishes; restarts of the programmer, stray clock edges |
| `Programmers` | the three behind their common API | one driver is linked, the state of the others is `"off"` |
| `PgmerSessions` | the API calls that the serial, parallel and JTAG demos make before their loop and after a press of the switch | sequences of calls, which `Programmers` runs pin by pin |
| `PgmerDemo` | the demos' program on a worn target | switch (with bounces), erase, check, program, verify, report, restart |
| `RtcBus`, `Clock` | `twi.c` and `rtc.c` status by status against a DS1307; `clock.c` | `Transfer` steps, lost acknowledges, the passing second, both buttons |
| `IrRemote` | main loop and timer interrupt of the remote, store by store | `Post`, `Flag`, `Wake`; `Interrupt`, `MidCycle`, `Continue`, `Load`, `SwitchOff` |
| `AskRf` | transmitter and receiver of `ask_rf_ind_rx_tx.c` | one step per millisecond, with the time the receiver's output takes |
| `AskConsole` | two boards with `ask_rf_demo2.c` that hear each other | timer and receive interrupt of each |
| `Clcd`, `RfSerial` | the LCD library pin by pin against an HD44780; the pager whose interrupt and main loop both use it | nibbles; bytes received, lost; resets |
| `FlashCli`, `CubeFigures`, `LedCube`, `Waveforms`, `Menu` | the other applications | one action per interrupt, input, or call |
| `Board` | the board with one of the ten applications burnt in, chosen at power-up | the application's actions; the state of the others is `"off"` |
| `MCUsbDriver`, `MCUsbBus`, `MCMemDevice`, `MCBootloadHid`, `MCSerialBridge`, `MCProgrammers`, `MCBoard` | constants of the runs | |
| `Usb_proofs` | theorems about `UsbDriver`, and about `UsbBus` over those | |
| `MemDevice_proofs` | theorems about `MemDevice`, its refinement of `LogicalMemory` among them | |
| `SerialBridge_proofs` | theorems about `SerialBridge`, its refinement of `ByteChannel` among them | |
| `BootloadHid_proofs` | theorems about `BootloadHid` | |
| `Board_proofs` | theorems about the demo, the remote, the console and the flash command line, as applications of `Board` | |
| `Programmers_proofs` | theorems about the three programmers, as drivers of `Programmers` | |
| `Pager_proofs`, `Display_proofs` | the theorems about the pager; about the clock, the cube, the waves and the menu | |

How the state corresponds to the code:

* A packet or message is a value of a small set. `usbTxBuf` is what identifies its contents:
  PID, request, position in the reply, and whether it is whole (written and CRC appended).
  `Noise` stands for bytes a packet that is not stored leaves in the buffer being received into.
* The interrupt routine is atomic: the AVR keeps interrupts off in it, and it returns before the
  next packet can begin or processes that packet in turn.
* The main loop is as fine as the accesses it makes to what the interrupt routine reads or
  writes. `usbSetInterrupt()` takes four steps, called from `usbFunctionSetup()` (a seek or a
  select), and from the main loop.
* `usbDriverDescriptor()` and the requests are `ReplyLen`, `WLength` and `Effect`: what they
  return and what they change. `ReplyLen` is at most 254, since `USB_CFG_IMPLEMENT_FN_READ` and
  `_WRITE` are 0 and no request returns `USB_NO_MSG`. For the same reason the code that answers
  with STALL (`usbBuildTxBlock()` with a length over 8) is dead and left out.
* `MemDevice` takes one message per pass of its loop, as `usbPoll()` does. Its `HostRead` is
  refused while a message is stored: that the driver refuses an IN then is `CanSend` of
  `UsbDriver`. GET requests change nothing; `ReportedOffsetLags` states what
  GET_MEM_RD_OFFSET returns.

* `BootloadHid` counts addresses and lengths in flash words. The bus is one receive buffer and
  the reply waiting for the host: that a packet is taken only into an empty buffer, that IN is
  refused while a message waits, and that empty packets are not stored, is `UsbDriver`'s and
  `asmcommon.inc`'s. A packet is not processed in one step: an interruption or a power loss may
  fall between any two words, and inside an erase or a write, which then garbles the page.
* The AVR's self-programming is external: the page buffer takes each word once (a second load
  leaves either value), is emptied by a page write, by `boot_rww_enable()` and by a reset; bits
  are only cleared by a write; the lock bits (`LOCK = 0x0F`) refuse erase and write in the boot
  section, and whether a refused write empties the page buffer is left open.
* `SerialBridge` numbers the bytes that come in on the line, since the code only moves them; the
  bytes that go out are their codes, since `usart_tx()` stops at a zero.
* The programmers' functions are sequences of pin operations, taken from their loops and calls.
  The target's side, `TargetChip` and the interfaces in the three modules, is external: a TAP
  controller and the programming engine behind it, a serial interface that counts bits, pins
  sampled at the edges. What a function promises is stated once, in `Promised`, for all three.
* The DS1307, the HD44780 and the USART are external models: registers and the copy a transfer
  reads; interface width, nibble and line; two bytes of buffer, a shift register.
* An application has the processor to itself, so `Board` chooses one and keeps the state of the
  others constant; its `Next` is the disjunction of theirs.

## Runs

| Run | Question | Instance and why it is enough |
|---|---|---|
| `usb_driver` | Is every shared buffer safe on an open bus, and is every message processed? | a reply of 10 bytes, in two packets, one of 8, whose second packet is the empty one, and a request that loads the interrupt endpoint; one OUT message, the empty packet. The main loop loads both interrupt endpoints, the host polls endpoint 1 only (with both the states multiply; each has its own buffer, and the theorem `TogglesInStep` is for any set of endpoints). Two packets show order, toggling and both kinds of last packet; the safety conditions relate at most two messages; packets can arrive without end |
| `usb_driver_toggle` | Does SET_INTERFACE keep the toggles in step? No | adds SET_INTERFACE, without the replies; the host polls endpoints 1 and 2 |
| `usb_bus` | Is the device right end to end, and does every control transfer end? | a control read of 8 bytes where 64 are asked for, so a full packet and the empty one that ends the transfer (`usb_driver` has the short one), a request that loads endpoint 1, SET_ADDRESS, two OUT messages in turn: two so that loss and repetition both show. Three buses: undisturbed with interrupt polls, on which transfers must end; aborted transfers; bus resets, OUT messages and flash programming together. OUT messages are not on the first: a host that sends them without end may keep the receive buffer busy. Aborts are on a bus of their own because the states multiply |
| `mem_device` | Are page buffer, offsets and reads right, does it implement `LogicalMemory`? | pages of 4, packets of 3 and 1: every alignment of a message and a page end; a window of 2 pages between firmware and boot section; an EEPROM smaller than a packet; one offset inside and one beyond the memory. `SmallFill` bounds the fill level while the EEPROM is selected, where it is not used |
| `mem_device_boot` | Does the first read start at offset 0? No | the same |
| `bootload_hid` | Do flash, firmware and uploader agree, over any sequence of uploads with interruptions and power losses, and does each end? | blocks of 4 words, packets of 2: a report takes three packets, the first with a header, the last one short, as in the code (132 bytes in 17 packets). Pages of one block, of two and of half a block. Files: over a page end, with records out of order, overlapping and of a type that is ignored, too long, without data, into the boot section |
| `bootload_hid_abort` | Is a file reported as loaded in the flash, whatever was interrupted before? No | interruptions only |
| `bootload_hid_reserve` | Is every accepted file loaded? No | one file over the start of the boot section, nothing disturbed |
| `programmers` | Does each function do what the API promises, and no more? | a flash of two pages of two words, an EEPROM of two pages: the session of the demo, the EEPROM writes, fuse and lock writes, reads, for each driver. TAP in any of its 16 states at the start, one restart in the middle of a scan; stray edges while the serial target is enabled; the target busy as long as it likes. Of the parallel driver `CallsTakeEffect` leaves out the fuses and `AnswersAreTrue` leaves out `read_fuse()`: `set_bs2()` drives BS1 (a finding) |
| `serial_bridge` | Does the bridge implement `ByteChannel`, do texts reach the line whole, is every message taken? | buffers of one byte, so that packet, buffer and receiver can all be full with three bytes; EEPROM writes longer than a byte time; a text and one with a zero in the middle; requests that switch the line off and on and that name protected pins |
| `board` | Do the applications do what they show? | see `MCBoard`: for each application the smallest input that meets every branch: a programmed page, a padded one and one beyond with a dead cell of each kind; the last second of 2099 on a clock, running or halted; a code and its repetition; a packet with one flipped bit; two letters with one byte lost and one reset; a line longer than `data_out` and one typed while it is sent; all lines of up to three characters of a digit, a letter, a blank and `w`; one round of each figure; the full period of the waves; all menu values. `OutputInShape` and `RadiosRecover` each speak of several applications and have one mutant: that of `OutputInShape` breaks the cube, that of `RadiosRecover` the radio. The waves and the menu are sequential, and their parts say less |
| `board_radio` | Is an undisturbed packet displayed? No | the radio, no flipped bit |

`CHECK_DEADLOCK` is left on, except in the two `bootload_hid_` runs that expect a violation:
without power losses the boot loader ends in the application, the uploader having no more files.

Two properties leave out what the code does not keep. `PageIsTrue` says of the pager's display
that it comes back into step after a reset and stays so until the receive interrupt cuts a call
of the main loop (`torn`): that interleaving goes wrong, and no property covers it. `PageAsTyped`
says what a command writes, once the block is written; of a block left between erase and write
by a power failure it says nothing, as the code has nothing for it.

`RfSerial.DisplayShared`, `AskConsole.CalibratedInStep` and `ParallelPgmer.FusesTakeEffect` state
three sentences of the source that TLC refutes; no run checks them, the findings say what happens. `MemDevice.ReportedOffsetLags`
and the type invariants of `UsbDriver` and `MemDevice` are proved and no longer run.

### Fairness

* `UsbDriver!FairSpec`: weak fairness of the main loop. It never waits for the bus and the
  interrupt routine always returns, so a step that is possible is taken.
* `FairBusSpec`: weak fairness of the device's step, of the host's ACK and of the data packet
  behind an OUT token (the host controller finishes a transaction it began), and strong fairness
  of `Transfer`: a low-speed host serves the control pipe in every frame, whatever interrupt
  traffic there is, so retries keep coming also when single ones are refused.
* `BootloadHid!Spec`: weak fairness of the firmware, whose main loop waits for nothing, and of
  the uploader's transfers, which libusb retries until they are taken. `usb_control_msg()` gives
  up after 5 s; the model takes that way out only when the device is gone, so that a transfer
  the firmware never answers shows as a violation of `UploadEnds`.
* `SerialBridge!FairSpec`: the main loop runs, time passes, the host polls endpoint 2. The
  conclusion of `MessageTaken` is the message taken or `Hung`, the one wait in the code that may
  not end.
* `Programmers!FairSpec`: the program runs and the target finishes an erase or a write.
* `Board!FairSpec`: the interrupts of the radio and of the console go on. The other applications
  have safety properties only.

### Assumptions about the environment and about time

USB:
1. Interrupts do not come back between a token and its data packet (`FlashEnd`): these are two
   bit times apart, less than the main loop needs from `sei()` to the end of `usbPoll()`.
2. A bus reset lasts two passes of the main loop ("called multiple times during reset").
   `flash_write_block()` and a few EEPROM writes fit into the 10 ms of a reset; eight EEPROM
   writes (68 ms) do not: a hazard listed without a property.
3. The host gives up on SET_ADDRESS only by resetting the bus, and gives an address only to a
   device at address 0. Endpoints other than 0 are used after that.
4. No packet is damaged on the wire, which the driver assumes too (`asmcommon.inc:154-161`).

Serial bridge: a pass of the main loop that does not wait takes less than half a byte time
(1.04 ms at 9600 baud), so the loop looks at the receiver twice in one; the host polls
endpoint 2 at most once in `POLL_TICKS` byte times (10 ms in the descriptor). A disabled USART
forgets what it received, finishes the character it is sending and keeps the one in UDR.

Programmers: MISO is read before the target moves on; the delays in the code are long enough;
the switch has settled before the erase is over. An application calls in the order the API asks
for (`SessionsAssumption`): setup first and reset last, addresses inside the memories, the buffer
loaded behind `initiate_` and a page written behind its loads; pages are powers of two, up to 256.

Clock: the DS1307 copies the time at a START, restarts the second when its seconds are written,
and loses acknowledges only in the bytes it receives.

Remote: the main loop needs less than a cycle of the carrier to come back and post a burst, and
the compiler keeps the order of the three stores (only the flag is volatile).

Radios: a bit is sampled in the millisecond it is sent, the boards' clocks are equal, a character
of output takes a millisecond at 9600 baud, and of the timer interrupts missed one stays pending.
What the transmitter prints is left out. Console: an ATmega32, where the timer goes before the
receiver; the other order starves the timer (a finding). Pager: 24 ms of display against 30 ms
between packets, so the USART does not overflow; the display is awake before the AVR.

Cube: an interrupt every 1.088 ms; delays are capped at four interrupts, one frame, and
`clear_cube()` is one step: a layer drawn while it runs is drawn again in the next frame.

### Findings

With a run that shows them:

* `mem_device_boot`: `set_mem_type(eeprom)` preloads endpoint 1 before `usbInit()` marks it
  empty. The main loop takes that for "sent" and moves on; the first read after power-up is at
  offset 8. A host that selects or seeks before it reads does not notice (`ReadsInOrder` holds from then on).
* `usb_driver_toggle`: SET_INTERFACE sets the PID of a message already buffered to DATA1; it is
  not toggled again, and the host expects DATA0.
* `bootload_hid_abort`: words loaded into the page buffer by an interrupted upload stay there, and
  the next upload writes a page that mixes both, with exit status 0. The passing runs show that
  an empty page buffer at the start (`clean`) is enough for the file to arrive.
* `bootload_hid_reserve`: the uploader keeps 2048 bytes free, the boot section of the default
  board has 4096. A file in between is reported loaded, its end is not in the flash.
* `board_radio`: the radio's receiver prints from the timer interrupt at a character a
  millisecond and misses the bits of the packet it is printing.

Met while modelling, kept in the models as they are, with the lines in `PROJECT.json`:
`set_bs2()` of the parallel programmer drives BS1, so fuse writes go to the wrong byte;
`rtc_get_str()` writes the date's separators into the time; the remote repeats without the gap
its packet format gives; the pager's interrupt and main loop mix their nibbles on the display,
and a lost byte shifts every later packet; the console sends a byte from before its array, does
not read the character it refuses (which starves the timer on an ATmega16) and prints itself out
of step; the flash command line writes the same block for ever, and writes after an "Invalid
option" too; the sine is at 500 Hz.

Smaller ones, without an entry: `clock.c` shows "Read :(" until the mode changes; the error
indicator of `twi.c:24` on PB7 is never set; in the JTAG demo the bounce of the switch's release
starts a second session; `EEP_SZ` halves the EEPROM that `erase_ok()` looks at; a reset in the
middle of a read leaves the DS1307 driving SDA; `clcd_cls()` waits 1 ms where the
HD44780 takes 1.52 ms.

## Theorems

Each holds for every value of the constants that satisfies the assumptions named in the modules
(`RequestAssumption`, `EndpointAssumption`, `GeometryAssumption`, `DataAssumption`,
`BridgeAssumption`, `BusAssumption`, `ChipAssumption`, `BoardAssumption`, `FigureAssumption`,
`MenuAssumption`, `RtcAssumption`, `SessionsAssumption`); a page, for one, has two bytes or more, a SET_ADDRESS no data stage, a burst of the remote at least one
cycle, `data_out` as many bytes as a `uint8_t` counts, the DS1307 a date and a time at power-up, and
the pager's other board sends the letters from A to Z once at most. For `OutputsInShape` a delay of
the cube takes four interrupts or more, the table of the sine starts at 0 degrees and its largest
value times `AMPLIFICATION` fits around `DC_OFF` (`waveforms.c`: "from 1 to 11"), and every line of
a menu screen fits the display's 16 characters. The two refinements apart, theorems are of the form
`Spec => []P`.

| Theorem | Argument |
|---|---|
| `Usb_proofs!TypeCorrect` | `RxInv`: type correctness is not inductive alone. That `usbMsgLen` never overflows needs to know that a reply fits, that a message's length is that of the data stored |
| `Usb_proofs!MessageIsStable` | `RxInv` again: while `usbRxLen # 0` the buffer not being received into holds `acked`, and only a stored packet swaps the buffers, which needs `usbRxLen = 0` |
| `Usb_proofs!NoPacketTorn` | `BufInv`: at each point of the main loop, which buffer is being written, and which length or waiting message keeps the interrupt routine from it |
| `Usb_proofs!TogglesInStep` | `TogInv`: the PID of a buffer is that of the last packet sent or the next, as its length says, also between the test and the fill. Needs `NoSetInterface`: no request with effect `toggles` |
| `Usb_proofs!RepliesInOrder` | `ReplyInv`: the conjuncts `Restarted`, `AtRest`, `Building`, `Queued`, `Pending` say where the packets of a reply are (not yet processed, between packets, being built, waiting), and that sent packets, position and remaining length add up to the reply |
| `Usb_proofs!BusIsDriver` | each step of the bus is a step of the driver on an open bus, or leaves its variables alone: the invariants above hold here too |
| `Usb_proofs!AddressesAgree` | `AddrInv`: the new address is on its way from the moment the SET_ADDRESS is dispatched (`Undispatched` becomes false) until its status stage, and no interrupt endpoint is polled meanwhile; a SET_ADDRESS caught by a bus reset is dispatched before the main loop sees the reset a second time. That the packet of the status stage is not an older one comes from `ReplyInv` |
| `Usb_proofs!OutDeliveredOnce` | `OutInv`: a message is on its way from its ACK to `ProcessOut`, and then the host's next one is the other; `TokenInv`: the token the driver remembers is that of the data packet to come |
| `Usb_proofs!StatusIsItsOwn`, `ReadsExact` | `CtlInv`: once its SETUP is acknowledged, the transfer is the one `reply` stands for, and the host has as many packets of it as the device has sent. With `ReplyInv`, what is queued is the next one |
| `MemDevice_proofs!TypeCorrect` | `FitsInv`: offsets fit the memory, and the message being stored fits behind the write offset |
| `MemDevice_proofs!BufferTracksOffset` | `BufferInv`: the arithmetic of the fill level modulo 2^16 against the write offset modulo the page size, with the lemmas on aligned addresses |
| `MemDevice_proofs!PagesAreAccepted`, `FirmwareIsIntact` | from `BufferInv`: the page passed to `flash_write_block()` is aligned and inside the window, so accepted, and nothing outside the window changes |
| `MemDevice_proofs!ReadsAreInOrder` | `ReadInv`: the preloaded message is at the offset the host is due, or was sent and the main loop has still to move on |
| `MemDevice_proofs!WritesAreLogical` | the refinement mapping lays the page buffer up to its fill level over the flash, and the whole page while it is programmed. `BufferInv` puts the byte of each `Put` at its offset and says when it completes a page; `ErasedInv` (an erased page stays empty until it is programmed) gives what a power loss then costs |
| `SerialBridge_proofs!PinsAreOwned` | `PinInv`: types of the registers, and that `Merge` with each port's mask keeps the protected bits |
| `SerialBridge_proofs!OutIsInOrder` | `OrderInv`: what is in the shift register, in UDR and still to send, one after the other, is what is due. Rests on `CutTerminated`: the text up to its first zero is the same with the zero behind it, whatever the CRC is; the first zero exists by a least-element argument |
| `SerialBridge_proofs!BridgeImplementsChannel` | the refinement mapping takes packet, buffer and receiver, one after the other, for the bytes in transit. `ChannelInv` with its part `Lag`: when the receiver is full after two looks of the main loop, the buffer or the packet is full too, since the host can have taken only one packet meanwhile. `StepImplements`: each step is one of the channel's or moves no byte |
| `BootloadHid_proofs!TypeCorrect`, `ReportsInStep`, `NothingOverprogrammed`, `RestIsIntact`, `AppIsReadable` | `IInv`. `ReportInv`: offset, packet in the buffer and address of the next word add up to what the uploader has sent. `PacketInv` and `WriteInv`: the words to come lie in covered pages, and the page of the next word is erased unless it starts there. `LoopInv`: the loop stays on block boundaries inside the rounded range, because blocks divide pages or pages blocks. The lemmas on multiples come first, since the provers know nothing of `%` with a variable divisor |
| `BootloadHid_proofs!SuccessMeansComplete` | `DoneInv`: the range takes in every record, and the loop ends at a page boundary behind it |
| `BootloadHid_proofs!AcknowledgedIsInFlash` | `LoadInv`: the words of the packet, of `usbFunctionWrite()` and of the page buffer are the image's at the address they go to, and those before `Settled` are in the flash. `ImageIsFileWord`: the image has what the last record to cover a word says, for every sequence of records. `Parsed` is a recursive function; that it exists and has a value after every record is shown in `Recursion` and `ParsedIs` by a least counterexample, which needs no induction rule |
| `Board_proofs!ReportsOfDemo`, `DemoProgramsGoodCells` | `DemoInv`: until the report, the working cells before `waddr` hold the image and those behind it are blank, the page buffer holds the words of the page at `waddr` loaded so far and is blank behind them, and a message that says Okay was preceded by a complete look at the cells. A press of the switch, or its bounce, changes none of that (`Phase`) |
| `Board_proofs!BurstsAsAsked` | `RemoteInv`: the burst in the slot is the next one and the one on the air is that of `Pending`, with as many cycles as it has still to go; `InTime`: an interrupt that ends a burst finds the slot filled, since between two bursts the main loop is at most half a cycle late |
| `Board_proofs!PageHoldsNumber` | `FlashInv`: the value in hand is one the line can be read as (behind a digit that ends the line stands whatever the array holds there). That the first character that is no blank exists comes from the least-number principle |
| `Board_proofs!ConsoleSendsLine` | `ConsoleInv`: the bytes up to `ind` are sent, and of the next one the bits above `tx_ind`; while `ready` is set the receive interrupt leaves `data_out` alone. `ShiftOut`: a bit put behind the bits above it gives the bits down to it |
| `Pager_proofs!PagerShowsSent` | `PagerInv`: `Left` says which calls of `init_io()` remain, `Before` and `Between` what the display takes the next nibble for at each of them: 0x33 brings it to 8 bits from any state but behind a nibble 0, and after 0x32 and 0x28 both nibbles of a byte meet. The wires hold the nibble about to be clocked in (`Nibbles`); while the interrupt routine is active the main loop is between two calls, unless `torn`. `Checked`: of the bytes a packet may consist of after losses, none but a letter and its own checksum add up |
| `Display_proofs!ClockAgrees` | `ClockInv`. `BusPart`: at each stage of a transfer, whom the DS1307 listens to and where its register pointer is, against the bytes done. `ReadPart`, `SetPart`: the registers received are those of the last START, those written are the edited time's, as far as the transfer has come; no second passes while the DS1307 takes bytes. `RangePart` holds of every register on its own, so a write cut short leaves it (`Written`), and a second does (`NextSecondIs`). `Coded`: decoding what was encoded gives the value back, within its range |
| `Display_proofs!OutputsInShape` | `OutputInv` has a part for each application. Cube, `CubeInv`: the main program's step and the interrupt's frame; `SeenSinceCalm` and `StillAfterPause` say that a figure left alone since the last pause was drawn whole, for which every figure leaves nothing set before it pauses (`Piece`, `Leaves`, `Tidy`, composed along the program in `ProgramTidy`). Waves, `WaveInv`: the place of the walk in the sine's period follows from the ticks since power-up (`Place`), so that the sample is the table's in all four quarters. Menu, `MenuInv`: the display holds the screen of the mode and the values and nothing of the screen before; a screen drawn again over itself is the same (`DrawnTwice`) |
| `Programmers_proofs!BothEndsInStep`, `ReadyWhenTold` | a call is a sequence of pin operations: `Runs` says that a sequence leads from one abstract state to another through a relation of steps, is composed like the sequences (`RunsThen`) and taken apart by its head (`RunsFirst`). Parallel, `PInv`: the abstract state is who drives the port, the output enable and whether the target may be busy; what is still to do leads from it to a released port and a target at rest. Serial, `SInv`: the abstract state is the number of bits of the instruction that the target has, its first byte, what the poll has read of it, and whether the target may be busy; a poll that reads 0 leaves it at rest. During setup, `TAdmits`: a target that heard a stray edge is on time, deaf or one bit early (`OnTime`, `Deaf`, `TooEarly`), and in the last two cases the echo of the second byte begins with a one (`Betrayed`), so it is not `0x53` and setup tries again. JTAG, `JInv`: the abstract state is the TAP's, the instruction, and of the updates that matter (an instruction, a zero to PROG_ENABLE or AVR_RESET) how many bits are shifted in; after TMS ones from nowhere, `Where` is the set of states left, and the fifth leaves one. `Leads` composes scans from the states they may start in; a poll that has to be repeated runs from Run-Test/Idle to Run-Test/Idle (`JPoll`), so the run of the call is the same again |

The inductive invariants of `UsbDriver`, `UsbBus`, `SerialBridge`, `BootloadHid` and `Board` were
checked by TLC as invariants before they were proved.

Two conventions keep the proofs from depending on the speed of the machine. A step that takes
the prover long names it with a time limit, `SMTT(60)` or `ZenonT(60)`. And the size of a word
stays folded in every step that mentions an interval (`MemDevice_proofs` has `WordSize`,
`TargetChip` ends `Word` at `BlankWord`): the prover writes `0..65535` out, element by element.

### Model-checked only

* Liveness (`MessageProcessed`, `TransferCompletes`, `UploadEnds`, `MessageTaken`,
  `SessionEnds`, `RadiosRecover`): temporal fairness and ENABLED are beyond the prover.
* Programmers (`CallsTakeEffect` and `AnswersAreTrue`, both without the parallel driver's fuses,
  and for JTAG `NeverWhileBusy`): they need what
  each of the hundreds of bits of a call adds up to, for every content of the memories; the
  instances are the source's own sequences, with smaller memories.
* `PacketReceived` of the radio, which follows one packet bit by bit.

## Not modelled

* Bit timing, NRZI, bit stuffing and CRC of the USB driver (packets are the unit); damaged
  packets; descriptors, which are bytes that are only copied; enumeration of the bus and string
  descriptors in the uploader's `usb-libusb.c` and `opendevice.c`.
* The watchdog, the oscillator, EEPROM wear, baud rates, debugging output (`odDebug`).
* `GET_MEM_TYPE`, `GET_MEM_RD_OFFSET` and `GET_MEM_WR_OFFSET` change nothing and have no action.
* `rtc_get_str()`, `rtc_get_sq_wave()`, `rtc_reset_sq_wave()`, `twi_master_rx()`, `clcd_home()`
  and `clcd_scroll_right()`, which no modelled program calls; the cube without interrupts;
  the settings of the radio programs' switches other than the source's; `ask_rf_demo.c`, a bit
  test that became `ask_rf_demo2.c`; `stepper_motor.c`, a fixed sequence of four patterns.
* The test utilities (each issues one request) and the Makefiles, whose constants are parameters.

`PROJECT.json` gives for each component what is modelled and what is left out.

## What is left

1. SET_CONFIGURATION and bus resets against the host's toggles in `UsbBus`; a lossy wire, to
   show what it costs the offsets of the memory device and a report of the boot loader.
2. `MemDevice` and `SerialBridge` on one main loop, with the time of EEPROM writes against that
   of a bus reset.
