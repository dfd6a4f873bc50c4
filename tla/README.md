# A TLA+ model of the graduation cap's software

The repository is the bare-metal software of a graduation cap: a Raspberry Pi
Zero that draws on LED panels and an OLED display, takes signatures on a touch
panel, with a log that stores them on its SD card (`src/oled-neopixel-sanity`), and a
Bluetooth host on the bare UART (`src/10-bluetooth`). Nothing under it is an
operating system. The cap runs from a battery that is simply unplugged. The signature log
(`sig-save.h`) is code of the cap that `main.c` at this commit does not call: it draws
what is touched, and neither `sig_init` nor `sig_save` has a caller.

This directory holds TLA+ modules that model that software, TLC configurations
that check them on small instances, and proofs that TLAPS checks for every
instance. All paths below are relative to `src/oled-neopixel-sanity/libs` unless
they begin with `10-bluetooth` or `main.c`.

## 1. Inventory

| component | state | operations | talks to |
|---|---|---|---|
| FAT32 driver, `fat32/fat32.c` | the FAT in memory; on the card the FAT, the root directory and the files' clusters | create, rename, delete, truncate, write, read, stat, readdir, each one call that runs to its end | called by the signature log only; calls `pi_sd_read`, `pi_sd_write` |
| FAT32 helpers, `fat32/fat32-helpers.c`, `-lfn-helpers.c`, `unicode-utf8.c` | none | types of FAT entries, short and long names | used by the driver |
| signature log, `fat32/sig-save.h` | `sig_counter`, the pixel buffer | `sig_init`, `sig_draw_point`, `sig_save` | no caller in `main.c`; driver below |
| SD block device, `sd/pi-sd.c`, `sd/mbr*.c` | an init flag | init, read, write; a failure panics | driver above, EMMC below |
| EMMC controller, `sd/emmc.c` | last error, last interrupt, the card's registers | command with retries, reset and identification of the card, block transfers | the controller's registers, the card |
| I2C, `i2c/i2c.c` | status register, FIFO | init, read, write | OLED and touch controller |
| OLED, `display/ssd1306-display-driver.c` | the frame buffer | init, clear, draw, show | I2C |
| LEDs, `neopixel/*.c` | animation and scroll positions, timers | ticks | the main loop |
| main loop, `main.c` | mode, touch state, timers | one pass of the loop | all of the above |
| UART, `10-bluetooth/code/pl011.c`, `staff-pl011.c` | receive queue | interrupt handler, blocking and polling reads, writes | HCI host above, controller below |
| HCI host, `10-bluetooth/code/bt.c` | event and ACL queues, command credits | send, receive, firmware upload | UART, connection programs |
| connection programs, `10-bluetooth/code/5-*.c` | program counter, handle, what was typed | upload, ask, connect or accept, exchange packets | HCI host; each other over the air |

What makes each one hard, and what should be true of it:

- **FAT32 driver.** It edits the FAT in memory during a call, writes blocks as
  it goes, and syncs the FAT and then the directory. The power may fail
  between any two steps. Files must never share a cluster or lead into a free
  one, in memory or on the card; the directory must never be damaged; loops
  over chains must end; sizes must be backed by clusters and no cluster lost.
- **Signature log.** Several driver calls per signature, with a power loss in
  between; numbering is rebuilt from the directory at boot. A saved signature
  must stay.
- **EMMC.** Timeouts and retries against answers that come late; results that are
  ignored; unbounded busy loops; flags and addresses left by the attempt before. A
  call that returns must have moved its blocks.
- **I2C, OLED, touch panel.** Error bits that stick, polling without a bound,
  ignored results, uninitialised memory, four coordinates read at four instants.
  The display must never show what nobody drew.
- **UART.** An interrupt handler and the main program empty one FIFO into one
  queue, which both push to in one of the two builds. No byte may be lost that the
  two do not have in hand at once, and a reader must get a byte that is there.
- **HCI host and connection programs.** Credits for commands, no flow control for
  data, two queues behind one line; two peers that each assert one order of
  events. No assertion may fail while the link can be made, nothing received may be
  left unread, and a packet the controller drops may disturb no other.
- **LEDs, main loop.** A wrapping timer, state that several functions change and
  each must render, colour arithmetic whose overflow panics the cap.

Left aside: hardware drawings (KiCad), pictures and documents, the bytes of the
controller's firmware (a table), the ASCII font, and the course's library
(`rpi.h`, circular queues, the WS2812 driver), whose sources are not part of the
repository. `PROJECT.json` lists every component with its status and every hazard
at its line.

## 2. Plan

Done, in this order: FAT32 driver with its abstract specification, the signature
log; EMMC driver with its abstract specification; I2C, OLED and touch panel; UART;
HCI host and connection programs; LED animations. Then the proofs: type correctness
of every module with a state of its own, the safety of the FAT32 driver, of the
signature log, of the UART, of the LEDs, of the touch panel and of the Bluetooth
programs, the EMMC driver's implementation of its block device and the FAT32
driver's of its file store.

Left: writing again to a card whose FAT was torn by a power failure between two of its
sectors, which is known to be unsound (section 6), and the boot sector's checks, which
refuse a card.

Modules to be proved about use functions instead of RECURSIVE operators.

## 3. Modules

| module | what it is |
|---|---|
| `Fat32` | the FAT32 driver, one action per loop iteration |
| `FileStore` | what a caller of it may rely on: a store of named files |
| `Fat32Files` | `Fat32` with history variables, and the refinement mapping to `FileStore` |
| `Fat32Read` | `fat32_read`'s two loops over every well-formed chain |
| `SigSave` | the signature log on top of `FileStore` |
| `Emmc` | the EMMC driver with controller and card, flag by flag |
| `BlockDevice` | what `pi-sd.h` promises; `Emmc` holds the refinement mapping |
| `I2c` | outcomes of an I2C transfer and what they leave in the status register |
| `TouchPanel` | OLED and touch panel over `I2c`: one half of the main loop |
| `LedMatrix` | the LED matrix's geometry and the arithmetic of its colours |
| `LedCycle` | the animations over `LedMatrix`: the other half of the main loop |
| `Pl011` | the UART: FIFO, interrupt handler, reader, writer, in two builds |
| `Hci` | the HCI host and its controller, for a set of hosts |
| `BtConnect` | the connection programs on two hosts over `Hci` and a link |
| `MCFat32`, `MCFat32Files`, `MCBtConnect`, `MCTouchPanel` | definitions for TLC |
| `Fat32Proofs`, `Fat32ReadProofs`, `SigSaveProofs`, `EmmcProofs`, `TouchPanelProofs`, `LedProofs`, `Pl011Proofs`, `BtConnectProofs` | theorems and proofs |

### Fat32

| variable | in the code |
|---|---|
| `fat` | `fs->fat`, the copy in memory |
| `diskFat` | the first FAT on the card |
| `dir` | the root directory's dirents on the card |
| `dirents` | the call's heap copy of them (`get_dirents`) |
| `data` | what the card's other clusters hold |
| `pc` | which loop the call is in: `write`, `tail` and `sync` are the loops of `write_cluster_chain`, `free` that of `fat32_delete`, `cut` that of `fat32_truncate` |
| `what` | whether `write_cluster_chain` writes the file or the directory |
| `cur`, `left`, `offset`, `payload`, `sec` | the locals of the loops |

`Create`, `Rename`, `Delete`, `Truncate` and `Write` are what a call does before
its first loop: look-up, early return, edit of the directory's copy, first
allocation. `FreeStep`, `CutStep`, `TailStep` and the three `Write...` actions
are one iteration each; `SyncStep` writes one FAT sector. `WriteLastBlock`,
`WriteNextBlock` and `WriteAndExtend` are the three ways through the body of
`write_cluster_chain`. A call whose name is not found changes nothing and is
left out. `PowerLoss` may come between any two steps; `Restart` follows a
panic; both boot from what the card holds. With `TearResumed = FALSE` the model ends
at a power loss between two sectors of one FAT sync (`sec > 0`): what the card then holds is
looked at in the state before (`TornFatKeepsFiles`), and no boot goes on with it. With
`TRUE` it does. The program is sequential: no two
calls overlap.

Abstractions, and why they are harmless to the properties:

- Lengths are in clusters. The loops compare `bytes_left` with zero and with
  the cluster size only, so a count of bytes acts as the number of clusters it
  needs.
- A cluster reaches the card in one step, as does a FAT sector. A torn data
  cluster would be a file that was being written, which callers may not rely
  on; the FAT, whose tearing matters, is torn at every sector.
- One directory, the root, as the callers have. Its copy is read whole.
- Names are model values of two kinds, with an extension and without:
  `find_dirent_with_name` compares the `NAME.EXT` form, which always has a dot.
  Base names of more than six characters overflow a stack buffer there
  (`fat32.c:216`); that is undefined and not in the model.
- A deleted dirent keeps its size and cluster number on the card and nobody
  reads them: it has one form in the model.
- `write_cluster_chain`'s branch for zero bytes is not reachable: its callers
  pass a directory, which is never empty, or check the length.
- The card starts freshly formatted, with clusters 0 and 1 reserved and bad
  clusters marked.

`Calls` names three uses of the interface that no caller in the repository makes
but that `fat32.h` allows: renaming over an existing name, truncating to length
zero, truncating beyond the end. They are off where the driver is known to fail
on them (section 6), and on for `fat32_misuse`.

### Fat32Files and FileStore

`FileStore` has a sequence of blocks for every name and one pending call. A call
that returns changes exactly the files it names. One that is interrupted has
happened or has not; only a file that was being written may mix old and new
blocks. `Fat32Files` reads the files from the card between calls and, during a call,
uses the listing from before it, kept in a history variable. `Contents` are the blocks
that the size and the chain both allow, what `fat32_read` finds there; `ListingOf` is
the directory with the contents of each name, `Listing` that of the card.

### Fat32Read

Starts with every FAT and start cluster whose chain is well formed, or cluster 0
for an empty file. `CountCluster` and `CopyCluster` are the iterations of
`get_cluster_chain_length` and `read_cluster_chain`. The latter tests the type
of the cluster number rather than of its FAT entry and so runs once too often;
the model reads something for that value, as the code does.

### SigSave

Uses `FileStore`'s actions for the driver calls. `sig_save` deletes, creates and
writes; `SigInitCall` scans the directory. Numbers wrap at `Wrap`, 1000 in the
code. `saved` remembers which signatures' `sig_save` returned.

### Emmc and BlockDevice

`emmc.c` and the controller share `flags` (`int_flags`): the driver waits for a flag
or for its own timer, reads the flags, clears some and goes on, and what it leaves
set is seen by the next command. One action is one such wait with everything up to
the next one:

| action | in `sd/emmc.c` |
|---|---|
| `CardReset`, `CardResetFails` | `emmc_card_reset` up to its first command |
| `Issue` | `emmc_issue_command` up to its loop |
| `CommandEnds`, `CommandTimesOut`, `CommandLineStuck` | the loop's end and what the caller does then: the next command of the identification (`After`), `emmc_init`'s next attempt (`FailReset`), `do_data_command`'s next try (`FailCall`) |
| `TransferBlock` | one turn of `do_data_transfer` |
| `TransferEnds` | the wait for the completion |
| `Call` | `emmc_read`, `emmc_write`; a failure panics in `pi-sd.c` |
| `Respond`, `OfferBlock`, `SendBlock`, `Finish` | the controller and the card (external) |
| `Lose`, `Garble`, `Stall`, `SlowData`, `CorruptData` | the faults: a command lost, answered with a wrong checksum or late; data stuck or corrupt |

`dev` holds the fields of `device` that outlive a command. A response that the
driver gave up on still arrives and sets its flag. The card has the states of the
SD protocol (idle, ready, ident, stand-by, transfer, data) as far as the driver's
commands use them; the clock's divider, the voltage and the bits of OCR and SCR
that are only stored are left out. `BlockDevice` has one request; blocks move one
by one, in any order and repeatedly, and the request returns only when every block
of the buffer equals its sector. The refinement mapping is `Request`.

### I2c, TouchPanel

A transfer is one step: nothing else uses the controller. `WriteOutcomes` and
`ReadOutcomes` are the ways it can end ("done", "failed", "hung" in a polling loop),
how many bytes passed, and what it leaves in ERR and CLKT, which later transfers
check. `TouchPanel` is a reading of seven commands (`Command` and `Answer`), the
acceptance of its four coordinates (`NoPoint`, `Draw`) and the display's buffer,
shown at every `ShowEvery`-th point. What `tsc2007_cmd` returns after a failed read
is a value of uninitialised memory, any of `Leftovers`. `MoveFinger` comes between
any two transfers. The display is initialised and cleared as `notmain` does it, and
`panel` is what it shows, bytes of a broken transfer included. `Memory` is the display's
buffer and the byte behind it, which drawing the last byte's pixels writes too
(`ssd1306-display-driver.c:111`); that byte never reaches the display. `held` and `honest` are history variables.

### LedMatrix, LedCycle

`LedMatrix` is arithmetic without state: where a pixel is on the strip, the blend of
two palette colours with C's division and cast, the level of a red dot.
`LedCycle` is one loop iteration in two steps: `LedTick`, the LED part of one phase
(`TickWipe`, `TickSweep`, `TickTree`, `TickGoTrees`, `TickCs240lx`), and `Poll`, the
rest, which takes 1 to `MaxLoop` ticks of a timer that wraps, or `Hang`s in I2C.
The strip is the description of a frame (which text at which column, blinking or
not, masked beyond which column) and not 64 colours: two states of the program that
would draw different pictures have different descriptions. Whether the colours of a
frame are accepted (`Fits`) is computed from `LedMatrix`, and a frame that is not
panics. A message is its length: a glyph is one frame per column. Time stamps are
kept only in the phases in which the code still reads them. `dwell` and `seen` are
history variables.

### Pl011

One register access is one step, bytes arrive between any two, and the
interrupt is taken between any two steps of the program (`Interrupt`; `ReadStatus` is the
handler's look at the status, with its panic when nothing is set). `driver` chooses the
build: `pl011.c`, whose `pl011_get8` reads the FIFO itself when the queue is empty
(`Poll`, `ReadData` and the push), or `staff-pl011.c`, which waits for the queue. The
receive interrupt rises when the FIFO reaches `Trigger`, the timeout interrupt after
an idle line; a byte that arrives between the handler's last look at the FIFO and
its clearing of the interrupts has lost its interrupt. A read of an empty FIFO
returns any earlier byte or zero. The circular queue is the course library's, whose
source is not here. Its pop is one step, as nobody else takes bytes out of it, and it is
not bounded. The program's push is three (`PushRead`, `PushStore`, `PushAdvance`: look at
the end, write the slot there, move the end), and the handler, which pushes in one step
because the program stands still in it, may come between any two. What the end then is depends on
how the library moves it, so both are possible (`Advanced`): behind the slot written, which
forgets what the handler pushed, or one behind the handler's end, which leaves a slot
nobody wrote. `contested` remembers the bytes the two pushes had in hand.

### Hci, BtConnect

Bytes are taken to come out of the UART intact and in order: with `staff-pl011.c` they do
(`StaffInOrder`); `pl011.c`, which the Makefile builds, may swap, double or lose some
(section 6), and what `bt.c` then makes of the stream, its panic on an unknown
packet type included (`bt.c:123`), is not modelled.

`Hci` is a packet at a time: `_receive_packet` (`Receive`) with the two queues and the
overwriting of the credits, sending, and the four ways of receiving. Its functions
that loop are actions that take one packet: `AwaitCredit` is the loop of
`bt_send_command`, `AwaitEvent` that of `bt_receive_event`. The controller (external)
takes commands from the line (`Intake`), holds up to `CommandSlots`, and answers the
oldest with the number of free places.

`BtConnect` composes two of them. The straight-line part of both programs is a list
(`Program`) of commands to send and events to receive and assert; `SendStep` and
`ReceiveStep` work through it, and `"find"` is the search for one completion in the
upload. `LoopEvent`, `LoopAcl` and `LoopTerm` are the three parts of the chat loop.
`"panic"` is an assertion that fails, that
of a good status of `connection_complete` included, with which both programs answer a
failed attempt to connect. The link is paged, requested, accepted, up, down, or its attempt failed from any
of the first three (external). A controller holds `AclSlots` data packets and drops one
that it has no room for; `lost` remembers its bytes. `Terse` bounds the hosts at which one packet is
typed only. The firmware is
`NChunks` commands; its bytes do not matter.

## 4. Runs that pass

| run | bounds | distinct states | shows |
|---|---|---|---|
| `fat32_calls` | FAT of two sectors, directory of two clusters that are not adjacent, no power loss, fairness; no cut to nothing or beyond the end | 14 936 | `SizeBacked`, `NoLeak`, `CallsEnd` |
| `fat32_misuse` | 8 entries in a FAT of two sectors, so that a sync can tear, directory of two clusters, one cluster bad; all uses of `Calls`, a bare name, power loss | 4 917 564 | `DirIntact` |
| `fat32_files` | FAT of two sectors of 4 entries, 3 usable clusters and a bad one, three names for two slots in a directory of two clusters, two payloads, lengths to 3; power loss between any two steps, ending the behaviour within a sync; symmetry of names and of payloads | 353 328 | `MemorySound`, `DiskSound`, `TornFatKeepsFiles`, `UniqueDottedNames`, `ImplementsStore`, `TypeOK` |
| `fat32_read` | all FATs of 6 entries | 11 328 | `ReadsTheChain`, `ReadEnds` |
| `sig_save` | 3 names, 6 signatures of two blocks: twice around, power loss anywhere | 23 543 | `SavedStays`, `NumberedInOrder`, `RecentStay` |
| `emmc` | three kinds of card, two sectors with two values, 4 resets, 3 tries, any two faults at any commands (a command lost, garbled or answered late, data stuck or corrupt, a reset that fails), but no transfer that completes later than the driver waits | 254 432 | `ImplementsDevice`, `CallsEnd`, `InitRecovers`, `TypeOK` |
| `touch` | FIFO of 2, display of 4 x 2 bytes, three places of the finger, two moves in a reading, any bus fault at any transfer, three points | 8 261 380 | `SampleIsReal`, `PanelIsReal`, `PanelCatchesUp`, `TypeOK` |
| `led_cycle` | timer of 12 ticks, messages of 3 and 2 characters of 3 columns, up to 4 ticks in an iteration | 35 532 | `StripShowsState`, `StaysItsTime`, `PassIsComplete`, `CycleGoesOn`, `TypeOK` |
| `pl011` | FIFO of 3 with its interrupt at 2, 3 bytes in, 4 out, both builds | 249 780 | `StaffInOrder`, `NothingLost`, `ReaderServed`, `TypeOK` |
| `bt_connect` | one command slot, two firmware commands, one data packet in a controller, packets of two bytes, three bytes typed on each side, one packet at Bob, links that fail and break | 89 463 | `CommandsFit`, `EventsAsExpected`, `StreamInOrder`, `NothingUnread`, `UploadEnds`, `ConnectEnds`, `TypedIsShown`, `TypeOK` |

**FAT32.** The bounds let two files compete for fewer clusters than they ask for, so
that files grow, shrink, become full, get interleaved clusters and skip the bad one.
In `fat32_files` a third name finds the directory full, which panics, and the FAT's two
sectors hold parts of one chain. A third file adds no relation between two chains
that two do not have. The power may fail in every state, between two sectors of a sync
too; there the behaviour ends, because going on is unsound (section 6). `fat32_misuse`
does go on. `SizeBacked` and `NoLeak` are checked without power loss
because they are not true with it: a call interrupted after its FAT sync and
before its directory write leaves a size larger than the chain or clusters that
nobody owns. The driver does not promise otherwise; what it needs is
`DiskSound`. `SavedStays` speaks of as many signatures as there are names, because
after a reboot the wrap loses signatures (section 5); within one power cycle,
wherever it resumed, `RecentStay` covers the wrap.

**EMMC.** The faults are those of the driver's own lines; `"late data"`, a completion after
the two seconds of its own timer, is not among the run's (section 6). Two faults reach every pair of a late answer or leftover and a fault in its
retry; three tries and two faults leave one that succeeds, and with the first
fault in the identification the second meets a card in every state. 4 resets stand
for the code's 10: with two faults, whatever succeeds does so by the third.
`InitRecovers` leaves out the two causes that no attempt repairs (`LostCause`), which
are deviations of section 6. The checks of a response's contents (`emmc.c:400`, `518`, `536`) cannot
fail here and are left out: a response with a right checksum is what the card said, and it is
that of the command itself, since the reset drops what is left of the attempt before
SEND_IF_COND, and nothing is one behind any more once IO_SET_OP_COND has seen its busy bit (`InStep`,
section 7).

**Touch panel.** Three places suffice for a reading mixed from two: the first agrees
with the second in one coordinate and with the third in the other. Two moves are
the fewest with which a finger can leave and come back. The FIFO is smaller than the
display's buffer, so that a write can hang or fail. Three points with every second
shown reach states before, at and after a show.

**LEDs.** The wrap is smaller than a pass and an iteration takes any of four times, so
that the timer wraps in every phase and at every offset to its stamps; every step time plus the longest
iteration stays under it, as in the code, whose times are seconds and whose timer
takes 71 minutes.

**UART.** Three bytes in a FIFO of three whose level is two let a byte arrive below the
level, at it and above it, during every step of the handler and of the push, and let two
bytes of the handler meet the one that the program is pushing.

**Bluetooth.** One slot is what the code relies on (section 6). Two commands of
firmware queue an event behind an event. Alice's three bytes make up to three packets for
a controller that holds one, so that it may drop the second, the third or both; Bob's one
packet crosses them, with a disconnection before, between and after them.

**Fairness.** The processor runs on; nobody promises a call, a byte, a touch or power.
`Fat32`'s `FairSpec` and `Fat32Read` have weak fairness of the call's own steps.
`Pl011` has it of the reader, of the handler (an interrupt that is pending and not
masked is taken) and of the transmitter, which needs nobody. `Emmc`'s `FairSpec` has it
of the driver and of the controller with its card; no fault is fair. `LedCycle` has it
of the two parts of an iteration, with `Hang` possible in every one. `BtConnect`'s
`FairSpec` has it of each program, of each controller and of the paging, which
always ends one way or the other (`PageFails` while it is paged, requested or accepted); nothing makes a user type or a link break.

**Deadlock** checking is off where the system may stop. `Fat32Read` ends; `Pl011` stops
when the bound on bytes is reached and everything is read; `Emmc` stops when
`emmc_init` gives up or `pi-sd.c` panics; `BtConnect` when both programs have left
their loops or panicked on the failed attempt to connect. Elsewhere it is on:
in `SigSave`, whose `MaxAttempts` bounds the calls, a power cycle is always possible,
and `TouchPanel` and `LedCycle` name the states in which they have stopped.

## 5. Findings

`fat32_bare_name` stops with a counterexample: a name without an extension, which
`fat32_is_valid_name` accepts, matches no dirent, because `to_8dot3` always puts a
dot before the suffix. `fat32_create`, which is to make sure that no file has the
name already (`fat32/fat32.c:430-431`), creates it twice.

`sig_wrap` stops with another: `sig_init` is to "find highest existing SIG file so we don't
overwrite on reboot" (`fat32/sig-save.h:41`). When the numbers have wrapped, the highest
number on the card is 999 for good; the boot resumes with number 1000, whose name is
`SIG000.BMP`, and the next save deletes the newest signature while older ones stay
(`BootSparesNewer`).

## 6. Known deviations

Properties that one would like and the code does not have. Each is a definition of
the module named or a change to a constant of the run named; TLC finds a
counterexample at once. Where a text of the repository says otherwise the row quotes
it. They have no run of their own: the two findings above stand for the kind, and these
are for who changes the code there.

| where | what happens | how TLC shows it |
|---|---|---|
| `fat32/fat32.c:540` | a file truncated to zero keeps its start cluster, now free; its next write goes there, and so may another file's. No caller in the repository truncates | `fat32_files` with `Calls = {"truncate_to_zero"}`: `MemorySound`, `WritesOwnClusters` |
| `fat32/fat32.c:528` | truncating beyond the end records a size without clusters; `fat32.h:58-59` says "padding with zeros" | `fat32_calls` with `Calls = {"truncate_beyond"}`: `SizeBacked` |
| `fat32/fat32.c:379` | the scan for a free cluster begins at the current one and does not wrap: a panic with clusters free; `fat32.c:281` says "Panic if there are none left" | `PanicOnlyWhenFull`, in `fat32_files` |
| `fat32/fat32.c:304` | a power loss between two sectors of the FAT leaves a chain that leads into a free cluster. The files can be read (`TornFatKeepsFiles`), but a boot that goes on writing may give the cluster to another file | `fat32_files` with `TearResumed = TRUE`: `DiskSound`, `MemorySound`, `ImplementsStore` |
| `fat32/fat32.c:412` | renaming to a name that is taken makes two dirents of it | `fat32_files` with `Calls = {"rename_over"}`: `UniqueDottedNames` |
| `fat32/fat32.c:132` | one cluster too many is copied, past the buffer's end; its LBA is computed from an end-of-chain value | `WithinBuffer` of `Fat32Read` |
| `fat32/fat32.c` | `fat32_read` of an empty file fails the assertion of `cluster_to_lba` | `LbaAssertFails` of `Fat32Read` is reachable |
| `sd/emmc.c:365` | a fault after the card's address was read spoils all other attempts: the stale address goes to a card that has forgotten it; `emmc.c:794` says "Failed to reset card, trying again" | first disjunct of `LostCause` reachable; `<>(step = "call")` |
| `sd/emmc.c:433` | a high-capacity card whose answer to SEND_IF_COND was lost is asked without HCS, in a loop without a bound | second disjunct of `LostCause` |
| `sd/emmc.c:310` | a completion later than the driver's timer is taken for that of the next command, which returns before its blocks have moved | `emmc` with `"late data"` in `Faults`: `ImplementsDevice` |
| `main.c:91` | three moves of the finger within one reading of 4 ms mix the coordinates of two places into a third | `touch` with `MaxMoves = 3`: `SampleIsReal` |
| `main.c:91` | where the panel's far edges read within the tolerance of the largest value, that of an untouched panel, a finger lifted there and put down elsewhere gives a mixture that is accepted | `TouchPanel` with places `<<6, 0>>` and `<<1, 6>>`, `Max = 7`, `Tolerance = 1`: `SampleIsReal` |
| `display/ssd1306-display-driver.c:111` | every pixel lights the one in the next byte too, and the last byte's is one byte behind the buffer | `buffer \subseteq Pixels` fails in `touch` |
| `i2c/i2c.c:208` | `i2c_init` does not clear the clock-stretch bit: if it is set, every transfer fails until power off | part of `TouchPanel`'s `Init`; the display stays dark |
| `10-bluetooth/code/pl011.c:189` | the reader pushes a byte after the handler has pushed a later one: swapped. A byte that the handler takes between the look at the flag and the read leaves an old one to be read again | `BytesInOrder` of `Pl011` |
| `10-bluetooth/code/pl011.c:189` | the handler pushes while the reader is within its own push to the same queue: a byte that either has in hand may be overwritten, forgotten or doubled | `NothingLost` without its first disjunct |
| `10-bluetooth/code/staff-pl011.c:137` | the flush waits for the busy bit, which an idle line never sets: initialisation does not end. `staff-pl011.c:2` says "Same as pl011.c except pl011_get8" | `InitEnds` of `Pl011` |
| `10-bluetooth/code/bt.c:99` | an event's credits do not count the commands in flight: a controller with two slots is sent three commands; `10-bluetooth/README.md:100-106` describes flow control and "the code that implements this" | `bt_connect` with `CommandSlots = 2` and `NChunks = 4`: `CommandsFit` |
| `10-bluetooth/code/bt.c:175` | data packets are not counted: a controller with fewer buffers than packets drops some; `10-bluetooth/README.md:171` speaks of a "reliable bytestream", `:188` has lines "come out of your partner's terminal" | `bt_connect`: `lost` does not stay empty; `TypedIsShown` without its second disjunct |
| `10-bluetooth/code/5-connect.c:120`, `5-accept-connection.c:134` | an attempt to connect that fails panics both programs, by the assertion on the status; `5-connect.c:114` expects the event "even if connection fails" | `EventsAsExpected` without `link = "failed"` |

The signature log does not truncate, uses names with an extension and writes
once per file, so that of the FAT32 driver's it meets the torn sync, the overrun (in
every directory read) and the wrap. `SigSave` stands on `FileStore`, which the driver implements
but for the boots that go on with a torn FAT: on a card whose FAT has many sectors, as every real one
has, a power loss within a sync is outside what is shown of the log. In the overrun, with 16 or more sectors per
cluster, the 32-bit arithmetic wraps to a sector that exists, otherwise the read
fails.

## 7. Proofs

Every theorem holds for all values of the constants that satisfy the named
assumptions of its module.

### FAT32

`Fat32Proofs` proves, from a geometry, a directory chain without repetition and
names:

- **`TypeCorrect`**: `Spec => []TypeOK`. `TypeOK` is not inductive: that the block
  written is well formed needs `Writing` (inside the loop there is something
  left, and it fits the longest file).
- **`RootDirectoryIntact`**: `Spec => []DirIntact`, whatever `Calls` are, with power
  losses and torn syncs. The invariant `DirInv` says that no FAT entry outside
  the directory's chain and no dirent leads into it, in both FATs and both
  directories, and that the loop that writes the directory is at the cluster its
  offset says. Both FATs satisfy it pointwise, so any mix of their sectors does.
- **`MemoryStaysSound`** (`MemorySound`) and **`VolumeSound`**,
  `Spec => [](MemorySound /\ DiskSound)`, under `Careful`: no truncation to zero and, unless the FAT
  has one sector, no boot that goes on with a FAT torn within a sync (`TornCardIsLeft`).
  The FAT may have any number of sectors, written one after another; `DiskSound` speaks of the card
  outside a sync (`sec = 0`), and of what it holds within one `TornFatReads` says what is true.
  Both hypotheses are needed (section 6). The invariant `SoundInv` relates the two views of the volume,
  memory's `(fat, dirents)` and the card's `(diskFat, dir)`: while the file is written, the call's directory has the card's start clusters or a new one
  (`FileFirst`); once the FAT is synced, the card's FAT is sound with both
  directories, which differ in one slot (`Views`, `OneChange`), so with any mix
  of their blocks; during a sync the sectors before `sec` are memory's (`Synced`), and nothing
  more is said of the card until the last is written; what the freeing loops hold is in use and unreferenced
  (`AtCluster`).
- **`NamesUnique`**: `Spec => []UniqueDottedNames` for callers that rename no file
  to a name that is taken (`fat32_rename` does not look; `"rename_over"` in `Calls`
  allows it). `UniqueDottedNames` of the card is not inductive: a power loss may leave some blocks of the directory
  written and some not. `NamesInv` adds that the call's directory has distinct
  names too and differs from the card's in one slot, so any mix of their blocks
  is one of the two.

- **`SizesBacked`** (`SizeBacked`) and **`NothingLeaks`** (`NoLeak`) under `Steady`: the power stays on, and no
  file is cut to nothing or beyond its end. All three are needed: after a power loss a
  chain that was freed or allocated in memory only is lost, and the two kinds of cuts
  leave a file without its clusters. Both properties speak of `Walk`, a
  recursive function of the FAT, so the invariant `ChainInv` does not: it says that
  there are maps `o` and `n` from clusters to owner and place (`Numbered`) with which
  first clusters are at place 0, links lead to the next place of the same owner, every
  cluster in use is a first one or linked from one, and no place is taken twice. The
  chain that a loop is freeing is owner 0's. `CallView` says where the call is:
  `write_cluster_chain` at place `offset`, with `offset + left` the file's new size;
  `fat32_truncate` with `left` places to the size it cuts to. `FreeNumberedHead`,
  `CutNumbered`, `DisownNumbered`, `NewNumbered` and `ExtendNumbered` renumber the
  chains after each edit of the code. `Complete(diskFat, dir)` is for the panic of a
  full card: what was changed in memory is gone then and the card is as it was.
  `WalkFinds` then turns the maps into `Walk`, by induction, and `PlaceBound` shows that
  `NEntries` steps are enough, as there are no more places than clusters.

- **`FilesImplementStore`** (`ImplementsStore`) under `Ordinary`: callers make none of the
  three uses, names have extensions and no boot goes on with a torn FAT, whose number of
  sectors is any. Each of the five hypotheses
  is needed: without any one of them TLC finds a counterexample in the configuration of `fat32_files`.
  `AbsentAssumption` asks only that `Absent` is no contents. The refinement needs what
  the next boot would find at every step, and `FilesInv` says it: `MayFind(Listing)`, the
  listing is the one before the call, the expected one, or a blend. That is not inductive
  by itself:
  - `DirPhase`: once `write_cluster_chain` writes the directory, and while a chain is cut or freed, the
    call's directory lists the expected files with either FAT, so that the one
    block that changes on the card takes the listing from the old to the new in one step
    (`DirBlockFiles`). `CuttingAt` keeps `fat32_truncate` at the place its count says, so
    that it cuts behind the last block that the new size shows (`CutListing`).
  - `FileView`: while the file's blocks are written, no other file's listing changes, with
    either FAT; the card's FAT, which has not been synced, holds the beginning of the
    chain that memory's holds (`Grows`), so a block written into it replaces the old block of the
    same place (`CardBlock`, `Patched`); and the first `offset` blocks of the call's
    chain are new ones (`WrittenTo`). When the FAT is synced, the old dirent already
    leads to new blocks (`OldDirent`), and the new one to all of them (`SyncFileFiles`).

- **`TornFatReads`** (`TornFatKeepsFiles`) under `Ordinary`. Between two sectors of a sync the card's
  FAT is a mix of two, in which a chain may lead into a free cluster; still no file's listing is
  damaged. The invariant `TearInv` says how far memory's FAT has gone from the
  card's. `OthersAlike`: for every file but the one the call writes, both lead to the same
  blocks, so any mix of their sectors does; of a chain that a call cuts or frees, only links
  behind what the new size shows have changed. `OwnChain`: of the file that is
  written, one FAT's chain begins with the other's, or the write has just begun. `OldFile`: with
  the card's FAT the old dirent, which is there until the directory is written, leads to a
  chain that ends and to blocks each of which is an old or a new one.

  Underneath are lemmas about `Walk` in a sound view: a chain meets neither another nor
  itself (`ChainsMeetNowhere`), so it ends (`ChainEnds`); FATs that agree on a chain's
  first clusters have these in common (`WalksAgree`); edits off a file's
  chain change nothing of the file (`Untouched`).

Arguments that several steps share are lemmas about a sound view `(f, d)`:
`FreeHead`, `EndChain`, `ExtendChain`, `AllocateFirst`, `FewerStarts`,
`HalfWrittenDirectory`. `BeginEffect` reduces the five ways a call begins to what
the proofs need of them.

The provers have no rule of induction over an operator. `SetInduction` is one over a
set of numbers, from the library's theorem that `<` is well founded: the numbers outside
the set would have a least one. A recursive function exists because each
of its finite parts does (`WalkExists`, `LayersExist`).

### Reading (`Fat32ReadProofs`)

- **`ReadIsWhole`** (`ReadsTheChain`), for every FAT and chain. `ChainLinked` says what `Chain`
  computes: clusters linked in the FAT from the first on. The invariant `ReadInv` is that
  `length` of them are counted and that the buffer is a prefix of them and, in the
  end, one cluster longer.

### Signature log (`SigSaveProofs`)

- **`SavedSignaturesStay`** (`SavedStays`), **`RecentSignaturesStay`** (`RecentStay`) and
  **`NumbersFollowOrder`** (`NumberedInOrder`), for every number of names, attempts and
  length of a bitmap, with a power loss anywhere. None is inductive: each needs where the
  next signature will go. `Counting` says that in one power cycle the saved signatures
  have consecutive numbers up to the current one, so the next overwrites the oldest;
  `Climbing` that until the numbers wrap a boot resumes above everything that is saved.
  `ModuloDiffers` is the arithmetic: numbers less than a round apart have different names.
  The log is proved over `FileStore`'s actions, so these theorems stand on the driver's
  refinement of it, `FilesImplementStore`, whose hypotheses the log meets but for one: it makes none of
  the three uses and its names have an extension, but nothing keeps a boot from going on with a
  FAT that was torn within a sync.

### EMMC (`EmmcProofs`)

- **`EmmcTypeCorrect`**: `Spec => []TypeOK`, with all faults. `Typed` adds that a command
  that moves blocks has one to move and that failures are counted below their limits.
- **`EmmcImplementsDevice`**: `Spec => ImplementsDevice`, for any number of sectors, blocks,
  faults, tries and resets, when `"late data"` is not among the faults; with it the code
  does not implement its device (section 6). Every step is a step of `BlockDevice` or a
  stutter under the mapping `Request`. The invariant has three layers. `OneAhead`,
  `BusyBitFresh` and `InStep` are the command line: an answer to a command that was given
  up is taken for the next one's, so the driver can be one ahead of the card, until
  `IOSetOpCond` returns a busy bit that no older answer can carry. `DataLines` says when
  the data lines are free. `CallInv` relates a call, what is left on the lines of its
  earlier tries, and the blocks moved: a try may be served by the transfer of the one
  before, which is harmless because both ask for the same blocks.

### Touch panel and display (`TouchPanelProofs`)

- **`TypeCorrect`**, **`DisplayCatchesUp`** (`PanelCatchesUp`) and
  **`NothingUnreadShown`** (`PanelIsReal`) for every geometry, FIFO, tolerance and
  number of points. The arithmetic comes first: `ScaledInRange` and `LitOnDisplay`
  say that whatever was read is mapped to bits of the display's buffer and of the one
  byte behind it (`Memory`), which the code does write. The argument for
  the display is that an error bit, once set, is never cleared (`StickyBits`): the
  failure that leaves a reading uninitialised also refuses every later write, so what
  has been drawn is honest as long as the display can still change (`PanelInv`).
- **`AcceptedIsReal`** (`SampleIsReal`) for every tolerance and all places of the finger.
  `Followed` names the places the finger went through and which of them each coordinate
  was read at, in order; the rest is arithmetic about four readings of three places.
  It has two hypotheses, `MaxMoves <= 2` and that no two places are near the far edge in
  one coordinate each; both are necessary, as the two rows of section 6 for `main.c:91`
  show. The second one was found by the attempt to prove it without.

### LEDs (`LedProofs`)

- **`TypeCorrect`**: for all times and lengths. That no computed colour panics the
  cap is part of it: `BlendStaysBetween` shows that C's truncating division and the
  cast to a byte keep a blend between its two colours, whatever their order.
- **`StripIsCurrent`** (`StripShowsState`). The invariant `PhaseInv` is the list of
  the five situations of the loop (tree, either text, wipe, sweep), with what mode,
  scroll, pending phase and strip are in each.
- **`FramesStay`** (`StaysItsTime`) and **`PassesComplete`** (`PassIsComplete`) are about
  steps. `HistoryInv` relates the history variables to the program's stamps: the
  difference of a stamp and a timer that has wrapped is never more than the ticks that
  have passed (`RemainderGrows`), and a text has been shown at as many columns as its
  column says.

### UART (`Pl011Proofs`)

- **`TypeCorrect`**, **`NoByteLost`** (`NothingLost`) for both builds and
  **`StaffKeepsOrder`** (`StaffInOrder`), for every FIFO, level and number of bytes.
  `Held` says that every byte that came in is in the FIFO, the queue, the reader's
  register or delivered, or was in hand when the handler came into the program's push;
  `ReaderInv` that the register is used from the read to the end of the push only, and by
  `pl011.c` only, which is why the handler's build keeps every byte and the order
  (`StreamInv`: delivered, queue and FIFO together are the stream). What is known of the queue's
  end within a push is that it was a place of the queue then and that whatever has come
  behind it since is contested; nothing is asked of the library but that.

### Bluetooth (`BtConnectProofs`)

For controllers that hold one command (`CommandSlots = 1`; section 6 shows what
happens with two) and every firmware length, packet size, buffering and amount typed:

- **`TypeCorrect`**: `ProgramSteps` shows that both programs are lists of known steps,
  so that a place in them is one.
- **`OneCommandAtATime`** (`CommandsFit`). `CommandsFit` is not inductive: that the
  controller has room says nothing of the commands on their way. The invariant
  `Tokens` says that for each host at most one of four things exists at a time:
  a credit, a command on the line, a command in the controller, an answer that brings
  the credit. Overwriting the credits with the answer's (`bt.c:99`) is then the same
  as adding them. The lemmas from `TokenTakenUp` to `NoGrantSentUp` are the token's way
  round, `ReceiveInv` to `DeliverInv` what each action does with it.
- **`AllIsRead`** (`NothingUnread`). `bt.c` has two queues behind one line, so whether data
  is left when the disconnection is read depends on the order on the line. `Linked`: each
  host asks for the connection with its program's last command, and what can be on its
  queues before and after; `Opened`: on every line the completed connection comes before
  data, the disconnection after it, and the loop looks for data between two events.
- **`BytesInOrder`** (`StreamInOrder`). `Covers(q, a, b)` says that the data packets of queue
  `q` carry the bytes from `a` to `b` end to end; the invariant `Streams` chains it over
  the receiver's queue, its line, the sender's controller and the sender's line, from what
  is shown to what is typed, where a stretch may be missing if all its bytes are in `lost`:
  `bt.c` counts no packets (section 6), so a controller may drop any, and nothing is
  assumed of `AclSlots`, `MaxData` or `NTyped`. Once the link is down only the receiver's half matters.
- **`EventsComeAsExpected`** (`EventsAsExpected`). That no program has panicked, unless the attempt
  to connect has failed (`FailureIsFinal`), says nothing of
  the event that comes next. `OpcodeOf(h, n)` and `CodeOf(h, n)` number the events of each
  host's program in the order in which they must come, `At` says how many a host has taken at
  each step and which answers its last command. The invariant `Scripted`: what is queued at the
  host and on its line are the next events (`LineFits`); their number says whether a command
  is on its way and which (`AnswersFit`), and how far the connection is (`LinkFits`). The
  last is what orders the two hosts: Bob's request can come only after he has been answered
  that he scans, and his completion only after he has accepted; that Alice never scans
  (`NoScan`) keeps it so. `StepAt` reads from the programs, for every firmware length, that
  each step sends or awaits the event that is next; `ExecuteScript` needs `Linked`, so that
  Alice asks for the connection once.

`OpcodeAssumption` asks that the commands of the two programs are among `Opcodes`.

### Only model-checked

Liveness: `CallsEnd`, `ReadEnds`, `InitRecovers`, `CycleGoesOn`, `ReaderServed`,
`UploadEnds`, `ConnectEnds`, `TypedIsShown`: their fairness and ENABLED are out of the prover's reach. Every
invariant and action property of the runs is stated by a theorem.

## 8. Mutants

A definition with an underscore in its name, such as `FreeFrom_NoCheck`, is a
plausible bug in the definition that follows it. Each property of a passing run
is listed in `PROJECT.json` with a mutant under which TLC finds it violated. The
mutants are in no specification.

## 9. Not modelled

- Long file names and UTF-8: printed only, by a function that nothing calls.
- The boot sector's, FSInfo's and the partition table's checks, which only assert;
  subdirectories (`fat32_create` with `is_dir` makes an entry with cluster 0 that
  nothing can use); the overflow of `name[11]` (`fat32.c:216`), which is undefined.
- The pixels of the signature's bitmap; the heap, which is never freed.
- In `emmc.c` the clock divider, power and voltage; in `i2c.c` the clock divider.
- OLED lines, characters and bitmaps, custom LED trees and fills, which the cap
  does not call; the font.
- `bt_receive_acl`, which has no caller; the bytes of HCI packets and of the
  firmware; scanning and the exercises 1 to 4 of `10-bluetooth`, straight-line
  programs that are prefixes of the connection programs.
- Printed traces.
