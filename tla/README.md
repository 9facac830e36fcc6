# Formal model of the Adafruit nRF52 bootloader

TLA+ modules, TLC configurations and TLAPS proofs for the DFU bootloader of this
repository. Every definition is read from the C code: `src/src` (the project's
own code) and the two trees of Nordic SDK code that the project builds and has
changed, `src/lib/sdk11` and `src/lib/sdk`. The SoftDevice, the MBR, tinyusb and
the flash itself are binaries, submodules or hardware; they are modelled from
the way the code uses them and marked *external* in `PROJECT.json`, which also
maps each definition to its lines, lists the hazards of each component with
their lines, and names the mutant that each property catches.

Paths below are relative to the repository, with `.../` for
`src/lib/sdk11/components/libraries/bootloader_dfu/`.

1. [The system](#1-the-system)
2. [Modules](#2-modules)
3. [PStorage: the queue of flash commands](#3-pstorage-the-queue-of-flash-commands)
4. [DfuBank: an update over BLE or serial](#4-dfubank-an-update-over-ble-or-serial)
5. [Uf2Disk: an update by drag and drop](#5-uf2disk-an-update-by-drag-and-drop)
6. [SerialTransport: from the wire to the update code](#6-serialtransport-from-the-wire-to-the-update-code)
7. [BleTransport: the DFU service and its host](#7-bletransport-the-dfu-service-and-its-host)
8. [SdSwap: moving a SoftDevice over its own source](#8-sdswap-moving-a-softdevice-over-its-own-source)
9. [BootMode: what a reset leads to](#9-bootmode-what-a-reset-leads-to)
10. [What the code does not keep](#10-what-the-code-does-not-keep)
11. [Proofs](#11-proofs)
12. [Not modelled](#12-not-modelled)
13. [What could come next](#13-what-could-come-next)

## 1. The system

The bootloader runs after every reset. It looks at a page of *bootloader
settings*, moves a SoftDevice or a bootloader that was received earlier into
place, and then starts the application or waits for new firmware. Firmware comes
by one of three ways: a UF2 file copied to a USB disk, Nordic's serial DFU over
USB CDC or a UART, or BLE DFU. It is written to flash, checked, and recorded in
the settings.

Everything runs in one main loop. Concurrency comes from four sides: the
SoftDevice carries out flash operations and raises events; interrupts put timer
and SoftDevice events into a scheduler queue that the main loop empties, so that
an event can be out of date when it is handled; the host sends what it likes in
any order; and the supply may fail, which leaves only the flash.

| component | code | state it keeps | operations | the hard part | what makes it correct |
|---|---|---|---|---|---|
| raw persistent storage | `pstorage_raw.c` | ring `m_cmd_queue`, round counter, `flash_access` flag | store, clear, SoftDevice flash event | callbacks that come back in while the event handler is half done; a busy or failing SoftDevice; resets | a FIFO: every accepted command, each sector once, in order, and the client told |
| single-bank DFU | `.../dfu_single_bank.c` | `m_dfu_state`, sizes, received count, timed-out flag, the timer | start, init and data packet, validate, activate, reset, timeout | packets in any order, while erases and writes are still queued; wrap-around of the count; resets anywhere | what is activated is what was announced, received and checked |
| bootloader core | `.../bootloader.c` | `m_update_status`, the static settings buffer | update_process, settings save, wait_for_events, app_is_valid, finalize | the settings are erased and rewritten asynchronously from a buffer that is used again | the settings never say more than the bank holds |
| boot decision | `src/src/main.c` | GPREGRET, double-reset word, OTA flag, startup timer | main, check_dfu_mode, the ends of wait_for_events | what survives which reset; a timer, a mark of activity and a cable that race | the decision is put down to the event that caused it; from every boot the device settles |
| move of an image | `.../dfu_single_bank.c` 622-855 | none but the flash | validate, swap, finalize, at every boot until done | the source is overwritten while it is copied; the power fails anywhere | no page is lost; what is called finished is whole |
| flash cache | `flash_nrf5x.c` | one cached page | write, flush, erase | a page is written late, and whole | only the blocks written change, and none stays behind |
| UF2 disk | `ghostfat.c`, `msc_uf2.c` | mask and count of blocks written, flags of a bootloader update | write10, write10_complete | the host's file system orders and repeats sectors as it likes | complete means that the whole file is in flash |
| serial transport | `.../dfu_transport_serial.c`, `hci_*.c` | packet slots, acknowledgement and receive state, buffer pool | receive, process, close | a packet is acknowledged before there is room for it; slots are reused | each acknowledged packet is handled once, in order |
| BLE transport | `.../dfu_transport_ble.c`, `ble_dfu.c` | packet type, notification counter, advertising and link flags | control point and data events | link loss, refused disconnects, receipts in mid-stream | the host is told what has been stored |
| scheduler, timers | `app_scheduler.c`, `app_timer.c` | ring of events; list of timers | put, execute; start, stop, tick | full rings; an expiry already queued when its timer is stopped | no event lost or out of date |

How they interact: a transport hands each packet to the single-bank module, which
queues flash commands with the raw storage (BLE) or writes through the flash
cache (serial), and reports to the bootloader core. The core saves the settings
through the raw storage too. The storage calls both back when a command is
finished; the bank's callback (`DFU_BANK_0_ERASED`) and the core's callback
(`BOOTLOADER_COMPLETE`) move the session on. The UF2 disk uses the flash cache and
reports to the core. `main` calls the core before and after.

`PROJECT.json` lists the hazards of each of these at the line where they bite, with
the properties that would catch them; a note says where a property covers one only
in part.

## 2. Modules

| module | what it is |
|---|---|
| `FlashFifo` | abstract specification: what a client of the raw storage may rely on |
| `PStorage` | `pstorage_raw.c`, every handler, with the SoftDevice's flash engine beside it |
| `PStorage_proof` | invariants of `PStorage`, and that it implements `FlashFifo`, for every queue size and flash |
| `DfuBank` | `dfu_single_bank.c` and `bootloader.c`, with `main.c` around them and the flash, as a `FlashFifo`, below |
| `DfuBank_proof` | for every set of images and size of bank: types; the settings never say more than the bank holds; what is queued stays what it was, stores find their page erased, and a session that ends complete has its settings in flash |
| `Uf2Disk` | `write_block`, the write callbacks, the cache and the end of the session |
| `Uf2Disk_proof` | safety of `Uf2Disk`, for every set of files and size of flash |
| `HciPool` | the receive pool of `hci_mem_pool.c`, as operators on its state |
| `HciPool_proof` | lemmas about these operators, for every size of pool; no theorem of a specification |
| `SerialTransport` | SLIP frames, the reliable packets of `hci_transport.c`, the slots of `dfu_transport_serial.c`, the scheduler, and the host |
| `SerialTransport_proof` | safety of `SerialTransport`, for every script, wire, pool and modulus |
| `BleTransport` | `dfu_transport_ble.c` and `ble_dfu.c`, the link, the receive pool, and the host |
| `BleTransport_proof` | safety of `BleTransport`, for every image, pool, receipt interval and number of lost links |
| `SdSwap` | the move of a received SoftDevice or bootloader into its place, page by page |
| `SdSwap_proof` | no page is lost and finished is whole, for every size and any number of power failures |
| `BootMode` | `main`, `check_dfu_mode` and the end of `wait_for_events`, with user, application, USB and power |
| `BootMode_proof` | the decision is the right one, for every set of boards and any number of resets |
| `MCPStorage`, `MCDfuBank`, `MCUf2Disk`, `MCSerialTransport`, `MCBleTransport`, `MCSdSwap`, `MCBootMode` | the instances that TLC checks |

Each module details one part and takes the others by what they promise:

- `SerialTransport` and `BleTransport` end where `DfuBank` begins. Of the update code they
  keep the few states that decide which packets are refused; of the transports
  `DfuBank` keeps that packets come one at a time and in any order.
- Both transports use the same `HciPool`: the serial one through reception, the BLE one
  as a store for packets on their way to the flash.
- `SdSwap` is what `DfuBank` does in the one step `ContinueSdUpdate`. That it may be one
  step, although the power can fail in the middle, is what `SwappedIsWhole` and
  `SwapEnds` say: the boots in between start no application, and the one that gets to
  the end leaves what a single step would.
- `BootMode` has the decision that is a free choice in `DfuBank`, and an update as a few
  steps that erase, complete or give up.

`DfuBank` is not composed with `PStorage` itself but with its abstract
specification: it takes `Program` from `INSTANCE FlashFifo`, appends its commands
to `pending`, and models what the clients' callbacks do when the oldest command is
finished. That is sound as far as `PStorage` implements `FlashFifo`, which is
proved, and it keeps the product of both state spaces out of TLC's way.

Definitions marked *mutant* in the modules are changed versions of the definition
that follows them, each the way a plausible bug would change the code (a guard
dropped, an off-by-one, a page not erased). No specification uses them; with one
of them in place of the original, the property that `PROJECT.json` names with it
fails under the same configuration. They show that the properties can fail.

## 3. PStorage: the queue of flash commands

**State and actions.** The variables are those of `m_cmd_queue` and
`m_round_val`, plus the SoftDevice (`sd`, the operation it works on; `evt`, the event
it has raised) and `notifying`, the slot whose client callback is running.
`pstorage_sys_event_handler` is split at its `app_notify`: `SysEventFinished` is the
part before it, `CallbackReturns` the part after, and in between only
`CallbackEnqueue`, a client that comes back in with another command, can run. All
other handlers are one action each. A command covers several flash sectors, one
`sd_flash_*` call each (`SysEventNextRound`). A failed operation is reported to the
clients of this program, which answer with `APP_ERROR_CHECK`, a reset.

`FlashFifo` says what clients may rely on: commands are carried out in the order in
which they were accepted, one sector at a time and each once; a command leaves the
queue after its last sector; a reset forgets the queue and may tear the one sector
that was being programmed. Flash is NOR flash: a store to a sector that is not
erased leaves garbage.

**Runs.**

| run | instance | shows |
|---|---|---|
| `pstorage_safety` | 2 sectors, 2 contents, 3 slots; the SoftDevice accepts, is busy, refuses, succeeds, fails; power failures | `WindowIsOccupied`: a slot is free exactly when it is outside the window at `rp`; `FlagMatchesFlight`: `flash_access` is up exactly while an operation or its event is outstanding; `FlightIsHead`: what is in flight is the next sector of the oldest command; `ImplementsFifo`: the refinement |
| `pstorage_live` | as above with one content, a SoftDevice that takes and completes operations, no power failures; fairness | `EveryCommandNotified`: each accepted command leads to its client's notification |

That an idle SoftDevice is never busy is an assumption of `pstorage_live` and not of
the code: without it the property fails (section 10).

**Bounds.** With three slots the ring wraps round, is full, is empty, and has an
element on each side of the one that is freed; two sectors give commands of one and
of two rounds, which is both sides of `command_finished`. The proofs of section 11
are for every size. One limit is in a guard, not in a bound: a callback does not fill
the queue to the last slot (`CallbackEnqueue`), because the element it put there would
be freed with the finished one. The one client that enqueues from a callback adds
two commands to a queue of 18, before it has accepted a data packet.

**Fairness.** The SoftDevice finishes what it took, the main loop polls events
(`proc_soc`), and a callback returns. No fairness is assumed of clients, nor of a
failing or busy SoftDevice.

## 4. DfuBank: an update over BLE or serial

**State.** The variables are the statics of `dfu_single_bank.c` and `bootloader.c`
under their own names, plus: `pending`, `progress`, `flash` (the abstract queue and the
flash: the bank's pages, the settings page, and the page below the bank), `cache`
(the page cached by `flash_nrf5x.c`), `timer` (the inactivity timer runs, its expiry
waits in the scheduler's queue, or both), `phase` (how far `main` is), `gpregret`,
`ota` and `was_connected` (`main.c`), and `link` (BLE).

**Actions and the code.**

| actions | code |
|---|---|
| `ContinueSdUpdate`, `NoSdUpdate`, `CheckDfuMode` | `main`, `check_dfu_mode`; `forced` is a double reset or a button |
| `BleStart`, `BleInit`, `BleInitComplete`, `BleData`, `BleValidate`, `BleActivate`, `BleReset` | the opcodes of `dfu_transport_ble.c` with the handler in `dfu_single_bank.c` that each calls |
| `SerialStart`, `SerialInit`, `SerialData`, `SerialStop` | the packet types of `process_dfu_packet`, likewise |
| `Connect`, `Disconnect` | link events; the session goes on after a loss |
| `Program`, `CommandFinished` | the flash and the callbacks of the two storage clients (`BankCleared`, `SettingsSaved`) |
| `TimerExpires`, `Timeout` | the RTC interrupt, and the event it queued being handled |
| `LeaveDfu`, `StartApp`, `ResetInstead`, `AppResets` | the end of `wait_for_events`, of `check_dfu_mode` and of `main`; the application |
| `PowerFail` | RAM is lost; a page that was being programmed may be torn |

**What is abstracted.**
- One packet fills one page, of 4 bytes (`Word`); sizes are counted in pages and
  offsets in bytes, modulo `Modulus` in place of 2^32, so that the overrun mark and
  unaligned offsets are what they are in the code. Announced sizes that are no multiple
  of a word, which are refused like a combination that is not supported, are left out.
- Contents are (image, page) pairs. Equal CRCs are taken to mean equal contents.
  `dfu_init_prevalidate`'s verdict is the environment's choice.
- In serial mode the CPU programs the flash itself. It is modelled by the same
  queue, with a main loop that stands still until the queue is empty (`Listening`).
- A settings record, a few words, is written whole or not at all; erasing the
  settings and writing them are two steps with a reset possible in between. A page
  whose erase or write is cut may be left with anything in it, but the first page of
  the bank is taken to be erased at once: `bootloader_app_is_valid` looks at its first
  word only, so the code has no defence there.
- A store of the settings is queued with a pointer to a static buffer;
  `SettingsSave` therefore rewrites what is queued, and `QueuedStaysQueued` is the
  property that this never matters.
- Moving a received SoftDevice or bootloader is one step of `ContinueSdUpdate`; `SdSwap`
  has its pages.
- A host takes its init packet from the package it announced (`FromOnePackage`); its
  data packets may belong to any image. No run and no theorem is about hosts that announce
  a second image in mid-session (`StartsAgain` is FALSE in all of them): what such a start
  packet does before it is refused is in section 10, and is not covered by `UpdateIsComplete`.
- A BLE link does not come up between a final status and the look that
  `wait_for_events` takes at it.

**Runs.** All have a bank of two pages and a queue of four commands.

| run | instance | shows |
|---|---|---|
| `bank_safety` | an application, a SoftDevice, a bootloader, both at once, and images that are refused: an application and a bootloader that are too big, an application with a SoftDevice; BLE and serial; power failures, torn pages (but for the first page of the bank in its erase) | `NeverBootsPartial`: at whatever moment the chip is reset, the code takes the bank for a valid application only if a whole one is in it; `UpdateIsComplete`: settings that announce a SoftDevice or bootloader are in flash only when that image is, with its sizes; `CompleteMeansSaved`: a session that ends complete has its settings in flash; `ValidatedHolds`: what was validated stays in the bank; `QueuedStaysQueued`: a queued command stays what it was until it has been carried out, or a reset or the end of the session drops the queue; `StoresHitErased`: over the air, a page is written only when erased or already of that content |
| `bank_live` | an application and a SoftDevice, both transports, no power failures; fairness | once the host is silent: `SessionEnds`, `UpdateFinishes` (an announced update is taken up, finished, and its announcement withdrawn), `ActivatedAppStarts` |
| `bank_stale_status` | an application and a SoftDevice, both transports, no power failures | `CompletedByThisSession` fails (section 10) |

**Bounds.** With two pages a session has a first and a last packet that differ, an
image smaller than the bank (so that an older one is left over behind it), one that
fills it, and an overrun. Four commands hold the most that is ever queued: the two of
a settings save behind two stores, or the clear of the bank. `Modulus` = 32 leaves room
for the largest legal count (8), one more packet, and a distinct overrun mark (31).
`BootSize` = 1 is less than the bank, so that the limit for bootloaders is one of its own.

**Fairness** (`bank_live`). The flash carries out what is queued (section 3); the main
loop goes on from each phase; the timer runs out unless packets go on restarting it;
a timeout in the scheduler's queue is handled. Nothing is assumed of the host, which
may stop at any point; the properties are claimed from the moment on at which it has
stopped (`HostFallsSilent`), because a host that goes on sending keeps a session open.

## 5. Uf2Disk: an update by drag and drop

**State.** `wr_state` is `WriteState` of `uf2.h`; `cache` is the page cache with its
erasing flush; `flash` is the application's space in blocks of 256 bytes, of which a
page holds `PageBlocks`; `bootloader` is the running bootloader, `settings` the state of
bank 0, and `file` the file the host has begun to copy.

**Actions.** `WriteBlock(f, n)` is `tud_msc_write10_cb` for the sector that is block n of
file f: `write_block` with its early returns (family, address, board
identification in CF2 and UICR), the write to the cache, the mask and the count,
and the flush at the last block. The host writes sectors in any order and as often
as it likes. `WriteComplete` is `tud_msc_write10_complete_cb`: abort, complete an
application, or hand a new bootloader to the MBR, which moves it (also over a loss of
power) and resets. `Timeout` is `dfu_timeout_handler`: `dfu_init` starts the inactivity timer
in every session, and no UF2 write restarts it, so that it runs out six minutes after the
session began, also in mid-copy; the startup timer and the unplugged cable, which end a session
that nobody has written to, look the same here. `CheckDfuMode`, `LeaveDfu` (with
whatever is still in the cache lost) and `AppResets` are the ways between the modes.
`PowerFail` may cut any page write that a `WriteBlock` would make: after nothing, after the
erase, or after some of its blocks.

**Runs.** Pages of two blocks, an application's space of four, a bootloader of two.

| run | instance | shows |
|---|---|---|
| `uf2_copy` | ten files: applications (with blocks missing at the end of a page, blocks that belong to the MBR, as many blocks as `MAX_BLOCKS`, stray blocks), bootloaders (right, for another board, without UICR block, mixed); one file per session; power failures | `CompleteIsWhole`: an application that is reported complete is in flash whole; `BootloaderIsWhole`: the bootloader that runs is the old one or the whole of a file whose UICR address was checked and, where a block of it names a board, one names this board; `NeighboursKept`: only the file's own blocks change |
| `uf2_live` | the same files without the one as long as `MAX_BLOCKS` and the one with a stray block, no power failures; fairness | `CopyEnds`: a host that goes on writing completes its file unless a timer ends the session first: an application is reported complete; a bootloader is refused, is the one that runs already, or is given to the MBR |

**Bounds.** Two blocks to a page are what it takes to change one and keep the other;
two pages, to have one in the cache while a block of the other arrives. `MaxBlocks` = 4
is reached by the longest file, where `numBlocks` becomes 0xffffffff. The proofs are
for every size.

**Fairness.** The host goes on writing each block number of its file, and each of its commands
is brought to its end. `Timeout` has none: whether the six minutes are enough is a matter of
the host's speed, which the model leaves open. So `CopyEnds` shows that nothing but a timer can
keep such a file from completing. A file that cannot complete (too long, or
with blocks that have no place), and the session of a host that stops in mid-file, are ended by the
inactivity timer alone; nothing is claimed of them.

**Limits of the code that the model shows.** While an application is being overwritten
the settings still call the bank valid: after a cut `AppIsValid` may accept a partial
application. The inactivity timer has the same effect without a cut: a copy that is still going
on is given up, its cached page is lost, and what is there is started if `AppIsValid` accepts it.
No property claims otherwise; what is checked is that a later copy over
the remains completes whole.

## 6. SerialTransport: from the wire to the update code

**State.** `hci` is the state of reception (the sequence number expected, the buffer in
use, and which buffer SLIP has), `pool` the record of `m_rx_buffer_queue`, `slots` and
`count` the `m_data_queue` of `dfu_transport_serial.c`, `sched` the number of queued
scheduler events. `pc` is where the main loop is; `toDevice`, `toHost` and `tx` are the
wire. `handled` and `accepted` are for the properties.

**Actions.**

| actions | code |
|---|---|
| `RxPacket` (`NewPacket`, `OldPacket`, `Overflow`), `RxDamaged` (`BadPacket`, `ShortFrame`) | a frame is complete: `slip_event_handle`, `hci_transport_event_handle`, the receive callback `rpc_transport_event_handler` with the allocation of a slot and of a scheduler event |
| `TxDone` | the last byte of an acknowledgement has left the UART |
| `SchedTakes`, `SchedEmpty` | `app_sched_execute` |
| `WhileNotEmpty`, `SkipSlot`, `HandlePacket` | the passes of `process_dfu_packet` over the slots |
| `FreeLoad`, `FreeStore`, `FreeClear` | `data_queue_element_free`, with `count--` as the load and the store that it is |
| `TaskDone`, `FlushSlot` | the rest of `wait_for_events`; the flush on closing |
| `HostSends`, `HostReads`, `AckLost` | the host: one packet at a time, again until it is acknowledged |

Over USB frames are received in `tud_task`, a place of its own in the main loop. On a
UART they are received in an interrupt, between any two of the steps above. Both
builds are in the one run.

**What is abstracted.** A packet is its type and its number. Escaping and CRC are a
frame that is whole, damaged, too long, or cut down to a few bytes. `HciPool` keeps
`free_index` as a set of bits. The pool's consume is one step, also in a UART build. The
CDC FIFO has room for the acknowledgements that one `tud_task` causes.

**Run.**

| run | instance | shows |
|---|---|---|
| `serial_link` | four hosts: a plain update, one with a packet of no type and one more packet after the STOP, one with a packet of no type after the STOP, and one that sends no update (a STOP after the START); USB and UART; frames and acknowledgements damaged on the UART; fairness | `AcceptedOnce`: whatever the wire does, packets are taken once and in order, never more than one ahead of the host; `PoolConserved`: the counts of the pool always add up to its buffers; over USB, for hosts that send an update (`IsUpdate`), `UsbHandledInOrder`: each packet reaches the update code, once and in order, before the next is taken, and nothing resets the device; `UsbBuffersApart`: SLIP never writes into a buffer that a slot uses, and until the update is complete every buffer no slot uses is free again; `UsbSessionEnds` |
| `serial_count` | UART only | `CountMatchesSlots` fails (section 10) |

**Why the properties differ by build.** Over USB the host's wait for its acknowledgement
and the place of `tud_task` in the loop together keep the slots empty when a packet
comes. None of this is so on a UART, and the model reaches what follows from it:
packets are handled in the order of their slots and not of their arrival (26 steps), a
packet that was acknowledged is dropped when the slots are full, and a buffer given back
twice is not known to the pool, which `APP_ERROR_CHECK` turns into a reset (33 steps).
The condition `IsUpdate` (one START, one INIT and one STOP in this order, data between the
last two, other packets anywhere) is needed too: a second START or INIT is refused with an error
that `APP_ERROR_CHECK` turns into a reset, and a STOP that does not end the update keeps its slot
for good (`dfu_transport_serial.c:240`), so that its buffer is out and the packet is handled again
with each event that follows; the host that sends no update is in the run for that reason.
After an overflow SLIP keeps the short buffer, which no vendor packet fits, until a
frame of at most five bytes comes. Boards with USB are built for USB; those with an
nRF52832 have a UART.

**Bounds.** The pool has four buffers and the scheduler three places, so that the wire, the
slots and the scheduler can each be the one that is full; the ring of the pool wraps
round. Two frames under way in each direction suffice for a repeated packet behind the
original. Sequence numbers modulo 2 are the smallest that tell one packet from the next,
and the hardest: 914 247 states.

**Fairness.** The main loop goes on, the host repeats and reads, the UART sends, and a frame
that is under way again and again is received (strong fairness of `RxPacket`, because
reception is enabled in `tud_task` only). Damage is never fair.

## 7. BleTransport: the DFU service and its host

**State.** The statics of `dfu_transport_ble.c` under their own names; `pool` and `rx_buffer`;
`events`, the SoftDevice's queue of BLE events; `air` and `cccd`, what the radio does and
whether the host has subscribed, both of which can be ahead of what the code has been
told; `notes`, notifications under way; `queue`, `done` and `flash`, as the queue of
`FlashFifo`; `bank`, what of the update code decides about responses; `turn`, the order in
which `proc_sd_task` asks (`main.c` 579: flash events only when no BLE event is left). `taken`
and `refused` are history: the data packets accepted, in order, and whether one was refused. No
action depends on them; the properties are about them, because what a host is told is about
packets that the device has counted, not about those the host meant.

**Actions.** `OnConnected` and `OnDisconnected` are `on_ble_evt`, `ControlRefused` and the
other `On...` the control point (`ble_dfu.c`, `on_dfu_evt`), `PacketIgnored`, `StartData`, `InitData`
and `AppData` the packet characteristic, `BankCleared`, `PacketStored`, `SettingsErased` and
`SettingsSaved` the callbacks of the flash, `Timeout` the inactivity timer, `Leave` the end of
`wait_for_events`. The host follows a script and waits where the protocol tells it to; it
comes back after a loss, asks how far it has come or begins again, and may write without
waiting (`MaxStrays`) or lose the link (`MaxLosses`).

**What is abstracted.** One packet is one unit of the image, and a host that follows its script
never sends more than it has announced; what it writes out of turn may be a data packet whose
length is no multiple of a word (`"odd"`), which is refused as it is. Whether an init packet
overflows `m_init_packet` is left open: `InitData` may refuse any. The clear of the bank is one command. Errors of the flash are
`PStorage`'s. Calls to the SoftDevice on a link that is gone, while its last event still
waits, may fail or be swallowed: both are tried. The timer expires once. The advertising
timeout has a handler, but `APP_ADV_TIMEOUT` (`.../dfu_transport_ble.c:56`) is unlimited:
it never comes. Bonding, security requests and the device information service hold
nothing of the update.

**Run.**

| run | instance | shows |
|---|---|---|
| `ble_session` | an image of four packets, a pool of two buffers, receipt intervals 0 and 2; one loss of the link, one stray write; fairness | `StoresKept`: a queued store finds in its buffer the packet it was queued with; `ReceiptsHold`: every packet counted in a receipt or report is in flash at its place or queued for it; `TakenInOrder`: as long as no packet was refused, those counted are the first of the image, in order and each once, across losses of the link and resumptions; `FinalMeansStored`: a host that is told that the image was received finds all that was taken in flash, in that order, and one that is told that it is valid finds the image; `QueueHasRoom`: `pstorage_store` never finds its queue full while data arrive; `NeverDark`: once the events are handled, handle, flag and radio agree, and a device that was not told to stop can be reached; `HostAnswered`: a host that waits is answered, or loses the link, or the session ends |

Receipts are sent when a packet has been accepted, not when it is in flash, so they do
not bound the buffers in use. A host that is too fast finds the pool empty and gets an
error; that is why the pool is smaller than the image here.

**Bounds.** Two buffers for four packets make each buffer be used again while stores wait, and
leave room for a packet that is refused in the middle, a loss of the link and a resumption
behind it; the two intervals are no receipt, and one in mid-stream whose count starts again. One
loss at any moment, with everything that was sent before still queued, and one write out of
turn. Sessions end, so the run does not look for deadlocks.

**Fairness.** BLE events and flash events are fetched in their turn, the flash works, a
notification arrives while the link holds, a disconnection that was asked for happens.
Nothing is assumed of what the host writes, of the timer or of the connection.

## 8. SdSwap: moving a SoftDevice over its own source

**State.** `flash` in pages from `SOFTDEVICE_REGION_START` on, with the contents *old*,
*new*, erased and torn; `update`, what the settings ask for; `bootloader`, the contents of its
region; `pc`, which of the functions runs, who called it, the block and the page.

**Actions.** `Validate`, `Swap`, `Clear`/`Cleared` (a page copied onto itself), `Descend` and
`Copied` (`dfu_sd_img_block_swap` on its way down and up), `ErasePage` and `WritePage` (the
MBR's copy), `CheckBl`, `CopyBl`, `Finalize`; `PowerFails` leads back to `Validate` from every
one of them.

**How the code survives.** The source begins where the installed SoftDevice ends
(`offset_calculate`, `.../dfu_single_bank.c:182`, is not called), so a larger SoftDevice is moved
over its own source. The move goes in three blocks, and the next boot compares them from
the last one back to find how far it had come. A page of the old SoftDevice that happens
to be equal to the new one can deceive that comparison, so the middle block is cleared
first ("This will clear a page thus ensuring the old image is invalidated before
swapping.", line 707).

**Assumptions.** The installed SoftDevice has at least six pages, and the information
structure is in the third (true of every S132 and S140). Images are whole pages.
`SizeAssumption`: the new one is at most half as large again. `DifferAssumption`: a new one of
exactly one page more differs in a page of the middle block; the size that `SD_SIZE_GET` reads
counts the MBR's page and the size it is compared with does not, so that such a move
goes without the clearing.

**Run.** `sd_swap`: SoftDevices of six and seven pages replaced by ones of four to ten, with
five choices of pages in common, with and without a bootloader, and a bootloader alone;
two power failures. `NoPageLost`: each page of the new SoftDevice is at its source or in its
place. `SwappedIsWhole`: when the settings stop asking, everything is in its place. `SwapEnds`:
they do, however many boots it takes (with fairness of the boot's own steps). Two
failures are a failure and one in the repair of it; the proofs are for any number.

## 9. BootMode: what a reset leads to

**State.** What survives a reset: `gpregret`, `resetpin` (the latched reset reason), `dbl_reset` (the
word in RAM); what is in flash: `app`, `sd_update`; where `main` is (`pc`), the locals of
`check_dfu_mode` (`mode`), what `wait_for_events` looks at (`session`), the cable (`vbus`). `last`, `owed`
and `sd_inits` record for the properties what happened.

**Actions.** `FinishSdUpdate`, `CheckDfuMode`, `EnterMode`, `Launch` and `ResetAgain` are `main` and
`check_dfu_mode`, split at the 500 ms in which a second press is waited for. `Mount`,
`Activity`, `OtaConnects`, `UpdateErases`, `UpdateWrites`, `UpdateCompletes`, `UpdateAborts`, `TimerFires`
(the startup timer), `InactivityTimeout` (the timer of `dfu_init`, in any session), `UnplugSeen` and
`LoopExit` are a session and its ends. Erasing and writing change the word in the bank by which an
application asks for the bootloader; `session.rewritten` records that a session has done so. `AppResets`, `AppJumps` and `AppClearsResetReas` are the
application, `PinReset`, `PowerLoss` and `Cable` the user.

**Assumptions.** A reset by the pin clears GPREGRET and keeps the RAM, except on the
nRF52832. A SoftDevice is installed. The watchdog resets from the application only.
Presses that come before an earlier one has been decided on count as one with it. The
startup timer does not fire in a session whose status is already final, which the same
pass of the loop leaves.

**Run.** `boot_mode`, for four kinds of board (plain, with a DFU button, over the air by default,
nRF52832), with three resets or power failures from outside; the application, the host
and the cable are free. `DoubleReset`: a session is put down to a double reset exactly when
the second press came within the delay after the first. `OtaResumes`: after the bootloader's
own reset out of a connected session, the next session is over the air again. `InitOnce`: the
SoftDevice is initialised exactly once between two chip resets on every way to the application
or a session over the air. `TapSwaps`: where the application asks for it, one press swaps
between it and the bootloader (not out of a session that has changed the application). `TimeoutReturns`, `UnplugLeaves`: a session with a timer, or one kept open
for USB, is left. `Settles`: no endless round of resets. Three events are a press, its second
and one more at a bad moment; the proofs are for any number. Nothing in this model may
deadlock.

**Fairness.** `main` and the loop go on, and a running startup timer fires; nothing is asked of the
inactivity timer. Nobody has to press, plug, connect or send.

## 10. What the code does not keep

Two runs in which TLC finds a behaviour of the model that breaks what a comment in the
code says; `PROJECT.json` quotes the lines.

| run | what happens |
|---|---|
| `bank_stale_status` | The finalization of a SoftDevice update leaves `m_update_status` at `BOOTLOADER_COMPLETE`; a session in the same boot ends before it has begun. |
| `serial_count` | On a UART, `m_data_queue.count--` in the main loop is interrupted between its load and its store by the `count++` of the receive callback, which is lost: the queue believes itself empty with a packet in a slot. |

The following are of the same kind. The properties that fail are in the modules, and each
instance below lets TLC show it in a few seconds; no run is kept for them.

| where, and what is said | what happens | how to see it |
|---|---|---|
| `pstorage_raw.c` 200-209; `pstorage.h:277-279`: "This API however, does not block until the clear procedure is complete. The application is notified of procedure completion using a notification callback registered by the application." | An idle SoftDevice answers *busy* to the first command. `cmd_queue_enqueue` returns success, and nothing starts the command until another one is enqueued. | `pstorage_live` with `"BUSY"` added to `SdReplies`: `EveryCommandNotified` |
| `.../dfu_single_bank.c:411-412`: "This will ensure that all future application data packet writes will be blocked because of the above check." | After an overrun `m_data_received` is 0xFFFFFFFF. Adding the next packet's length wraps, the check passes, and in serial mode the packet is written from one byte below the bank on. Over BLE `pstorage_store` refuses the unaligned address with `NRF_ERROR_INVALID_ADDR` (`pstorage_raw.c:463`), and nothing is stored. | `bank_stale_status` with `Modes = {"serial"}`, `AppImages` and `AppHost`: `OverrunBlocksWrites` |
| `.../dfu_single_bank.c:319-370`; `.../dfu.h:53-55`: "If multiple images are to be transferred within the same update context then this function must be called with size information for each image being transfered." | A start packet that is refused in mid-session has already replaced the sizes and the activation function. | `bank_stale_status` with `StartsAgain = TRUE`: `UpdateIsComplete` |
| `.../dfu_single_bank.c:588`: "Stop the DFU Timer because the peer activity need not be monitored any longer." | A timeout that is already in the scheduler's queue survives `app_timer_stop` and hits the session while it saves its settings. | `bank_stale_status` with `NotMonitoredOnceActivated` |
| `msc_uf2.c:199`: "All block of uf2 file is complete --> complete DFU process" | The set of written blocks is keyed by block number only: blocks of a second file with as many blocks complete the first. Likewise `boot_id_matches` (`ghostfat.c:525`) is only ever set, so that one block that names this board speaks for a whole session. | `uf2_copy` with `ManyFiles = TRUE`, no power failures: `OneFileCompletes`, 6 states |
| `.../dfu_transport_ble.c:823-826`: "Restart advertising so that the DFU Controller can reconnect if possible." | The link is lost while the bank is being erased. The device advertises again; then the clear's callback sends its response, which fails with `NRF_ERROR_INVALID_STATE` (`ble_dfu.c:637`), and `APP_ERROR_CHECK` resets it. No valid application is left and GPREGRET has been cleared, so unless the board has `DEFAULT_TO_OTA_DFU` the next session is one over USB or the serial line. | `ble_session` with `MaxStrays = 0`: `AdvertisesToReconnect`, 15 states |
| `.../dfu_transport_ble.c:492`; `ble_dfu.h:226`: "Number of bytes of firmware image received." | A packet that finds the pool empty is refused while those behind it are accepted. The count, from which a host goes on after a loss of the link, is then no prefix of the image: what the host sends next completes the length but not the image, and the host is told that everything was received. Validation finds it out by the CRC, after the whole transfer. | `ble_session` with `ReportIsPrefix`, 42 states |
| `.../dfu_single_bank.c:653-655`: "neccesarry to swap the new SoftDevice in 3 rounds to ensure correct copy of data and verification of data in case power reset occurs during write to flash" | A SoftDevice that is more than half as large again overwrites source pages of its middle block in the last one; a power failure there loses them. | `SdSwap` without `SizeAssumption`, 6 pages replaced by 10: `NoPageLost` |

## 11. Proofs

Everything below is checked by TLAPS for every value of the constants that satisfies
the named assumptions of the module (`PStorageAssumption`, `DfuBankAssumption`,
`Uf2DiskAssumption`, `BootAssumption`, `PoolSizeAssumption`, `SerialAssumption`, `BleAssumption`, and
the four of `SdSwap`), plus the one assumption
stated with it. In each case TLC checked the inductive invariant before it was proved.
Type correctness is not among the runs' properties where it is proved, in the seven modules
with a theorem `TypeCorrect`.

**PStorage** (`PStorage_proof`). The inductive invariant `IInv` is `TypeOK`,
`WindowIsOccupied`, `FlagMatchesFlight` and `FlightIsHead`, with three facts that no run
needs to name. `OneAtATime`: an operation and an event never coexist; without it the
flag could be up for two reasons and be put down for one. `HeadUnfinished`: `m_round_val`
is below the rounds of the command at `rp`, which makes `Queued` and `Done` advance
together. `NotifyingIsBehind`: the slot whose callback runs is the one just behind the
window, which leaves it out; that is what makes freeing it harmless. `TypeCorrect`, `NoCommandLost`, `FlagCorrect` and
`FlightCorrect` follow.

**PStorage implements FlashFifo** (theorem `Refinement`). The
mapping reads the ring as a sequence: `pending` is the `count` slots from `rp` on,
`progress` is `m_round_val`, or one more once the SoftDevice has reported success.
`SdFinish("ok")` is the abstract `Program`, `SysEventFinished` the abstract `Retire`, an
enqueue is `Submit`, resets are `Lose`, and the rest stutters. The invariant above
says for each step that what the ring does to one slot is what the sequence does at
its head or its end.

**DfuBank** (`DfuBank_proof`, theorem `TypeCorrect`). `TypeOK` is inductive as it
stands, under the assumption that a host announces one image per session
(`StartsAgain = FALSE`). It says more than that variables have their types: the
received count is an offset inside the bank or the overrun mark, whatever sizes a
host announces and whatever it sends; only commands for the bank, the page below it
and the settings are ever queued; the announced length fits the bank in every state
past IDLE, and something is then to be activated. Hosts that announce twice break the
last of these (section 10), hence the assumption.

**DfuBank, safety** (theorems `BootsWhole`, `AnnouncesWhole` and
`ValidatedStays`), under the same assumption, and with names that identify images
(part of `DfuBankAssumption`; a page's content is a name and a number). What is
proved is `NeverBootsPartial`, `UpdateIsComplete` and `ValidatedHolds`. Cuts may tear every page but
the first of the bank, which is taken to be erased at once (section 4). The first two
are not inductive: that a torn erase or a cut save does no harm depends on what was
queued before it. The invariant `IInv` follows a session:

- Outside a session nothing is queued, and the settings promise only what is there
  (`PhaseInv`). While an announcement is withdrawn at the next boot, the bank still
  holds what was announced, which no boot takes for an application (`FinalizeInv`).
- The bank is erased from its first page on (`PreparingInv`), so that whatever was
  there is no application any more as soon as anything has happened to it. Here a
  page that is erased last instead of first would break the proof.
- When the bank is clear, settings that claim nothing are queued, and the packets come
  behind them (`ReceivingInv`): until the settings are harmless the first page is still
  erased, afterwards nothing in the bank can be taken for an application.
- Over the air, a page with a store in the queue is still erased and no two stores are for
  one page (`StreamInv`). So when `PostValidate` finds every page as it should be, every
  store of the image has been carried out, the settings too, and what the queue can
  still hold is a finished command (`ValidatedInPlace`). In serial mode the queue is
  empty then.
- From there on only saves of what the announced image calls for are queued
  (`ValidatedInv`, `AnnouncedInv`): erased, the settings announce nothing; written,
  they announce the image that is there.

**DfuBank, what is queued** (theorems `CompleteIsSaved`, `QueuedStays` and
`StoresAreClean`), under the same assumption and on top of `IInv`. What is proved is
`CompleteMeansSaved`, `QueuedStaysQueued` and `StoresHitErased`. The additional invariant is
`Saves`:

- `ErasedFirst`: a store of the settings stands right behind an erase of their page, or is
  first with that page erased. Each `bootloader_settings_save` queues both at once; what has to
  be shown is that nothing slips between them and no second save comes before the store is out.
- `SaveBeforePackets`: the first page of the bank is still erased while the settings that
  go with its clearing are in the queue, because the packets are queued behind them.
- `StatusInv`: outside an activation nobody waits for a save, and a `BOOTLOADER_COMPLETE` found
  over the air is the one left over by the finalization, with no link and no packet yet.
- `SavingInv`: after validation the queue holds either nothing but a command that has been
  carried out, or exactly the two commands of the save, with what the static buffer holds now
  and the link closing or closed. Without the link a host could activate twice, and the
  second save would take the first one's callback for its own.

The last one gives `CompleteMeansSaved` at once. `QueuedStaysQueued` is about steps: one lemma,
`NextSaves`, shows that every step of `Next` leaves the queue alone, drops it, carries out or takes
off its first command, or appends for the bank, and that a save which rewrites the buffer
finds nothing queued that is still to be carried out. `StoresHitErased` splits by where the store
goes: settings by `ErasedFirst`, the bank by `StreamInv`.

**Uf2Disk** (`Uf2Disk_proof`: `TypeCorrect`, `CompleteCorrect`, `BootloaderCorrect`,
`NeighboursCorrect`), under the assumption of one file per session
(`ManyFiles = FALSE`; section 10 shows that it is needed). What is counted is in
flash *or in the cache*, so the invariant speaks of `View`, the flash as it will be
once the cached page is written back: each block in `writtenMask` is in `View` at its
address, `numWritten` is the size of `writtenMask`, and `numBlocks` is that of the file or
out of reach. When the count reaches the number of blocks the mask is all of
them (a set of n numbers below n), the flush has made `flash` equal `View`, and the
parts about the flags of a bootloader update say which checks were passed on the way.
The address arithmetic rests on one lemma about quotient and remainder.

**SdSwap** (`SdSwap_proof`), for every size of the SoftDevices, every set of pages in common
and any number of power failures. The invariant says where the new SoftDevice is in terms of its three
blocks: `Sources` (source pages outside the target are never written), `FirstKept` (those inside it,
the first ones, go only once the first two blocks are in place) and `Tells` (a middle block that is in
place means that the first is, or the sizes tell that nothing has begun). `Tells` is the heart: a
boot knows only what it can compare, and it is what the clearing of pages is for. `Clearing`,
`Comparing`, `Copying` and `Finishing` say for each place of the program which blocks are
done. Both assumptions on sizes are used exactly here: `SizeAssumption` so that the last block overwrites no
source of the middle one, `DifferAssumption` for `Tells` in the one case without clearing.

**BootMode** (`BootMode_proof`), for every set of boards and any number of resets. The
properties relate a decision to an event one or two resets ago, so the invariant follows each
word from where it is written to where it is read: `Initialised` (how often the SoftDevice has been
initialised, as a function of the jump's word and `sd_inited`), `Owing` (what is owed to a host
over the air is in the register, then in the decision), `Pressed` (the double-reset word
is there during the delay and until the second press has been decided on, and never
otherwise) and `Tapped` (the same word with its other value tells a session from
the application). Each word being cleared in a different place is what makes them
necessary.

**HciPool** (`HciPool_proof`). What a step back and a step on in the ring are (`BackFacts`, `BackApart`),
and what produce, extract and consume do to each field of the pool (`Produced`, `WasExtracted`,
`WasConsumed`). The loop that gives buffers back looks at one position over and over, so a consume
gives back none, one or all of the buffers extracted; that is `GivenBack`, and both transports
are proved with it as it is.

**SerialTransport, both builds** (`SerialTransport_proof`: `TypeCorrect`, `TakenOnce`, `PoolKept`), for every
script, wire, pool and modulus above 1. `WireInv` is what holds on the wire: `Frames` (the frames under way are
of the host's packet and of the one before it, older ones first; once the host's packet has been taken no older
one is left) and `Acks` (acknowledgements, in the output and on the line, ask for the host's packet and then
for the next one, which nobody asks for before it is due). With consecutive numbers different modulo
`SeqModulus` (`SeqNrNext`; `%` by quotient and remainder) this makes the check of the sequence number and the
host's check of an acknowledgement exact. `LoopInv` says that an event under way is still counted and an element being freed is still
in use; types need it, because `sched - 1` and the buffer of a slot would otherwise have none.

**SerialTransport over USB** (`UsbInOrder`, `UsbApart`), for hosts that send an update and pools of at least
three buffers; the code has 16 (`src/src/sdk_config.h:67`). Three is what is needed at the moment when one
packet more comes after the STOP: one buffer each for both slots and one for SLIP. The invariant `UsbInv` names the shapes that
the pool and the slots can have (`NoSlot`, `OneSlot`, `TwoSlots`, `Skipped`: how many buffers are out,
which, and what `free_index` and the four counts are then) and the situations of the main loop (`Quiet`, `Pending`, `Freeing`,
`Freed`, `Ended`, `Late`, `Later`), each with its shape, its count, its events and how far the update code is.
`Handled` is the heart: what the update code was given, what is in its image and in which state
it is are all functions of how much of the script was taken. Since the host sends an update, no packet is ever refused
(`NextHandled`), so that no error resets the device. `Unread` says why the slots are empty when a packet comes:
after one was taken its acknowledgement stays in the output until the loop has come round.

**BleTransport** (`BleTransport_proof`: `TypeCorrect`, `BuffersKept`, `CountedIsKept`, `SuccessIsStored`,
`QueueNeverFull`, `StaysReachable`, `TakenInTurn`), for every pool, image, receipt interval and number of
losses and strays, with no other assumption. For all but the last no step needs what the host's script
says. The parts of their invariant:

- `LinkInv`: which connection events wait in the queue, as a function of radio, handle and flag. When
  none is left it is `NeverDark`.
- `CountInv`: the count is the number of packets taken, and how many there can be in each state.
- `QueueInv`, `PoolInv`, `FlashInv`: behind at most two commands of a save there are `k` stores, of the last `k` packets taken, each
  with the buffer it was queued with; the buffers extracted from the pool are those `k`, then `r` that were
  refused and are clear; what was taken before them is in flash. Refused buffers stay out because
  consume gives back from the oldest on: that is why `r` is needed. Buffers of refused packets lie behind
  the stores and can pile up only where nothing is accepted any more. From it follow `StoresKept`, the length of the queue, and that `consume` always finds its buffer.
- `NotesInv`: a note under way holds now and goes on to hold; the steps keep it by `ToldLasts`.

`TakenInTurn` is about `TakenInOrder`: until a packet is refused, those taken are the first of the image, in order
and each once. It is not inductive, and neither is it with the above: what is taken next was written long
before, by a host that went on from what a receipt or a report told it about still earlier packets. Its
invariant `OrderInv` adds `Unbroken`, which holds while the session lasts and nothing was refused, and relates the host's place in
its script, the writes under way to the device, what the device has counted and the notes on their way back:

- `ConnInv`, `BeginInv`: what there can be on a link before its host has subscribed and after it is gone, and
  where in the script the host waits for nothing. A link that is torn down or lost leaves its writes in the queue, and these
  still come before the report that the next link asks for.
- `PacketsInv`: a packet of sizes or an init packet stands behind the request that it belongs to, so what is taken
  while `m_pkt_type` is `FW` is data.
- `ToldInv`, `CntInv`: the receipt interval is known before the bank is prepared, and from the first packet on the countdown is the
  interval less the packets taken modulo the interval (`Aligned`; lemma `NextMod`). So device and host agree on which packets get
  a receipt, also after a resumption at any count.
- `BlockInv`: the data packets under way are one block of successive packets that begins with the next one to be taken,
  or with one that will be dropped because no data is expected yet.
- `SendInv`: while the host writes data, the block under way ends with its last write; it does not write past a packet whose
  receipt it waits for, there is at most one receipt under way and nothing behind it, and while a report is awaited no packet
  is under way, so its count is still right when it arrives.

The proof does not go through the 33 actions seven times: `StepKinds` says once that every step is of one of ten kinds
(`Does`), by what it does to these variables, and the lemmas `Moves` to `CntMoves` what each kind does to the queues.

**Only model-checked:** liveness (`EveryCommandNotified`, `SessionEnds`, `UpdateFinishes`,
`ActivatedAppStarts`, `CopyEnds`, `UsbSessionEnds`, `HostAnswered`, `SwapEnds`, `TimeoutReturns`,
`UnplugLeaves`, `Settles`), which depends on fairness and on `ENABLED`, out of the prover's reach
here. Every safety invariant and every action property without fairness that a passing run checks is proved.

## 12. Not modelled

- **The list of timers** and the tick arithmetic of `app_timer.c`. In timed sessions that are not
  over the air two timers run side by side, `m_dfu_timer` of `dfu_init` and
  `_dfu_startup_timer` (`bootloader.c:405-420`). What each of them does, with start, stop, expiry
  and an expiry that is already queued, is in `DfuBank`, `BootMode`, `Uf2Disk` and `BleTransport`; that the
  list runs each of them out in its time is taken for granted.
- **The scheduler's ring** as such: its events are counted, with the refusal of a full ring
  (`SerialTransport`); the SoftDevice's event in it is the main loop's turn (`BleTransport`).
- **Sending application packets** over HCI (the transmit state machine of `hci_transport.c`
  and its retransmission timer): the bootloader sends acknowledgements only.
- **The second place** where `dfu_bl_image_validate` looks for a bootloader, that of a
  dual-bank layout.
- **The dual-bank variant** (`dfu_dual_bank.c`): not compiled into the shipped builds.
- **`SIGNED_FW` checks**: off in the shipped builds.
- **BLE bonding, security requests, the device information service**, and the record of peer
  data that the application leaves in RAM (`dfu_ble_svc.c`): who may connect is not the update's
  correctness, and the host of `BleTransport` may be anybody.
- **The read side of the UF2 disk** (the synthesized FAT image): a function of constants
  and the flash, with no state.
- **Boards, LEDs, display, descriptors, drivers, logging**: no state an update depends on.

Most lines of the repository are declarations and third-party code: the headers of
five SoftDevice releases, CMSIS, SEGGER RTT, vendor drivers, board descriptions. They have no
behaviour of this program to model, so the modules cover a small share of the
repository's lines; what they leave out of the code that takes part in an update is
listed above.

## 13. What could come next

1. An abstract update session (announced, received, validated, activated, saved) that
   `DfuBank` implements; the invariants `PhaseInv` to `SavingInv` of its proof are what that would
   rest on.
2. The composition of `BleTransport` with `PStorage` in place of its own queue.
3. `app_timer.c` with the list of its two timers.
