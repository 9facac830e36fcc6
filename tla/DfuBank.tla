------------------------------- MODULE DfuBank -------------------------------
(***************************************************************************)
(* The single-bank firmware update: dfu_single_bank.c and bootloader.c,    *)
(* with the boot path of main.c around them and the flash below them.      *)
(*                                                                         *)
(* A session starts at a reset.  The code looks at the page of bootloader  *)
(* settings, finishes an update of the SoftDevice or of the bootloader if  *)
(* one is under way, and starts the application or waits for a host: over  *)
(* BLE (ota) or over the serial transport.  In ota mode flash commands go  *)
(* to the queue of pstorage_raw.c and the main loop goes on; in serial     *)
(* mode the CPU writes the flash itself, which is modelled by the same     *)
(* queue with a main loop that stands still until it is empty.             *)
(*                                                                         *)
(* All handlers run from the scheduler in the main loop: one action each.  *)
(* The SoftDevice programs flash, timers expire and power fails between.   *)
(***************************************************************************)
EXTENDS Naturals, Sequences

CONSTANTS
  Images,      \* [name, kind, sd, bl, app]: what a host may send, or may find
  HostImages,  \* the images a host may send
  BankSize,    \* pages of DFU_IMAGE_MAX_SIZE_FULL
  BootSize,    \* pages of DFU_BL_IMAGE_MAX_SIZE
  QueueSize,   \* PSTORAGE_CMD_QUEUE_SIZE
  Modulus,     \* 2^32: m_data_received is a uint32_t
  Modes,       \* the magic values an application writes to GPREGRET
  StartsAgain, \* TRUE when a host may announce an image in mid-session
  Tears,       \* what a power failure can leave half done: "erase", "write"
  PowerFails   \* TRUE when the supply may fail at any moment

\* What an update mode names: one, or several images.
Kinds == (SUBSET {"app", "sd", "bl"}) \ {{}}

\* One packet fills one page of 4 bytes: sizes are in pages, offsets in bytes.
Size(i) == i.sd + i.bl + i.app
Word    == 4
Top     == Modulus - 1

ASSUME DfuBankAssumption ==
  /\ BankSize \in Nat \ {0}
  /\ BootSize \in Nat
  /\ QueueSize \in Nat /\ QueueSize >= 3
  /\ Modulus \in Nat /\ Modulus > Word * (BankSize + 2)
  /\ Modulus % Word = 0
  /\ HostImages \subseteq Images
  /\ \A i \in Images : /\ i.kind \in Kinds
                       /\ {i.sd, i.bl, i.app} \subseteq Nat
                       /\ Size(i) > 0
  /\ \A i, j \in Images : i.name = j.name => i = j
  /\ Modes \subseteq {"ota", "serial"}
  /\ StartsAgain \in BOOLEAN
  /\ Tears \subseteq {"erase", "write"}
  /\ PowerFails \in BOOLEAN

\* Flash: the bank, the settings page, and the page below the bank.
Settings == BankSize
Below    == BankSize + 1
Bank     == 0 .. BankSize - 1

Chunk(i, k) == <<i.name, k>>

\* bootloader_settings_t.  bank_0_crc is always 0, "not checked": m_image_crc
\* is never computed.
Codes == {"VALID_APP", "VALID_SD", "VALID_BOOT", "INVALID_APP", "EMPTY", "none"}
ImageSizes == {i.sd : i \in Images} \cup {i.bl : i \in Images} \cup {0}
Record == [bank_0 : Codes, bank_1 : Codes, sd : ImageSizes, bl : ImageSizes]
NoRecord == [bank_0 |-> "none", bank_1 |-> "none", sd |-> 0, bl |-> 0]

Data == {Chunk(i, k) : i \in Images, k \in Bank}
        \cup {<<"settings", r>> : r \in Record}

VARIABLES
  \* the flash and the commands for it
  pending, progress, flash,
  cache,            \* _fl_addr and _fl_buf of flash_nrf5x.c, or NoCache
  \* dfu_single_bank.c
  m_dfu_state, m_start_packet, m_activate, m_image_size, m_data_received,
  m_init_packet,    \* the image whose CRC m_init_packet holds, or NoImage
  m_dfu_timed_out,
  timer,            \* the DFU timer is "running", its event is "queued", or both
  \* bootloader.c
  m_update_status,
  settings,         \* the static buffer of bootloader_dfu_update_process
  \* main.c and the BLE link
  phase,            \* how far main() has come
  gpregret,         \* NRF_POWER->GPREGRET, which survives a reset
  ota,              \* _ota_dfu
  link,             \* "down", "up", or "closing" once a disconnect is under way
  was_connected     \* _ota_was_connected

flashVars   == <<pending, progress, flash, cache>>
sessionVars == <<m_dfu_state, m_start_packet, m_activate, m_image_size,
                 m_data_received, m_init_packet>>
clockVars   == <<m_dfu_timed_out, timer>>
bootVars    == <<m_update_status, settings>>
mainVars    == <<phase, gpregret, ota, link, was_connected>>
vars == <<flashVars, sessionVars, clockVars, bootVars, mainVars>>

Fifo == INSTANCE FlashFifo WITH NumSectors <- BankSize + 2,
                                Capacity <- QueueSize

\* What a store of settings puts into the page.
Saved(rec) == Fifo!Stored(<<"settings", rec>>)

NoCache == [page |-> BankSize + 2, value |-> Fifo!Erased]
NoImage == [name |-> "none", kind |-> {}, sd |-> 0, bl |-> 0, app |-> 0]

-----------------------------------------------------------------------------
(* The settings page and what the code reads from it. *)

SettingsInFlash ==
  CASE flash[Settings] = Fifo!Erased ->
         [bank_0 |-> "EMPTY", bank_1 |-> "EMPTY", sd |-> 0, bl |-> 0]
    [] flash[Settings] = Fifo!Garbage -> NoRecord
    [] OTHER -> flash[Settings][2][2]

\* The bank holds the whole of image i.
Holds(i) == /\ Size(i) <= BankSize
            /\ \A k \in 0 .. Size(i) - 1 : flash[k] = Fifo!Stored(Chunk(i, k))

\* The first words look like the vector table of an application: those of a
\* SoftDevice or a bootloader point outside the bank.
PlausibleVectors ==
  \E i \in Images : i.kind = {"app"} /\ flash[0] = Fifo!Stored(Chunk(i, 0))

\* mutant: settings that are not there count as good ones.
AppIsValidAnyVectors ==
  /\ flash[0] # Fifo!Erased
  /\ SettingsInFlash.bank_0 \in {"VALID_APP", "EMPTY", "none"}

AppIsValid ==
  /\ flash[0] # Fifo!Erased
  /\ \/ SettingsInFlash.bank_0 = "VALID_APP"
     \/ SettingsInFlash.bank_0 = "EMPTY" /\ PlausibleVectors

SdInProgress == \/ SettingsInFlash.bank_0 = "VALID_SD"
                \/ SettingsInFlash.bank_1 = "VALID_BOOT"

-----------------------------------------------------------------------------
(* Flash commands.  pstorage_store does not copy the data: a queued store of
   the settings reads the static buffer when it is carried out.            *)

Clear(page, n)      == [op |-> "clear", addr |-> page, rounds |-> n,
                        data |-> Fifo!Erased]
Store(page, value)  == [op |-> "store", addr |-> page, rounds |-> 1,
                        data |-> value]
StoresSettings(c)   == c.op = "store" /\ c.addr = Settings

\* mutant: the page is not erased first.
SettingsSaveUnerased(queue, rec) == queue \o <<Store(Settings, Saved(rec))>>

\* bootloader_settings_save of the buffer with the new content rec.
SettingsSave(queue, rec) ==
  [n \in DOMAIN queue |-> IF StoresSettings(queue[n])
                            THEN Store(Settings, Saved(rec))
                            ELSE queue[n]]
  \o <<Clear(Settings, 1), Store(Settings, Saved(rec))>>

\* mutant: the new application is not marked valid.
AppCompleteUnmarked == [settings EXCEPT !.bank_1 = "INVALID_APP"]

\* bootloader_dfu_update_process, one definition for each status that saves.
AppComplete ==
  [settings EXCEPT !.bank_0 = "VALID_APP", !.bank_1 = "INVALID_APP"]
SdComplete ==
  [bank_0 |-> "VALID_SD", bank_1 |-> "INVALID_APP",
   sd |-> m_start_packet.sd, bl |-> m_start_packet.bl]
BootComplete ==
  [bank_0 |-> SettingsInFlash.bank_0, bank_1 |-> "VALID_BOOT",
   sd |-> m_start_packet.sd, bl |-> m_start_packet.bl]

\* mutant: the page goes on saying that a SoftDevice is to be moved.
SdSwappedKeepsBank0 ==
  [bank_0 |-> SettingsInFlash.bank_0, bank_1 |-> "INVALID_APP",
   sd |-> 0, bl |-> 0]

SdSwapped ==
  [bank_0 |-> IF SettingsInFlash.bank_0 = "VALID_SD" THEN "INVALID_APP"
              ELSE SettingsInFlash.bank_0,
   bank_1 |-> "INVALID_APP", sd |-> 0, bl |-> 0]
Bank0Erased ==
  [settings EXCEPT !.bank_0 = "INVALID_APP", !.bank_1 = SettingsInFlash.bank_1]

\* m_functions.activate.
Activated == CASE m_activate = "app" -> AppComplete
               [] m_activate = "sd"  -> SdComplete
               [] m_activate = "bl"  -> BootComplete

-----------------------------------------------------------------------------
(* Resets. *)

SessionInit ==
  /\ m_dfu_state = "off"
  /\ m_start_packet = NoImage
  /\ m_activate = "none"
  /\ m_image_size = 0
  /\ m_data_received = 0
  /\ m_init_packet = NoImage
  /\ m_dfu_timed_out = FALSE
  /\ timer = {}
  /\ m_update_status = "UPDATING"
  /\ settings = NoRecord
  /\ ota = FALSE
  /\ link = "down"
  /\ was_connected = FALSE

\* All RAM as at power-up, and the flash commands in it gone.
ClearRam ==
  /\ m_dfu_state' = "off"
  /\ m_start_packet' = NoImage
  /\ m_activate' = "none"
  /\ m_image_size' = 0
  /\ m_data_received' = 0
  /\ m_init_packet' = NoImage
  /\ m_dfu_timed_out' = FALSE
  /\ timer' = {}
  /\ m_update_status' = "UPDATING"
  /\ settings' = NoRecord
  /\ ota' = FALSE
  /\ link' = "down"
  /\ was_connected' = FALSE
  /\ pending' = <<>>
  /\ progress' = 0
  /\ cache' = NoCache

\* NVIC_SystemReset with the magic value that is to be found after it.
SystemReset(magic) ==
  /\ ClearRam
  /\ phase' = "boot"
  /\ gpregret' = magic
  /\ UNCHANGED flash

\* The flash of a device with image i in the bank and s in the settings page.
Delivered(i, s) ==
  [p \in Bank \cup {Settings, Below} |->
     CASE p = Settings -> s
       [] p \in Bank /\ p < Size(i) -> Fifo!Stored(Chunk(i, p))
       [] OTHER -> Fifo!Erased]

\* The device is delivered without an application, with one put there by a
\* debugger, which leaves no settings, or with one that a DFU installed.
Init ==
  /\ SessionInit
  /\ pending = <<>>
  /\ progress = 0
  /\ cache = NoCache
  /\ phase = "boot"
  /\ gpregret = "none"
  /\ \/ flash = Delivered(NoImage, Fifo!Erased)
     \/ \E i \in Images \ HostImages :
          /\ i.kind = {"app"} /\ Size(i) <= BankSize
          /\ flash \in {Delivered(i, Fifo!Erased),
                        Delivered(i, Saved([NoRecord EXCEPT
                                       !.bank_0 = "VALID_APP",
                                       !.bank_1 = "INVALID_APP"]))}

-----------------------------------------------------------------------------
(* The flash works on the queue, whatever the code is doing. *)

\* A page of the oldest command is erased or written.
Program == Fifo!Program /\ UNCHANGED <<cache, sessionVars, clockVars,
                                       bootVars, mainVars>>

\* mutant: the settings go on calling the bank what it was.
BankClearedUnsaved ==
  /\ pending' = Tail(pending)
  /\ m_dfu_state' = "RDY"
  /\ UNCHANGED <<m_start_packet, m_activate, m_image_size, m_data_received,
                 m_init_packet, m_update_status, settings>>

\* The bank is clear: pstorage_callback_handler of the bank reports it with
\* DFU_BANK_0_ERASED, which saves new settings, and waits for an init packet.
BankCleared ==
  /\ settings' = Bank0Erased
  /\ pending' = SettingsSave(Tail(pending), Bank0Erased)
  /\ m_dfu_state' = "RDY"
  /\ UNCHANGED <<m_start_packet, m_activate, m_image_size, m_data_received,
                 m_init_packet, m_update_status>>

\* pstorage_callback_handler of the settings: the update has completed.
SettingsSaved ==
  /\ m_update_status' = "COMPLETE"
  /\ pending' = Tail(pending)
  /\ UNCHANGED <<sessionVars, settings>>

\* The oldest command has finished and the client that sent it is told.
CommandFinished ==
  /\ pending # <<>>
  /\ progress = Head(pending).rounds
  /\ progress' = 0
  /\ LET c      == Head(pending)
         bank   == c.op = "clear" /\ c.addr # Settings
                   /\ m_dfu_state = "PREPARING"
         saving == StoresSettings(c) /\ m_update_status = "SETTINGS_SAVING"
     IN  \/ bank /\ BankCleared
         \/ saving /\ SettingsSaved
         \/ /\ ~bank /\ ~saving
            /\ pending' = Tail(pending)
            /\ UNCHANGED <<sessionVars, bootVars>>
  /\ UNCHANGED <<flash, cache, clockVars, mainVars>>

\* The supply fails.  A page being erased or written may be left as neither;
\* a settings record is a few words and is taken to be written whole, and the
\* first page of the bank, which says that there is an application, to be
\* erased at once.
PowerFail ==
  /\ PowerFails
  /\ ClearRam
  /\ phase' = "boot"
  /\ gpregret' = "none"
  /\ \/ UNCHANGED flash
     \/ /\ pending # <<>>
        /\ progress < Head(pending).rounds
        /\ \/ /\ Head(pending).op = "clear" /\ "erase" \in Tears
              /\ Head(pending).addr + progress # 0
           \/ /\ Head(pending).op = "store" /\ "write" \in Tears
              /\ ~StoresSettings(Head(pending))
        /\ flash' = [flash EXCEPT ![Head(pending).addr + progress] =
                                    Fifo!Garbage]

-----------------------------------------------------------------------------
(* Starting up: main() and check_dfu_mode(). *)

\* main: an update of the SoftDevice or the bootloader is under way; the images
\* are moved into place and bootloader_dfu_sd_update_finalize saves that.
ContinueSdUpdate ==
  /\ phase = "boot"
  /\ SdInProgress
  /\ m_update_status' = "SETTINGS_SAVING"
  /\ settings' = SdSwapped
  /\ pending' = SettingsSave(pending, SdSwapped)
  /\ phase' = "finalize"
  /\ UNCHANGED <<progress, flash, cache, sessionVars, clockVars, gpregret, ota,
                 link, was_connected>>

\* main: nothing is under way, or the wait_for_events of the finalization ends.
NoSdUpdate ==
  /\ \/ phase = "boot" /\ ~SdInProgress
     \/ phase = "finalize" /\ m_update_status = "COMPLETE"
  /\ phase' = "mode"
  /\ UNCHANGED <<flashVars, sessionVars, clockVars, bootVars, gpregret, ota,
                 link, was_connected>>

\* check_dfu_mode: asked for by the application, by the user (forced: a double
\* reset or the DFU button) or for want of an application, dfu_init and the
\* transport are started.  Otherwise there is nothing to wait for.
CheckDfuMode(forced) ==
  /\ phase = "mode"
  /\ gpregret' = "none"
  /\ IF gpregret # "none" \/ forced \/ ~AppIsValid
       THEN /\ phase' = "dfu"
            /\ ota' = (gpregret = "ota")
            /\ m_dfu_state' = "IDLE"
            /\ timer' = {"running"}
       ELSE /\ phase' = "exit"
            /\ UNCHANGED <<ota, m_dfu_state, timer>>
  /\ UNCHANGED <<flashVars, m_start_packet, m_activate, m_image_size,
                 m_data_received, m_init_packet, m_dfu_timed_out, bootVars,
                 link, was_connected>>

-----------------------------------------------------------------------------
(* The packet handlers of dfu_single_bank.c, as both transports call them. *)

\* In serial mode the loop stands still while the CPU works on the flash.
Listening == phase = "dfu" /\ (ota \/ pending = <<>>)

\* dfu_timer_restart: once the event has been handled it returns an error.
RestartTimer == timer' = timer \cup {"running"} /\ UNCHANGED m_dfu_timed_out

\* An application comes alone.  (An image of a size that is no number of words,
\* which is refused in the same way, is left out.)
NotSupported(i) == "app" \in i.kind /\ i.kind # {"app"}
TooLarge(i)     == i.bl > BootSize \/ Size(i) > BankSize

StartFails(i) == \/ NotSupported(i) \/ TooLarge(i)
                 \/ m_dfu_state # "IDLE"
                 \/ m_dfu_timed_out

\* A host takes the init packet from the package it announced; the data it then
\* sends may still be anything.
FromOnePackage(i) == m_start_packet \in {NoImage, i}

\* mutant: the last page of the bank is left as it is.
PrepareOnePageLess(i) == Clear(0, Size(i) - 1)

\* dfu_prepare_func_app_erase: the pages the image needs are erased.
Prepare(i) == Clear(0, Size(i))

\* dfu_start_pkt_handle.  What it remembers of the packet it remembers before
\* it looks at the state.
StartPacket(i) ==
  /\ m_start_packet' = i
  /\ m_image_size' = IF NotSupported(i) THEN m_image_size ELSE Word * Size(i)
  /\ m_activate' = CASE NotSupported(i) \/ TooLarge(i) -> m_activate
                     [] OTHER -> IF "sd" \in i.kind THEN "sd"
                                 ELSE IF "bl" \in i.kind THEN "bl" ELSE "app"
  /\ IF StartFails(i)
       THEN UNCHANGED <<m_dfu_state, pending, clockVars>>
       ELSE /\ m_dfu_state' = "PREPARING"
            /\ pending' = Append(pending, Prepare(i))
            /\ RestartTimer
  /\ UNCHANGED <<progress, flash, cache, m_data_received, m_init_packet>>

\* dfu_init_pkt_handle.  The CRC is found at a place that the first packet
\* determines; a later one is appended, or refused, and changes nothing here.
InitPacket(i) ==
  /\ IF m_dfu_state \in {"RDY", "RX_INIT_PKT"}
       THEN /\ m_dfu_state' = "RX_INIT_PKT"
            /\ IF m_dfu_timed_out
                 THEN UNCHANGED <<m_init_packet, clockVars>>
                 ELSE /\ m_init_packet' = IF m_init_packet = NoImage THEN i
                                          ELSE m_init_packet
                      /\ RestartTimer
       ELSE UNCHANGED <<m_dfu_state, m_init_packet, clockVars>>
  /\ UNCHANGED <<flashVars, m_start_packet, m_activate, m_image_size,
                 m_data_received>>

\* dfu_init_pkt_complete.  dfu_init_prevalidate has its say on device type,
\* unlock code and SoftDevice: verdict.
InitComplete(verdict) ==
  /\ IF m_dfu_state = "RX_INIT_PKT"
       THEN IF verdict /\ m_init_packet # NoImage
              THEN m_dfu_state' = "RX_DATA_PKT" /\ UNCHANGED m_init_packet
              ELSE m_init_packet' = NoImage /\ UNCHANGED m_dfu_state
       ELSE UNCHANGED <<m_dfu_state, m_init_packet>>
  /\ UNCHANGED <<flashVars, clockVars, m_start_packet, m_activate,
                 m_image_size, m_data_received>>

\* The sum of two uint32_t.
Received(n) == LET sum == m_data_received + n
               IN  IF sum > Top THEN sum - Modulus ELSE sum

\* pstorage_store: it refuses an address that is not word aligned, and a full
\* queue makes the handler wait for room.
OtaWrite(i) ==
  /\ UNCHANGED cache
  /\ IF m_data_received % Word = 0
       THEN LET k == m_data_received \div Word
            IN  /\ Len(pending) < QueueSize
                /\ pending' = Append(pending,
                                     Store(k, Fifo!Stored(Chunk(i, k))))
                /\ m_data_received' = Received(Word)
       ELSE UNCHANGED <<pending, m_data_received>>

\* flash_nrf5x_flush(false).
Flush(c) == IF c = NoCache THEN <<>> ELSE <<Store(c.page, c.value)>>

\* flash_nrf5x_write, which flushes the page it leaves, and with the last packet
\* flash_nrf5x_flush.  A packet that is not aligned straddles two pages; the
\* offset Top is one byte below the bank.
SerialWrite(i) ==
  /\ m_data_received' = Received(Word)
  /\ IF m_data_received % Word = 0
       THEN LET k == m_data_received \div Word
                written == [page |-> k, value |-> Fifo!Stored(Chunk(i, k))]
                last == m_data_received' = m_image_size
            IN  /\ pending' = Flush(cache) \o
                              (IF last THEN Flush(written) ELSE <<>>)
                /\ cache' = IF last THEN NoCache ELSE written
       ELSE LET first  == IF m_data_received = Top THEN Below
                          ELSE m_data_received \div Word
                second == IF m_data_received = Top THEN 0 ELSE first + 1
            IN  /\ pending' = (IF cache.page = first THEN <<>> ELSE Flush(cache))
                              \o <<Store(first, Fifo!Garbage)>>
                /\ cache' = [page |-> second, value |-> Fifo!Garbage]

\* dfu_data_pkt_handle for the next packet of image i.
DataPacket(i) ==
  /\ IF m_dfu_state # "RX_DATA_PKT"
       THEN UNCHANGED <<m_data_received, pending, cache, clockVars>>
       ELSE IF Received(Word) > m_image_size
       THEN m_data_received' = Top /\ UNCHANGED <<pending, cache, clockVars>>
       ELSE IF m_dfu_timed_out
       THEN UNCHANGED <<m_data_received, pending, cache, clockVars>>
       ELSE RestartTimer /\ IF ota THEN OtaWrite(i) ELSE SerialWrite(i)
  /\ UNCHANGED <<progress, flash, m_dfu_state, m_start_packet, m_activate,
                 m_image_size, m_init_packet>>

\* mutant: the CRC is not compared.
PostValidateSize == m_image_size = Word * Size(m_init_packet)

\* dfu_init_postvalidate compares the CRC of what is in flash now.  Contents
\* with equal CRCs are taken to be equal.
PostValidate ==
  /\ m_image_size = Word * Size(m_init_packet)
  /\ Holds(m_init_packet)

\* mutant: the image is not looked at.
ValidatedUnseen ==
  IF m_dfu_state = "RX_DATA_PKT" /\ m_data_received = m_image_size
    THEN "WAIT_4_ACTIVATE" ELSE m_dfu_state

\* The state in which dfu_image_validate leaves the session.
Validated ==
  IF m_dfu_state = "RX_DATA_PKT" /\ m_data_received = m_image_size
    THEN IF ~m_dfu_timed_out /\ PostValidate THEN "WAIT_4_ACTIVATE"
                                             ELSE "VALIDATE"
    ELSE m_dfu_state

ImageValidate ==
  /\ m_dfu_state' = Validated
  /\ IF m_dfu_state' # m_dfu_state /\ ~m_dfu_timed_out
       THEN RestartTimer ELSE UNCHANGED clockVars
  /\ UNCHANGED <<flashVars, m_start_packet, m_activate, m_image_size,
                 m_data_received, m_init_packet>>

\* dfu_image_activate in WAIT_4_ACTIVATE: the timer is stopped and the settings
\* are saved.  There is room: all earlier commands have been carried out.
ImageActivate ==
  /\ timer' = timer \ {"running"}
  /\ settings' = Activated
  /\ pending' = SettingsSave(pending, Activated)
  /\ m_update_status' = "SETTINGS_SAVING"
  /\ UNCHANGED <<progress, flash, cache, m_dfu_timed_out>>

\* mutant: wait_for_events does not know of the timeout.
FinalNoTimeout == {"COMPLETE", "SYS_RESET", "RESET_TO_SELF"}

\* A status with which wait_for_events returns.
Final == {"COMPLETE", "TIMEOUT", "SYS_RESET", "RESET_TO_SELF"}

-----------------------------------------------------------------------------
(* The BLE host, seen through dfu_transport_ble.c. *)

BlePeer == Listening /\ ota /\ link \in {"up", "closing"}

BleStart(i)  == /\ BlePeer
                /\ StartsAgain \/ m_dfu_state = "IDLE"
                /\ StartPacket(i)
                /\ UNCHANGED <<bootVars, mainVars>>
BleInit(i)   == /\ BlePeer
                /\ FromOnePackage(i)
                /\ InitPacket(i)
                /\ UNCHANGED <<bootVars, mainVars>>
BleInitComplete(verdict) ==
  BlePeer /\ InitComplete(verdict) /\ UNCHANGED <<bootVars, mainVars>>
BleData(i)   == BlePeer /\ DataPacket(i) /\ UNCHANGED <<bootVars, mainVars>>
BleValidate  == BlePeer /\ ImageValidate /\ UNCHANGED <<bootVars, mainVars>>

\* dfu_transport_ble_close: a second disconnect is an error, and APP_ERROR_CHECK
\* resets the chip.
BleCloseFails == link = "closing"
BleClose ==
  /\ ~BleCloseFails
  /\ link' = IF link = "up" THEN "closing" ELSE "closed"
  /\ UNCHANGED <<phase, gpregret, ota, was_connected>>

\* dfu_reset: back into the bootloader if data is still expected.
DfuReset ==
  /\ m_update_status' =
       IF m_dfu_state = "RX_DATA_PKT" /\ m_data_received # m_image_size
         THEN "RESET_TO_SELF" ELSE "SYS_RESET"
  /\ UNCHANGED <<flashVars, sessionVars, clockVars, settings>>

\* BLE_DFU_ACTIVATE_N_RESET.
BleActivate ==
  /\ BlePeer
  /\ IF BleCloseFails THEN SystemReset(gpregret)
     ELSE /\ BleClose
          /\ IF m_dfu_state = "WAIT_4_ACTIVATE"
               THEN ImageActivate /\ UNCHANGED sessionVars
               ELSE DfuReset

\* BLE_DFU_SYS_RESET.
BleReset ==
  /\ BlePeer
  /\ IF BleCloseFails THEN SystemReset(gpregret) ELSE BleClose /\ DfuReset

\* A host connects to the advertising device; the link is lost, and unless the
\* code is tearing it down the device advertises again with the session as is.
\* To come up a link takes longer than wait_for_events takes to look at a final
\* status; the packets already there are handled before it does.
Connect ==
  /\ phase = "dfu" /\ ota /\ link = "down"
  /\ m_update_status \notin Final
  /\ link' = "up"
  /\ was_connected' = TRUE
  /\ UNCHANGED <<flashVars, sessionVars, clockVars, bootVars, phase, gpregret,
                 ota>>
Disconnect ==
  /\ phase = "dfu" /\ link \in {"up", "closing"}
  /\ link' = IF link = "up" THEN "down" ELSE "closed"
  /\ UNCHANGED <<flashVars, sessionVars, clockVars, bootVars, phase, gpregret,
                 ota, was_connected>>

-----------------------------------------------------------------------------
(* The serial host, seen through process_dfu_packet: an error of a start or of
   an init packet resets the chip, one of a data packet is ignored.          *)

SerialHost == Listening /\ ~ota

SerialStart(i) ==
  /\ SerialHost
  /\ IF StartFails(i) THEN SystemReset(gpregret)
     ELSE StartPacket(i) /\ UNCHANGED <<bootVars, mainVars>>

\* dfu_init_pkt_handle, then dfu_init_pkt_complete.
SerialInit(i, verdict) ==
  /\ SerialHost
  /\ FromOnePackage(i)
  /\ IF /\ m_dfu_state \in {"RDY", "RX_INIT_PKT"}
        /\ verdict /\ ~m_dfu_timed_out
       THEN /\ m_dfu_state' = "RX_DATA_PKT"
            /\ m_init_packet' = i
            /\ RestartTimer
            /\ UNCHANGED <<flashVars, m_start_packet, m_activate, m_image_size,
                           m_data_received, bootVars, mainVars>>
       ELSE SystemReset(gpregret)

SerialData(i) == SerialHost /\ DataPacket(i) /\ UNCHANGED <<bootVars, mainVars>>

\* dfu_image_validate and, whatever it says, dfu_image_activate.
SerialStop ==
  /\ SerialHost
  /\ IF Validated = "WAIT_4_ACTIVATE"
       THEN /\ ImageActivate
            /\ m_dfu_state' = Validated
            /\ UNCHANGED <<m_start_packet, m_activate, m_image_size,
                           m_data_received, m_init_packet, mainVars>>
       ELSE ImageValidate /\ UNCHANGED <<bootVars, mainVars>>

-----------------------------------------------------------------------------
(* The end of a session. *)

\* The RTC interrupt puts the timeout into the scheduler's queue.
TimerExpires ==
  /\ "running" \in timer
  /\ timer' = {"queued"}
  /\ UNCHANGED <<flashVars, sessionVars, m_dfu_timed_out, bootVars, mainVars>>

\* dfu_timeout_handler, and DFU_TIMEOUT in bootloader_dfu_update_process.
Timeout ==
  /\ Listening
  /\ "queued" \in timer
  /\ IF ota /\ BleCloseFails THEN SystemReset(gpregret)
     ELSE /\ m_dfu_timed_out' = TRUE
          /\ timer' = timer \ {"queued"}
          /\ m_update_status' = "TIMEOUT"
          /\ IF ota THEN BleClose ELSE UNCHANGED mainVars
          /\ UNCHANGED <<flashVars, sessionVars, settings>>

\* wait_for_events returns and check_dfu_mode disables the SoftDevice; what it
\* had not yet done of the queue is not done any more.
LeaveDfu ==
  /\ Listening
  /\ m_update_status \in Final
  /\ phase' = "exit"
  /\ pending' = <<>>
  /\ progress' = 0
  /\ UNCHANGED <<flash, cache, sessionVars, clockVars, bootVars, gpregret, ota,
                 link, was_connected>>

\* The end of main: to the application, or to a reset that goes on with OTA if
\* somebody was connected.
StartApp ==
  /\ phase = "exit"
  /\ m_update_status # "RESET_TO_SELF" /\ AppIsValid /\ ~SdInProgress
  /\ ClearRam
  /\ phase' = "app"
  /\ UNCHANGED <<flash, gpregret>>
ResetInstead ==
  /\ phase = "exit"
  /\ ~(m_update_status # "RESET_TO_SELF" /\ AppIsValid /\ ~SdInProgress)
  /\ SystemReset(IF was_connected THEN "ota" ELSE gpregret)

\* The application resets the chip, with a wish or without.
AppResets(magic) == phase = "app" /\ SystemReset(magic)

\* Whatever the host sends.
HostPacket ==
  \/ \E i \in HostImages :
       \/ BleStart(i) \/ BleInit(i) \/ BleData(i)
       \/ SerialStart(i) \/ SerialData(i)
       \/ \E verdict \in BOOLEAN : SerialInit(i, verdict)
  \/ \E verdict \in BOOLEAN : BleInitComplete(verdict)
  \/ BleValidate \/ BleActivate \/ BleReset
  \/ SerialStop

Next ==
  \/ Program \/ CommandFinished \/ PowerFail
  \/ ContinueSdUpdate \/ NoSdUpdate
  \/ \E forced \in BOOLEAN : CheckDfuMode(forced)
  \/ HostPacket \/ Connect \/ Disconnect
  \/ TimerExpires \/ Timeout
  \/ LeaveDfu \/ StartApp \/ ResetInstead
  \/ \E magic \in Modes \cup {"none"} : AppResets(magic)

Spec == Init /\ [][Next]_vars

\* The flash finishes what is queued, the main loop turns, and the timer runs
\* out unless packets go on restarting it.
Fairness ==
  /\ WF_vars(Program) /\ WF_vars(CommandFinished)
  /\ WF_vars(ContinueSdUpdate \/ NoSdUpdate)
  /\ WF_vars(\E forced \in BOOLEAN : CheckDfuMode(forced))
  /\ WF_vars(TimerExpires \/ HostPacket) /\ WF_vars(Timeout)
  /\ WF_vars(LeaveDfu) /\ WF_vars(StartApp \/ ResetInstead)

FairSpec == Spec /\ Fairness

-----------------------------------------------------------------------------
\* Type invariant.
BankContent     == {Fifo!Erased, Fifo!Garbage}
                   \cup {Fifo!Stored(Chunk(i, k)) : i \in Images, k \in Bank}
SettingsContent == {Fifo!Erased, Fifo!Garbage} \cup {Saved(r) : r \in Record}
Command ==
  [op : {"clear"}, addr : {0}, rounds : 1 .. BankSize, data : {Fifo!Erased}]
  \cup [op : {"store"}, addr : Bank \cup {Below}, rounds : {1},
        data : BankContent]
  \cup [op : {"clear"}, addr : {Settings}, rounds : {1}, data : {Fifo!Erased}]
  \cup [op : {"store"}, addr : {Settings}, rounds : {1},
        data : {Saved(r) : r \in Record}]

FlashType ==
  /\ flash \in [Bank \cup {Settings, Below} -> BankContent \cup SettingsContent]
  /\ flash[Settings] \in SettingsContent
  /\ pending \in Seq(Command)
  /\ progress \in 0 .. BankSize
  /\ cache \in [page : Bank, value : BankContent] \cup {NoCache}
SessionType ==
  /\ m_dfu_state \in {"off", "IDLE", "PREPARING", "RDY", "RX_INIT_PKT",
                      "RX_DATA_PKT", "VALIDATE", "WAIT_4_ACTIVATE"}
  /\ m_start_packet \in Images \cup {NoImage}
  /\ m_init_packet \in Images \cup {NoImage}
  /\ m_activate \in {"none", "app", "sd", "bl"}
  /\ m_image_size \in Nat
  /\ m_dfu_state \notin {"off", "IDLE"} =>
       m_activate # "none" /\ m_image_size <= Word * BankSize
  /\ m_data_received \in 0 .. Word * BankSize \cup {Top}
ClockType ==
  /\ m_dfu_timed_out \in BOOLEAN
  /\ timer \in SUBSET {"running", "queued"}
BootType ==
  /\ m_update_status \in {"UPDATING", "SETTINGS_SAVING"} \cup Final
  /\ settings \in Record
MainType ==
  /\ phase \in {"boot", "finalize", "mode", "dfu", "exit", "app"}
  /\ gpregret \in {"ota", "serial", "none"}
  /\ ota \in BOOLEAN /\ was_connected \in BOOLEAN
  /\ link \in {"down", "up", "closing", "closed"}
TypeOK == FlashType /\ SessionType /\ ClockType /\ BootType /\ MainType

\* Whatever moment the chip is reset at, the code takes the bank for a valid
\* application only if a whole application is in it.
NeverBootsPartial ==
  AppIsValid => \E i \in Images : i.kind = {"app"} /\ Holds(i)

\* Settings that announce a new SoftDevice or bootloader to the next boot are
\* in flash only when the whole image is, with its sizes.
UpdateIsComplete ==
  SdInProgress =>
    \E i \in Images : /\ Holds(i) /\ "app" \notin i.kind
                      /\ SettingsInFlash.sd = i.sd
                      /\ SettingsInFlash.bl = i.bl
                      /\ SettingsInFlash.bank_0 = "VALID_SD" <=> "sd" \in i.kind

\* A session that ends in COMPLETE has the settings it activated in flash: no
\* callback of an earlier save is taken for that of the last one.
CompleteMeansSaved ==
  phase = "dfu" /\ m_dfu_state = "WAIT_4_ACTIVATE"
    /\ m_update_status = "COMPLETE"
  => flash[Settings] = Saved(settings)

\* The oldest command has been carried out, and its client is still to be told.
Carried(n) == n = 1 /\ progress = pending[1].rounds

\* What is queued stays what it was until it has been carried out, or a reset or
\* the end of the session drops it: though a store of the settings is queued with
\* a pointer to a static buffer, that buffer is not written to before.
QueuedStaysQueued ==
  [][\/ pending' = <<>>
     \/ \A n \in 1 .. Len(pending) :
          \/ Carried(n)
          \/ \E m \in {n - 1, n} \cap (1 .. Len(pending')) :
               pending'[m] = pending[n]]_vars

\* What dfu_init_postvalidate found in the bank stays there until the chip is
\* reset: no write still queued, and no packet that comes late, spoils it.
ValidatedHolds ==
  phase = "dfu" /\ m_dfu_state = "WAIT_4_ACTIVATE" => Holds(m_init_packet)

\* NOR flash cannot set bits: over the air a page is written only when it is
\* erased or has that content already, whatever an earlier session, a crash or
\* an overrun left behind.
StoresHitErased ==
  [][(ota /\ progress' > progress /\ Head(pending).op = "store")
       => LET page == Head(pending).addr + progress
          IN  flash[page] \in {Fifo!Erased, Head(pending).data}]_vars

HostFallsSilent == <>[][~HostPacket]_vars

\* Once the host has fallen silent no session goes on for ever: no order of
\* packets, link losses and flash events leaves a timer stopped or an operation
\* unfinished that the bootloader waits for.
SessionEnds == HostFallsSilent => (phase = "dfu" ~> phase # "dfu")

\* An update of the SoftDevice or the bootloader that the settings announce is
\* taken up and finished, and the device then starts up without it.
UpdateFinishes ==
  HostFallsSilent => (SdInProgress ~> (phase = "mode" /\ ~SdInProgress))

\* An application whose activation is complete gets started, or is there to be
\* started if something resets the chip first.
ActivatedAppStarts ==
  HostFallsSilent =>
    ((m_update_status = "COMPLETE" /\ m_dfu_state = "WAIT_4_ACTIVATE"
        /\ m_activate = "app")
     ~> (phase = "app" \/ (phase = "mode" /\ AppIsValid)))

-----------------------------------------------------------------------------
(* What the sources say of the program and the program does not keep. *)

\* dfu_data_pkt_handle: an overrun blocks "all future application data packet
\* writes".  Then nothing is ever written outside the bank and the settings.
OverrunBlocksWrites == flash[Below] = Fifo!Erased

\* wait_for_events returns "when the final state of the firmware update is
\* reached": a session that ends in COMPLETE has activated something.
CompletedByThisSession ==
  [][phase = "dfu" /\ phase' = "exit" /\ m_update_status = "COMPLETE"
       => m_dfu_state = "WAIT_4_ACTIVATE"]_vars

\* dfu_image_activate: the timer is stopped because "the peer activity need not
\* be monitored any longer".
NotMonitoredOnceActivated == m_update_status = "SETTINGS_SAVING" => timer = {}
=============================================================================
