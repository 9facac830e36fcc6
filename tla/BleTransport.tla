---------------------------- MODULE BleTransport ----------------------------
(***************************************************************************)
(* The BLE transport: dfu_transport_ble.c with the DFU service ble_dfu.c,  *)
(* between a DFU controller (the host) and the update code.                *)
(*                                                                         *)
(* The SoftDevice queues events, which the main loop fetches one by one; a *)
(* link may be long gone when its last events are handled.  A data packet  *)
(* is copied into a buffer of the receive pool, and the flash command that *)
(* is queued for it holds a pointer to that buffer until the flash has     *)
(* been written.  The host waits for responses and receipts.               *)
(*                                                                         *)
(* Of the update code there is what decides about responses and buffers;   *)
(* DfuBank has the rest.  One packet is one unit of the image.             *)
(***************************************************************************)
EXTENDS HciPool, Sequences

CONSTANTS
  Total,      \* packets of the image
  Intervals,  \* packet receipt intervals that a host may ask for; 0: none
  MaxLosses,  \* bound on the losses of the link
  MaxStrays   \* bound on the writes of a host that does not wait

ASSUME BleAssumption ==
  /\ Total \in Nat \ {0}
  /\ Intervals \subseteq Nat
  /\ MaxLosses \in Nat
  /\ MaxStrays \in Nat

VARIABLES
  host,      \* [at, awaits, interval, losses, strays]
  \* the SoftDevice
  air,       \* "adv", "up", "closing" or "down": what the radio does
  cccd,      \* the host has enabled the notifications of the control point
  events,    \* BLE events that sd_ble_evt_get will return
  notes,     \* notifications under way to the host
  \* dfu_transport_ble.c
  m_conn_handle,                \* TRUE unless BLE_CONN_HANDLE_INVALID
  m_is_advertising, m_tear_down_in_progress, m_pkt_type,
  m_pkt_notif,                  \* [enabled, target, cnt]
  m_num_of_firmware_bytes_rcvd, \* in packets
  mp_final_packet,
  pool, rx_buffer,              \* hci_mem_pool.c, and what each buffer holds
  \* the update code, the flash and the main loop
  bank,      \* [state, received, timedOut]
  m_update_status,
  queue,     \* flash commands, the oldest first
  done,      \* the oldest has been carried out: its event waits
  flash,     \* which packet each unit of the bank holds
  turn,      \* what proc_sd_task asks for next: "ble" or "soc"
  \* history: no action depends on it
  taken,     \* the data packets accepted, in order
  refused    \* whether one was refused

stackVars == <<air, cccd>>
linkVars  == <<m_conn_handle, m_is_advertising, m_tear_down_in_progress>>
history   == <<taken, refused>>
dataVars  == <<m_pkt_type, m_pkt_notif, m_num_of_firmware_bytes_rcvd, mp_final_packet,
               history>>
poolVars  == <<pool, rx_buffer>>
flashVars == <<queue, done, flash>>
vars == <<host, stackVars, events, notes, linkVars, dataVars, poolVars, bank,
          m_update_status, flashVars, turn>>

Unit    == 0 .. Total - 1
Old     == Total + 1              \* what was in the bank before
Blank   == 0                      \* an erased unit
Overrun == Total + 1              \* m_data_received after an overrun

\* The queue of flash commands: PSTORAGE_CMD_QUEUE_SIZE is 18, the pool 16.
\* mutant: no room but for the pool.
QueueSizeTight == PoolSize
QueueSize      == PoolSize + 2

Write(op, n) == [op |-> op, n |-> n]
Control  == {"PRN", "START", "INIT", "INIT_COMPLETE", "FW", "VALIDATE",
             "ACTIVATE", "SYS_RESET", "SIZE"}
Packet   == {"sizes", "init", "data",
             "odd"}     \* of a length that is no multiple of 4
LinkOp   == {"connected", "disconnected"}

Response(proc, ok) == [type |-> proc, ok |-> ok, n |-> 0]
Receipt(n)         == [type |-> "receipt", ok |-> TRUE, n |-> n]
Report(n)          == [type |-> "report", ok |-> TRUE, n |-> n]

Command(op, buf, at, n) == [op |-> op, buf |-> buf, at |-> at, n |-> n]

\* bootloader_settings_save: a clear and a store of the settings page.
Save == <<Command("erase", NoBuffer, 0, 0), Command("save", NoBuffer, 0, 0)>>

Alive == m_update_status \notin {"FAULT", "OVER"}

-----------------------------------------------------------------------------
(* What a host writes, in order, and what it waits for. *)

Script(interval) ==
  << Write("PRN", interval), Write("START", 0), Write("sizes", 0),
     Write("INIT", 0), Write("init", 0), Write("INIT_COMPLETE", 0), Write("FW", 0) >>
  \o [k \in 1 .. Total |-> Write("data", k)]
  \o << Write("VALIDATE", 0), Write("ACTIVATE", 0) >>

FirstData == 8
LastData  == 7 + Total
Ends      == 10 + Total         \* the script has been written to its end
GaveUp    == 11 + Total

WaitsFor(at) ==
  CASE at = 3            -> "START"
    [] at = 6            -> "INIT"
    [] at = LastData     -> "RECEIVE"
    [] at = LastData + 1 -> "VALIDATE"
    [] at \in FirstData .. LastData - 1
       /\ host.interval # 0 /\ (at - 7) % host.interval = 0 -> "receipt"
    [] OTHER -> "none"

\* Where the script goes on once a procedure has succeeded.
After(proc) == CASE proc = "START"    -> 4
                 [] proc = "INIT"     -> 7
                 [] proc = "RECEIVE"  -> LastData + 1
                 [] proc = "VALIDATE" -> LastData + 2

\* dfu_transport_ble_update_start: the pool open, advertising.
Init ==
  /\ \E i \in Intervals :
       host = [at |-> 1, awaits |-> "none", interval |-> i, losses |-> 0, strays |-> 0]
  /\ air = "adv"
  /\ cccd = FALSE
  /\ events = << >>
  /\ notes = << >>
  /\ m_conn_handle = FALSE
  /\ m_is_advertising = TRUE
  /\ m_tear_down_in_progress = FALSE
  /\ m_pkt_type = "INVALID"
  /\ m_pkt_notif = [enabled |-> FALSE, target |-> 0, cnt |-> 0]
  /\ m_num_of_firmware_bytes_rcvd = 0
  /\ mp_final_packet = NoBuffer
  /\ pool = hci_mem_pool_open
  /\ rx_buffer = [b \in Buffer |-> Old]
  /\ bank = [state |-> "IDLE", received |-> 0, timedOut |-> FALSE]
  /\ m_update_status = "UPDATING"
  /\ queue = << >>
  /\ done = FALSE
  /\ flash = [u \in Unit |-> Old]
  /\ turn = "ble"
  /\ taken = << >>
  /\ refused = FALSE

-----------------------------------------------------------------------------
(* The host. *)

deviceVars == <<linkVars, dataVars, poolVars, bank, m_update_status, flashVars, turn>>

Connect ==
  /\ Alive /\ air = "adv"
  /\ air' = "up"
  /\ events' = Append(events, Write("connected", 0))
  /\ UNCHANGED <<host, cccd, notes, deviceVars>>

\* A host that comes back in the middle of the data asks how far it has come;
\* it may also begin again.
Subscribe ==
  /\ Alive /\ air = "up" /\ ~cccd
  /\ cccd' = TRUE
  /\ \/ /\ host.awaits = "link" /\ host.at \in FirstData .. LastData + 1
        /\ host' = [host EXCEPT !.awaits = "report"]
        /\ events' = Append(events, Write("SIZE", 0))
     \/ /\ host' = [host EXCEPT !.awaits = "none",
                                !.at = IF @ = GaveUp THEN @ ELSE 1]
        /\ UNCHANGED events
  /\ UNCHANGED <<air, notes, deviceVars>>

HostWrites ==
  /\ Alive /\ air = "up" /\ cccd
  /\ host.awaits = "none" /\ host.at < Ends
  /\ events' = Append(events, Script(host.interval)[host.at])
  /\ host' = [host EXCEPT !.at = @ + 1, !.awaits = WaitsFor(host.at)]
  /\ UNCHANGED <<stackVars, notes, deviceVars>>

\* It should wait, but it writes to the control point or an odd packet; or its
\* first write of all is a packet.
HostStrays ==
  /\ Alive /\ air = "up" /\ cccd /\ host.strays < MaxStrays
  /\ \/ /\ host.awaits # "none"
        /\ \E op \in (Control \ {"PRN", "INIT"}) \cup {"odd"} :
             events' = Append(events, Write(op, 0))
     \/ /\ host.awaits = "none" /\ host.at = 1 /\ host.losses = 0
        /\ events' = Append(events, Write("sizes", 0))
  /\ host' = [host EXCEPT !.strays = @ + 1]
  /\ UNCHANGED <<stackVars, notes, deviceVars>>

\* A host that has had an error resets the device.
HostResets ==
  /\ Alive /\ air = "up" /\ cccd
  /\ host.awaits = "none" /\ host.at = GaveUp
  /\ events' = Append(events, Write("SYS_RESET", 0))
  /\ host' = [host EXCEPT !.at = Ends]
  /\ UNCHANGED <<stackVars, notes, deviceVars>>

\* (What is said first counts: an error before all, a procedure that has led
\* further before one that was only waited for.)
Heard(note) ==
  IF ~note.ok THEN [host EXCEPT !.at = GaveUp, !.awaits = "none"]
  ELSE IF note.type = "report" /\ host.awaits = "report"
    THEN [host EXCEPT !.awaits = "none", !.at = FirstData + note.n]
  ELSE IF note.type \notin {"receipt", "report"} /\ After(note.type) > host.at
    THEN [host EXCEPT !.at = After(note.type), !.awaits = "none"]
  ELSE IF note.type = host.awaits THEN [host EXCEPT !.awaits = "none"]
  ELSE host

HostReads ==
  /\ Alive /\ air \in {"up", "closing"} /\ notes # << >>
  /\ notes' = Tail(notes)
  /\ host' = IF host.at \in {GaveUp, Ends} THEN host ELSE Heard(Head(notes))
  /\ UNCHANGED <<stackVars, events, deviceVars>>

LinkDown ==
  /\ air' = "down"
  /\ cccd' = FALSE
  /\ notes' = << >>
  /\ events' = Append(events, Write("disconnected", 0))
  /\ UNCHANGED deviceVars

LinkLost ==
  /\ Alive /\ air = "up" /\ host.losses < MaxLosses
  /\ host' = [host EXCEPT !.awaits = "link", !.losses = @ + 1]
  /\ LinkDown

\* The disconnection that the device asked for.
LinkClosed ==
  /\ Alive /\ air = "closing"
  /\ host' = [host EXCEPT !.awaits = "link"]
  /\ LinkDown

-----------------------------------------------------------------------------
(* Calls to the SoftDevice.  Without a connection handle the service itself *)
(* returns an error, and so does the SoftDevice without a subscription; of *)
(* a link that is gone while its last event waits, it may or may not say   *)
(* so.  Each error ends in APP_ERROR_CHECK, a reset: FAULT.                *)

Up    == m_conn_handle /\ air = "up" /\ cccd
Stale == m_conn_handle /\ air # "up"

\* A notification, after which the session is as status says.
NotifyThen(note, status) ==
  \/ Up /\ notes' = Append(notes, note) /\ m_update_status' = status
  \/ Stale /\ UNCHANGED notes /\ m_update_status' = status
  \/ ~Up /\ UNCHANGED notes /\ m_update_status' = "FAULT"

Notify(note) == NotifyThen(note, m_update_status)
Quiet        == UNCHANGED <<notes, m_update_status>>

\* dfu_transport_ble_close, when the session goes on as status says.
Close(status) ==
  /\ m_tear_down_in_progress' = TRUE
  /\ \/ /\ m_conn_handle /\ air = "up"
        /\ air' = "closing" /\ m_update_status' = status
        /\ UNCHANGED m_is_advertising
     \/ /\ Stale
        /\ m_update_status' \in IF air = "closing" THEN {"FAULT"} ELSE {status, "FAULT"}
        /\ UNCHANGED <<air, m_is_advertising>>
     \/ /\ ~m_conn_handle /\ m_is_advertising /\ air = "adv"
        /\ air' = "down" /\ m_is_advertising' = FALSE /\ m_update_status' = status
     \/ /\ ~m_conn_handle /\ m_is_advertising /\ air # "adv"
        /\ m_update_status' = "FAULT"
        /\ UNCHANGED <<air, m_is_advertising>>
     \/ /\ ~m_conn_handle /\ ~m_is_advertising
        /\ m_update_status' = status
        /\ UNCHANGED <<air, m_is_advertising>>
  /\ UNCHANGED <<m_conn_handle, cccd, notes>>

-----------------------------------------------------------------------------
(* The main loop: proc_sd_task. *)

Takes(op) ==
  /\ Alive /\ turn = "ble" /\ events # << >>
  /\ Head(events).op = op
  /\ events' = Tail(events)
  /\ UNCHANGED <<host, turn>>

\* proc_ble finds nothing and proc_soc has its turn.  (With no flash command
\* queued there is nothing that it could find.)
NoBleEvent ==
  /\ Alive /\ turn = "ble" /\ events = << >> /\ queue # << >>
  /\ turn' = "soc"
  /\ UNCHANGED <<host, stackVars, events, notes, linkVars, dataVars, poolVars,
                 bank, m_update_status, flashVars>>

\* mutant: the flag stays up.
ConnectedKeepsFlag == UNCHANGED m_is_advertising
NotAdvertising     == m_is_advertising' = FALSE

\* on_ble_evt, BLE_GAP_EVT_CONNECTED with its sd_ble_gap_conn_param_update.
OnConnected ==
  /\ Takes("connected")
  /\ m_conn_handle' = TRUE
  /\ NotAdvertising
  /\ \/ UNCHANGED m_update_status
     \/ air # "up" /\ m_update_status' = "FAULT"
  /\ UNCHANGED <<stackVars, notes, m_tear_down_in_progress, dataVars, poolVars,
                 bank, flashVars>>

\* on_ble_evt, BLE_GAP_EVT_DISCONNECTED, with advertising_start.
OnDisconnected ==
  /\ Takes("disconnected")
  /\ m_conn_handle' = FALSE
  /\ IF m_tear_down_in_progress \/ m_is_advertising
       THEN UNCHANGED <<air, m_is_advertising>>
       ELSE air' = "adv" /\ m_is_advertising' = TRUE
  /\ UNCHANGED <<cccd, notes, m_tear_down_in_progress, dataVars, poolVars, bank,
                 m_update_status, flashVars>>

\* on_ctrl_pt_write: the write is authorized first.
TakesControl(op) == Takes(op) /\ (Up \/ Stale)

\* sd_ble_gatts_rw_authorize_reply fails on a link that is gone.  (A host whose
\* link is up has subscribed before it writes.)
ControlRefused ==
  /\ \E op \in Control : Takes(op)
  /\ Stale
  /\ m_update_status' = "FAULT"
  /\ UNCHANGED <<stackVars, notes, linkVars, dataVars, poolVars, bank, flashVars>>

-----------------------------------------------------------------------------
(* on_dfu_evt: the control point. *)

OnPktRcptNotif ==
  \E n \in Intervals :
    /\ TakesControl("PRN") /\ Head(events).n = n
    /\ m_pkt_notif' = IF n = 0
                        THEN [m_pkt_notif EXCEPT !.enabled = FALSE, !.target = 0]
                        ELSE [enabled |-> TRUE, target |-> n, cnt |-> n]
    /\ Quiet
    /\ UNCHANGED <<stackVars, linkVars, m_pkt_type, m_num_of_firmware_bytes_rcvd,
                   mp_final_packet, history, poolVars, bank, flashVars>>

Expects(type) ==
  /\ m_pkt_type' = type
  /\ UNCHANGED <<stackVars, linkVars, m_pkt_notif, m_num_of_firmware_bytes_rcvd,
                 mp_final_packet, history, poolVars, flashVars>>

OnStart == TakesControl("START") /\ Expects("START") /\ Quiet /\ UNCHANGED bank
OnInit  == TakesControl("INIT") /\ Expects("INIT") /\ Quiet /\ UNCHANGED bank
OnReceiveFw == TakesControl("FW") /\ Expects("FW") /\ Quiet /\ UNCHANGED bank

\* dfu_init_pkt_complete; dfu_init_prevalidate has its say.
OnInitComplete ==
  /\ TakesControl("INIT_COMPLETE")
  /\ Expects("INIT")
  /\ \E verdict \in BOOLEAN :
       LET ok == verdict /\ bank.state = "RX_INIT_PKT"
       IN /\ bank' = IF ok THEN [bank EXCEPT !.state = "RX_DATA_PKT"] ELSE bank
          /\ Notify(Response("INIT", ok))

\* dfu_image_validate: the CRC of what is in flash by now.
Whole == \A u \in Unit : flash[u] = u + 1

OnValidate ==
  /\ TakesControl("VALIDATE")
  /\ LET begins == bank.state = "RX_DATA_PKT" /\ bank.received = Total
         ok     == begins /\ ~bank.timedOut /\ Whole
     IN /\ bank' = IF ok THEN [bank EXCEPT !.state = "WAIT_4_ACTIVATE"]
                   ELSE IF begins THEN [bank EXCEPT !.state = "VALIDATE"] ELSE bank
        /\ Notify(Response("VALIDATE", ok))
  /\ UNCHANGED <<stackVars, linkVars, dataVars, poolVars, flashVars>>

\* The link is closed first; what was validated is then activated.
OnActivate ==
  /\ TakesControl("ACTIVATE")
  /\ IF bank.state = "WAIT_4_ACTIVATE"
       THEN Close("SETTINGS_SAVING") /\ queue' = queue \o Save
       ELSE Close("SYS_RESET") /\ UNCHANGED queue
  /\ UNCHANGED <<dataVars, poolVars, bank, done, flash>>

OnSysReset ==
  /\ TakesControl("SYS_RESET")
  /\ Close("SYS_RESET")
  /\ UNCHANGED <<dataVars, poolVars, bank, flashVars>>

OnImageSizeReq ==
  /\ TakesControl("SIZE")
  /\ Notify(Report(m_num_of_firmware_bytes_rcvd))
  /\ UNCHANGED <<stackVars, linkVars, dataVars, poolVars, bank, flashVars>>

-----------------------------------------------------------------------------
(* on_dfu_pkt_write: the packet characteristic. *)

TakesPacket(type) == (\E op \in Packet : Takes(op)) /\ m_pkt_type = type

PacketIgnored ==
  /\ TakesPacket("INVALID")
  /\ Quiet
  /\ UNCHANGED <<stackVars, linkVars, dataVars, poolVars, bank, flashVars>>

\* start_data_process and dfu_start_pkt_handle.  What is not the three sizes
\* has another length.  The response to a good one comes from the callback.
StartData ==
  /\ TakesPacket("START")
  /\ IF Head(events).op = "sizes" /\ bank.state = "IDLE" /\ ~bank.timedOut
       THEN /\ bank' = [bank EXCEPT !.state = "PREPARING"]
            /\ queue' = Append(queue, Command("clear", NoBuffer, 0, 0))
            /\ Quiet
       ELSE Notify(Response("START", FALSE)) /\ UNCHANGED <<bank, queue>>
  /\ UNCHANGED <<stackVars, linkVars, dataVars, poolVars, done, flash>>

\* init_data_process and dfu_init_pkt_handle: no response to a good one.  An odd
\* one is filled up; there may have been more than m_init_packet can hold.
InitData ==
  /\ TakesPacket("INIT")
  /\ IF bank.state \in {"RDY", "RX_INIT_PKT"}
       THEN /\ bank' = [bank EXCEPT !.state = "RX_INIT_PKT"]
            /\ \/ ~bank.timedOut /\ Quiet
               \/ Notify(Response("INIT", FALSE))
       ELSE Notify(Response("INIT", FALSE)) /\ UNCHANGED bank
  /\ UNCHANGED <<stackVars, linkVars, dataVars, poolVars, flashVars>>

NextCnt(cnt) == IF cnt = 1 THEN m_pkt_notif.target ELSE cnt - 1

\* mutant: an accepted packet's buffer goes back at once.
PoolAfterStoreAtOnce(p, b) == rx_consume(p, b)
PoolAfterStore(p, b)       == p

\* mutant: the last packet is not recognized.
CompletesLate(received) == received > Total
Completes(received)     == received = Total

\* mutant: the packet is counted before there is a buffer for it.
CountUnbuffered(n) == n + 1
CountWithout(n)    == n

\* mutant: packets are counted for receipts only.
CountForReceipts(n) == IF m_pkt_notif.enabled THEN n + 1 ELSE n
Counted(n)          == n + 1

\* The packet is accepted: its store is queued with the buffer.
DataAccepted(p, b) ==
  LET received == bank.received + 1
      counts   == m_pkt_notif.enabled /\ received # Total
  IN /\ queue' = Append(queue, Command("store", b, bank.received, Head(events).n))
     /\ pool' = PoolAfterStore(p, b)
     /\ bank' = [bank EXCEPT !.received = received]
     /\ m_num_of_firmware_bytes_rcvd' = Counted(m_num_of_firmware_bytes_rcvd)
     /\ mp_final_packet' = IF Completes(received) THEN b ELSE mp_final_packet
     /\ m_pkt_notif' = IF counts THEN [m_pkt_notif EXCEPT !.cnt = NextCnt(@)]
                       ELSE m_pkt_notif
     /\ IF counts /\ m_pkt_notif.cnt = 1
          THEN Notify(Receipt(m_num_of_firmware_bytes_rcvd'))
          ELSE Quiet
     /\ taken' = Append(taken, Head(events).n)
     /\ UNCHANGED <<m_pkt_type, refused>>

\* It is refused: the buffer just extracted goes back.  More than was announced
\* sets the overrun mark; DfuBank has what follows from that.
DataRefused(p, b) ==
  /\ bank' = IF bank.state = "RX_DATA_PKT" /\ bank.received >= Total
               THEN [bank EXCEPT !.received = Overrun] ELSE bank
  /\ pool' = rx_consume(p, b)
  /\ Notify(Response("RECEIVE", FALSE))
  /\ refused' = TRUE
  /\ UNCHANGED <<m_pkt_type, m_pkt_notif, m_num_of_firmware_bytes_rcvd,
                 mp_final_packet, taken, queue>>

\* app_data_process with dfu_data_pkt_handle.
AppData ==
  /\ TakesPacket("FW")
  /\ \/ /\ Head(events).op = "odd" \/ ~CanProduce(pool)
        /\ Notify(Response("RECEIVE", FALSE))
        /\ m_num_of_firmware_bytes_rcvd' = CountWithout(m_num_of_firmware_bytes_rcvd)
        /\ refused' = TRUE
        /\ UNCHANGED <<m_pkt_type, m_pkt_notif, mp_final_packet, taken, poolVars, bank,
                       queue>>
     \/ LET produced == rx_produce(pool)
            p == rx_extract(produced)
            b == produced.read_index
        IN /\ Head(events).op # "odd" /\ CanProduce(pool)
           /\ rx_buffer' = [rx_buffer EXCEPT ![pool.write_index] = Head(events).n]
           /\ IF /\ bank.state = "RX_DATA_PKT" /\ bank.received < Total
                 /\ ~bank.timedOut
                THEN DataAccepted(p, b)
                ELSE DataRefused(p, b)
  /\ UNCHANGED <<stackVars, linkVars, done, flash>>

-----------------------------------------------------------------------------
(* The flash and its callbacks. *)

\* The oldest command is carried out; a store reads its buffer now.  (Failures
\* of the flash end in a reset; PStorage has them.)
FlashWorks ==
  /\ Alive /\ queue # << >> /\ ~done
  /\ done' = TRUE
  /\ LET c == Head(queue)
     IN flash' = CASE c.op = "clear" -> [u \in Unit |-> Blank]
                   [] c.op = "store" -> [flash EXCEPT ![c.at] = rx_buffer[c.buf]]
                   [] OTHER -> flash
  /\ UNCHANGED <<host, stackVars, events, notes, linkVars, dataVars, poolVars,
                 bank, m_update_status, queue, turn>>

\* proc_soc, with the event that the oldest command has been carried out.
Finishes(op) ==
  /\ Alive /\ turn = "soc" /\ done
  /\ Head(queue).op = op
  /\ turn' = "ble"
  /\ done' = FALSE
  /\ UNCHANGED <<host, stackVars, events, linkVars, flash>>

NoSocEvent ==
  /\ Alive /\ turn = "soc" /\ ~done
  /\ turn' = "ble"
  /\ UNCHANGED <<host, stackVars, events, notes, linkVars, dataVars, poolVars,
                 bank, m_update_status, flashVars>>

\* pstorage_callback_handler of the bank, and dfu_cb_handler.  The settings are
\* saved first; the response follows, whether there is a link or not.
BankCleared ==
  /\ Finishes("clear")
  /\ bank' = [bank EXCEPT !.state = "RDY"]
  /\ queue' = Tail(queue) \o Save
  /\ Notify(Response("START", TRUE))
  /\ UNCHANGED <<dataVars, poolVars>>

\* mutant: any stored packet is the last one.
IsFinalAny(b) == mp_final_packet # NoBuffer
IsFinal(b)    == b = mp_final_packet

PacketStored ==
  /\ Finishes("store")
  /\ queue' = Tail(queue)
  /\ IF bank.state = "RX_DATA_PKT"
       THEN LET b == Head(queue).buf
            IN /\ pool' = rx_consume(pool, b)
               /\ IF ~ConsumeOk(pool, b)
                    THEN UNCHANGED notes /\ m_update_status' = "FAULT"
                  ELSE IF IsFinal(b) THEN Notify(Response("RECEIVE", TRUE))
                  ELSE Quiet
       ELSE UNCHANGED pool /\ Quiet
  /\ UNCHANGED <<dataVars, rx_buffer, bank>>

SettingsErased ==
  /\ Finishes("erase")
  /\ queue' = Tail(queue)
  /\ Quiet
  /\ UNCHANGED <<dataVars, poolVars, bank>>

SettingsSaved ==
  /\ Finishes("save")
  /\ queue' = Tail(queue)
  /\ m_update_status' = IF m_update_status = "SETTINGS_SAVING" THEN "COMPLETE"
                        ELSE m_update_status
  /\ UNCHANGED <<notes, dataVars, poolVars, bank>>

-----------------------------------------------------------------------------
(* The inactivity timer and the end of the session. *)

\* dfu_timeout_handler.
Timeout ==
  /\ Alive /\ turn = "ble" /\ ~bank.timedOut
  /\ bank' = [bank EXCEPT !.timedOut = TRUE]
  /\ Close("TIMEOUT")
  /\ UNCHANGED <<host, events, dataVars, poolVars, flashVars, turn>>

\* wait_for_events returns.
Leave ==
  /\ m_update_status \in {"COMPLETE", "TIMEOUT", "SYS_RESET"}
  /\ turn = "ble"
  /\ m_update_status' = "OVER"
  /\ UNCHANGED <<host, stackVars, events, notes, linkVars, dataVars, poolVars,
                 bank, flashVars, turn>>

Host == Connect \/ Subscribe \/ HostWrites \/ HostStrays \/ HostResets

OnBleEvent ==
  \/ OnConnected \/ OnDisconnected \/ ControlRefused
  \/ OnPktRcptNotif \/ OnStart \/ OnInit \/ OnReceiveFw \/ OnInitComplete
  \/ OnValidate \/ OnActivate \/ OnSysReset \/ OnImageSizeReq
  \/ PacketIgnored \/ StartData \/ InitData \/ AppData

OnSocEvent == NoSocEvent \/ BankCleared \/ PacketStored
              \/ SettingsErased \/ SettingsSaved

Next == Host \/ HostReads \/ LinkLost \/ LinkClosed
        \/ NoBleEvent \/ OnBleEvent \/ OnSocEvent \/ FlashWorks \/ Timeout \/ Leave

\* The main loop turns, the flash works, what is notified arrives while the
\* link holds, and a disconnection that was asked for happens.  Nothing is assumed of the host's writes.
Fairness == /\ WF_vars(OnBleEvent) /\ WF_vars(NoBleEvent) /\ WF_vars(OnSocEvent)
            /\ WF_vars(FlashWorks) /\ WF_vars(HostReads) /\ WF_vars(LinkClosed)
            /\ WF_vars(Leave)

Spec == Init /\ [][Next]_vars /\ Fairness

-----------------------------------------------------------------------------
(* Properties. *)

TypeOK ==
  /\ host \in [at : 1 .. GaveUp,
               awaits : {"none", "link", "report", "receipt", "START", "INIT",
                         "RECEIVE", "VALIDATE"},
               interval : Intervals, losses : 0 .. MaxLosses, strays : 0 .. MaxStrays]
  /\ air \in {"adv", "up", "closing", "down"}
  /\ {cccd, done, m_conn_handle, m_is_advertising, m_tear_down_in_progress} \subseteq BOOLEAN
  /\ events \in Seq([op : Control \cup Packet \cup LinkOp, n : Nat])
  /\ notes \in Seq([type : {"START", "INIT", "RECEIVE", "VALIDATE", "receipt", "report"},
                    ok : BOOLEAN, n : 0 .. Total])
  /\ m_pkt_type \in {"INVALID", "START", "INIT", "FW"}
  /\ m_pkt_notif \in [enabled : BOOLEAN, target : Intervals \cup {0},
                      cnt : Nat]
  /\ m_pkt_notif.enabled => m_pkt_notif.cnt \in 1 .. m_pkt_notif.target
  /\ m_num_of_firmware_bytes_rcvd \in 0 .. Total
  /\ mp_final_packet \in Buffer \cup {NoBuffer}
  /\ pool \in Pool
  /\ rx_buffer \in [Buffer -> 0 .. Old]
  /\ bank \in [state : {"IDLE", "PREPARING", "RDY", "RX_INIT_PKT", "RX_DATA_PKT",
                        "VALIDATE", "WAIT_4_ACTIVATE"},
               received : 0 .. Overrun, timedOut : BOOLEAN]
  /\ m_update_status \in {"UPDATING", "SETTINGS_SAVING", "COMPLETE", "TIMEOUT",
                          "SYS_RESET", "FAULT", "OVER"}
  /\ queue \in Seq([op : {"clear", "store", "erase", "save"},
                    buf : Buffer \cup {NoBuffer}, at : Unit, n : 0 .. Old])
  /\ flash \in [Unit -> 0 .. Old]
  /\ turn \in {"ble", "soc"}
  /\ taken \in Seq(0 .. Total) /\ refused \in BOOLEAN

\* A buffer whose store is still queued holds the packet that it was queued
\* with: the flash reads it long after app_data_process has returned.
StoresKept ==
  \A i \in 1 .. Len(queue) :
    queue[i].op = "store" /\ ~(i = 1 /\ done) => rx_buffer[queue[i].buf] = queue[i].n

\* The count that a receipt or a report tells the host is of packets that are
\* kept: each of them is in flash at its place or in the queue for it.
ReceiptsHold ==
  \A i \in 1 .. Len(notes) : \A k \in 1 .. notes[i].n :
    /\ k <= Len(taken)
    /\ \/ flash[k - 1] = taken[k]
       \/ \E j \in 1 .. Len(queue) :
            queue[j].op = "store" /\ queue[j].at = k - 1 /\ queue[j].n = taken[k]

\* As long as no data packet was refused, those taken are the first of the
\* image, in order and each once, however often the host lost its link and
\* asked where to go on.  (Once one was refused, the count that it asks for is
\* no place to go on: packets behind the refused one may have been taken.)
TakenInOrder == ~refused => \A k \in 1 .. Len(taken) : taken[k] = k

\* A host that is told that the image has been received has as many packets in
\* flash as it announced, in the order in which they were taken; one that is
\* told that it is valid, or is past that, has its image there.
FinalMeansStored ==
  \A i \in 1 .. Len(notes) :
    /\ notes[i] = Response("RECEIVE", TRUE) =>
         Len(taken) = Total /\ \A k \in 1 .. Total : flash[k - 1] = taken[k]
    /\ notes[i] = Response("VALIDATE", TRUE) => Whole

\* While data arrives pstorage_store never finds the queue full, so that
\* app_data_process never waits for the flash from inside a BLE event.
QueueHasRoom == m_update_status = "UPDATING" => Len(queue) <= QueueSize

\* Once the events are handled the transport and the radio agree, and a device
\* that has not been told to stop is there for a host.
NeverDark ==
  Alive /\ events = << >> =>
    /\ m_conn_handle <=> air \in {"up", "closing"}
    /\ m_is_advertising <=> air = "adv"
    /\ air = "down" => m_tear_down_in_progress

\* A host that waits is answered, loses the link, or the session ends.
HostAnswered ==
  host.awaits \notin {"none", "link"} ~> host.awaits \in {"none", "link"} \/ ~Alive

\* ble_dfu.h: "Number of bytes of firmware image received."  A host that asks
\* for it goes on from there, as if what was received were the first so many.
ReportIsPrefix ==
  \A i \in 1 .. Len(notes) :
    notes[i].type = "report" => \A k \in 1 .. notes[i].n : taken[k] = k

\* dfu_transport_ble.c: "Restart advertising so that the DFU Controller can
\* reconnect if possible."  A device that advertises again is there to stay.
AdvertisesToReconnect ==
  [][air = "adv" /\ m_is_advertising
     => m_update_status' # "FAULT"]_vars
=============================================================================
