--------------------------- MODULE SerialTransport ---------------------------
(***************************************************************************)
(* The serial transport from the wire to the update code: SLIP frames, the *)
(* reliable packets of hci_transport.c, the receive pool, the packet slots *)
(* of dfu_transport_serial.c and the scheduler event that works them off.  *)
(* On the other side stands the host: it sends one packet at a time and    *)
(* repeats it until its acknowledgement arrives.                           *)
(*                                                                         *)
(* Two builds differ in when frames are received.  With USB it happens in  *)
(* tud_task, a place of its own in the main loop; with the UART it happens *)
(* in an interrupt, between any two steps of the main loop.                *)
(***************************************************************************)
EXTENDS HciPool, FiniteSets, Sequences

CONSTANTS
  Builds,      \* subset of {"usb", "uart"}
  Scripts,     \* what hosts send: sequences of packet types
  SchedSize,   \* SCHED_QUEUE_SIZE
  SeqModulus,  \* sequence numbers: 8 in the code
  MaxWire      \* bound on the frames under way, in each direction

MAX_BUFFERS == 4
Slot        == 0 .. MAX_BUFFERS - 1
PacketType  == {"INVALID", "START", "INIT", "DATA", "STOP_DATA", "OTHER"}

ASSUME SerialAssumption ==
  /\ Builds \subseteq {"usb", "uart"}
  /\ \A s \in Scripts : s \in Seq(PacketType)
  /\ SchedSize \in Nat \ {0}
  /\ SeqModulus \in Nat \ {0, 1}
  /\ MaxWire \in Nat \ {0}

VARIABLES
  build, script,
  cur,        \* the host's packet: the first that is not acknowledged
  toDevice,   \* frames under way, by the number of their packet
  toHost,     \* acknowledgements under way
  tx,         \* acknowledgements in the device's output, not yet sent
  hci,        \* [expected, used, registered]: the state of reception
  pool,       \* m_rx_buffer_queue
  rx_buffer,  \* which packet each buffer of the pool holds
  slots,      \* m_data_queue.data_packet
  count,      \* m_data_queue.count
  sched,      \* events in the scheduler, the running one included
  pc,         \* where the main loop is: [at, index, reg, closing]
  dfu,        \* the update code: [state, image, complete]
  handled,    \* packets given to the update code, in order
  accepted    \* packets taken as new by the sequence check

hostVars   == <<build, script, cur>>
linkVars   == <<toDevice, toHost, tx>>
bufferVars == <<hci, pool, rx_buffer, slots>>
vars == <<hostVars, linkVars, bufferVars, count, sched, pc, dfu, handled, accepted>>

Packets  == Len(script)
Type(n)  == script[n]
SeqNr(n) == n % SeqModulus
FREE     == [type |-> "INVALID", buffer |-> NoBuffer]
InUse    == {i \in Slot : slots[i].type # "INVALID"}
Over     == pc.at \in {"closed", "reset"}

\* The numbers in S, each once and in order.
Lists(s, S) ==
  /\ \A i, j \in 1 .. Len(s) : i < j => s[i] < s[j]
  /\ S = {s[i] : i \in 1 .. Len(s)}

\* What a host that follows the protocol sends: one START, one INIT and one
\* STOP, data between the last two, packets of other kinds anywhere.
IsUpdate(s) ==
  \E a, b, c \in 1 .. Len(s) :
    /\ a < b /\ b < c
    /\ s[a] = "START" /\ s[b] = "INIT" /\ s[c] = "STOP_DATA"
    /\ \A n \in 1 .. Len(s) :
         /\ s[n] = "START" => n = a
         /\ s[n] = "INIT" => n = b
         /\ s[n] = "STOP_DATA" => n = c
         /\ s[n] = "DATA" => b < n /\ n < c

\* dfu_transport_serial_update_start: no slot in use, the transport open with
\* its first buffer produced and registered.
Init ==
  /\ build \in Builds
  /\ script \in Scripts
  /\ cur = 1
  /\ toDevice = << >>
  /\ toHost = << >>
  /\ tx = << >>
  /\ hci = [expected |-> SeqNr(1), used |-> 0, registered |-> "pool"]
  /\ pool = rx_produce(hci_mem_pool_open)
  /\ rx_buffer = [b \in Buffer |-> 0]
  /\ slots = [i \in Slot |-> FREE]
  /\ count = 0
  /\ sched = 0
  /\ pc = [at |-> "sched", index |-> 0, reg |-> 0, closing |-> FALSE]
  /\ dfu = [state |-> "IDLE", image |-> << >>, complete |-> FALSE]
  /\ handled = << >>
  /\ accepted = 0

-----------------------------------------------------------------------------
(* The host and the wire. *)

\* The host sends its packet, for the first time or again.
HostSends ==
  /\ cur <= Packets
  /\ Len(toDevice) < MaxWire
  /\ toDevice' = Append(toDevice, cur)
  /\ UNCHANGED <<hostVars, toHost, tx, bufferVars, count, sched, pc, dfu, handled, accepted>>

\* An acknowledgement names the next packet expected; another one is ignored.
HostReads ==
  /\ toHost # << >>
  /\ toHost' = Tail(toHost)
  /\ cur' = IF Head(toHost) = SeqNr(cur + 1) /\ cur <= Packets THEN cur + 1 ELSE cur
  /\ UNCHANGED <<build, script, toDevice, tx, bufferVars, count, sched, pc, dfu,
                 handled, accepted>>

\* On the UART an acknowledgement can be damaged.
AckLost ==
  /\ build = "uart" /\ toHost # << >>
  /\ toHost' = Tail(toHost)
  /\ UNCHANGED <<hostVars, toDevice, tx, bufferVars, count, sched, pc, dfu, handled, accepted>>

-----------------------------------------------------------------------------
(* Reception, up to the slot that takes the packet. *)

\* hci_slip_write takes an acknowledgement unless one is still being sent.  A
\* USB build copies it into the CDC FIFO, which has room for the few that one
\* tud_task can cause.
ack_transmit(nr) ==
  tx' = IF build = "uart" /\ tx # << >> THEN tx ELSE Append(tx, nr)

\* mp_slip_used_rx_buffer goes back to SLIP; NULL leaves SLIP without a buffer.
RegisteredForAck(used) == "ack"
Registered(used)       == IF used = NoBuffer THEN "none" ELSE "pool"

DataQueueFullEmpty == count = 0
DATA_QUEUE_FULL    == count = MAX_BUFFERS - 1
FreeSlots          == Slot \ InUse

\* rpc_transport_event_handler, called by the transport with the packet just
\* extracted in buffer b; p is the pool by then.  A slot is taken before the
\* event is put: when there is no room for the event the buffer goes back and
\* the slot stays.
rpc_transport_event_handler(n, b, p) ==
  LET alloc == /\ Type(n) # "INVALID" /\ ~DATA_QUEUE_FULL /\ FreeSlots # {}
      slot  == CHOOSE i \in FreeSlots : \A j \in FreeSlots : i <= j
      put   == alloc /\ sched < SchedSize
  IN /\ slots' = IF alloc THEN [slots EXCEPT ![slot] = [type |-> Type(n), buffer |-> b]]
                          ELSE slots
     /\ count' = IF alloc THEN (count + 1) % 256 ELSE count
     /\ sched' = IF put THEN sched + 1 ELSE sched
     /\ pool' = IF put THEN p ELSE rx_consume(p, b)
     /\ pc' = IF put \/ ConsumeOk(p, b) THEN pc ELSE [pc EXCEPT !.at = "reset"]

\* A reliable packet of the expected number: acknowledged first, then the next
\* buffer is produced for SLIP, then the application is told.
NewPacket(n) ==
  LET produced == CanProduce(pool)
      p == IF produced THEN rx_produce(pool) ELSE pool
  IN /\ hci' = [expected   |-> SeqNr(hci.expected + 1),
                used       |-> IF produced THEN pool.write_index ELSE NoBuffer,
                registered |-> IF produced THEN "pool" ELSE "ack"]
     /\ rx_buffer' = [rx_buffer EXCEPT ![hci.used] = n]
     /\ accepted' = accepted + 1
     /\ ack_transmit(SeqNr(hci.expected + 1))
     /\ IF CanExtract(p)
        THEN rpc_transport_event_handler(n, p.read_index, rx_extract(p))
        ELSE pool' = p /\ UNCHANGED <<slots, count, sched, pc>>

\* Any other number: the buffer is used again and the number expected is told.
OldPacket(n) ==
  /\ hci' = [hci EXCEPT !.registered = Registered(hci.used)]
  /\ rx_buffer' = [rx_buffer EXCEPT ![hci.used] = n]
  /\ ack_transmit(hci.expected)
  /\ UNCHANGED <<pool, slots, count, sched, pc, accepted>>

\* A frame that fails a check of is_rx_pkt_valid.
BadPacket ==
  /\ hci' = [hci EXCEPT !.registered = Registered(hci.used)]
  /\ UNCHANGED <<tx, pool, rx_buffer, slots, count, sched, pc, accepted>>

\* A frame that does not fit: HCI_SLIP_RX_OVERFLOW registers the buffer for
\* acknowledgements, and the rest of the frame is skipped.
Overflow ==
  /\ hci' = [hci EXCEPT !.registered = "ack"]
  /\ UNCHANGED <<tx, pool, rx_buffer, slots, count, sched, pc, accepted>>

\* A remainder of at most ACK_BUF_SIZE bytes that is no vendor packet: the
\* default case registers the used buffer again or produces one.
ShortFrame ==
  /\ IF hci.used # NoBuffer
     THEN /\ hci' = [hci EXCEPT !.registered = "pool"]
          /\ pool' = pool
     ELSE IF CanProduce(pool)
     THEN /\ hci' = [hci EXCEPT !.registered = "pool", !.used = pool.write_index]
          /\ pool' = rx_produce(pool)
     ELSE /\ hci' = [hci EXCEPT !.registered = "ack"]
          /\ pool' = pool
  /\ UNCHANGED <<tx, rx_buffer, slots, count, sched, pc, accepted>>

\* Between frames SLIP has a buffer of the pool, the short one, or none: only
\* the first takes a packet.
CanReceive == /\ ~Over /\ toDevice # << >>
              /\ build = "usb" => pc.at = "task"
              /\ Len(tx) + Len(toHost) < MaxWire

RxDone == /\ toDevice' = Tail(toDevice)
          /\ UNCHANGED <<hostVars, toHost, dfu, handled>>

ExpectsAny(n) == TRUE
Expects(n)    == SeqNr(n) = hci.expected

RxPacket ==
  /\ CanReceive
  /\ IF hci.registered # "pool" THEN Overflow
     ELSE IF Expects(Head(toDevice)) THEN NewPacket(Head(toDevice))
     ELSE OldPacket(Head(toDevice))
  /\ RxDone

\* On the UART a frame can arrive with a byte changed, run into the next one,
\* or be cut down to a few bytes.
RxDamaged ==
  /\ CanReceive /\ build = "uart"
  /\ \/ IF hci.registered = "pool" THEN BadPacket ELSE Overflow
     \/ Overflow
     \/ IF hci.registered = "none" THEN Overflow ELSE ShortFrame \/ BadPacket
  /\ RxDone

\* The last byte of an acknowledgement has left the UART.
TxDone ==
  /\ build = "uart" /\ tx # << >>
  /\ tx' = << >>
  /\ toHost' = toHost \o tx
  /\ UNCHANGED <<hostVars, toDevice, bufferVars, count, sched, pc, dfu, handled, accepted>>

-----------------------------------------------------------------------------
(* The main loop: wait_for_events, app_sched_execute, process_dfu_packet. *)

Goto(place) == pc' = [pc EXCEPT !.at = place]

\* app_sched_execute: an event keeps its place in the ring while it is handled.
SchedTakes ==
  /\ pc.at = "sched" /\ sched > 0
  /\ Goto("while")
  /\ UNCHANGED <<hostVars, linkVars, bufferVars, count, sched, dfu, handled, accepted>>

SchedEmpty ==
  /\ pc.at = "sched" /\ sched = 0
  /\ Goto("task")
  /\ UNCHANGED <<hostVars, linkVars, bufferVars, count, sched, dfu, handled, accepted>>

EventDone == sched' = sched - 1 /\ Goto("sched")

\* process_dfu_packet: while the count is not zero, pass over all slots.
WhileNotEmpty ==
  /\ pc.at = "while"
  /\ IF count = 0 THEN EventDone
     ELSE pc' = [pc EXCEPT !.at = "scan", !.index = 0] /\ sched' = sched
  /\ UNCHANGED <<hostVars, linkVars, bufferVars, count, dfu, handled, accepted>>

SkipSlot ==
  /\ pc.at = "scan"
  /\ \/ /\ pc.index \in Slot \ InUse
        /\ pc' = [pc EXCEPT !.index = @ + 1]
     \/ /\ pc.index = MAX_BUFFERS
        /\ Goto(IF pc.closing THEN "closed" ELSE "while")
  /\ UNCHANGED <<hostVars, linkVars, bufferVars, count, sched, dfu, handled, accepted>>

\* The data packets of the image; validation compares the size and the CRC.
ImageData   == {n \in 1 .. Packets : Type(n) = "DATA"}
Validates   == dfu.state = "RX_DATA_PKT" /\ Lists(dfu.image, ImageData)
Activates   == Validates \/ dfu.state = "WAIT_4_ACTIVATE"

\* One packet given to the update code.  Its state machine is DfuBank's; here
\* it says which packets it refuses: a refused START or INIT is fatal, refused
\* data are dropped, and a STOP leaves its slot as it is.
HandlePacket ==
  /\ pc.at = "scan" /\ pc.index \in InUse /\ ~pc.closing
  /\ handled' = Append(handled, rx_buffer[slots[pc.index].buffer])
  /\ \/ /\ slots[pc.index].type = "START"
        /\ dfu' = [dfu EXCEPT !.state = IF @ = "IDLE" THEN "RDY" ELSE @]
        /\ Goto(IF dfu.state = "IDLE" THEN "load" ELSE "reset")
        /\ sched' = sched
     \/ /\ slots[pc.index].type = "INIT"
        /\ dfu' = [dfu EXCEPT !.state = IF @ = "RDY" THEN "RX_DATA_PKT" ELSE @]
        /\ Goto(IF dfu.state = "RDY" THEN "load" ELSE "reset")
        /\ sched' = sched
     \/ /\ slots[pc.index].type = "DATA"
        /\ dfu' = IF dfu.state # "RX_DATA_PKT" THEN dfu
                  ELSE [dfu EXCEPT !.image = Append(@, rx_buffer[slots[pc.index].buffer])]
        /\ Goto("load")
        /\ sched' = sched
     \/ /\ slots[pc.index].type = "STOP_DATA"
        /\ dfu' = [dfu EXCEPT !.state = IF Activates THEN "WAIT_4_ACTIVATE" ELSE @,
                              !.complete = Activates \/ @]
        /\ EventDone
     \/ /\ slots[pc.index].type = "OTHER"
        /\ Goto("load")
        /\ UNCHANGED <<dfu, sched>>
  /\ UNCHANGED <<hostVars, linkVars, bufferVars, count, accepted>>

\* data_queue_flush passes over the slots in the same way and frees them.
FlushSlot ==
  /\ pc.at = "scan" /\ pc.index \in InUse /\ pc.closing
  /\ Goto("load")
  /\ UNCHANGED <<hostVars, linkVars, bufferVars, count, sched, dfu, handled, accepted>>

\* data_queue_element_free: m_data_queue.count-- is a load and a store.
FreeLoad ==
  /\ pc.at = "load"
  /\ pc' = [pc EXCEPT !.at = "store", !.reg = count]
  /\ UNCHANGED <<hostVars, linkVars, bufferVars, count, sched, dfu, handled, accepted>>

FreeStore ==
  /\ pc.at = "store"
  /\ count' = (pc.reg + 255) % 256
  /\ pc' = [pc EXCEPT !.at = "clear", !.reg = 0]
  /\ UNCHANGED <<hostVars, linkVars, bufferVars, sched, dfu, handled, accepted>>

\* ... then the element is initialised and its buffer consumed; APP_ERROR_CHECK
\* resets the device when the pool does not know the buffer.
FreeClear ==
  /\ pc.at = "clear"
  /\ LET b == slots[pc.index].buffer IN
       /\ pool' = rx_consume(pool, b)
       /\ pc' = [pc EXCEPT !.at = IF ConsumeOk(pool, b) THEN "scan" ELSE "reset",
                           !.index = @ + 1]
  /\ slots' = [slots EXCEPT ![pc.index] = FREE]
  /\ UNCHANGED <<hostVars, linkVars, hci, rx_buffer, count, sched, dfu, handled,
                 accepted>>

\* The rest of wait_for_events: tud_task is over, its output is flushed (which
\* the host may not have fetched yet), and a complete update ends the loop.
TaskDone ==
  /\ pc.at = "task"
  /\ IF build = "usb" THEN toHost' = toHost \o tx /\ tx' = << >>
                      ELSE UNCHANGED <<toHost, tx>>
  /\ pc' = IF dfu.complete THEN [pc EXCEPT !.at = "scan", !.index = 0, !.closing = TRUE]
                           ELSE [pc EXCEPT !.at = "sched"]
  /\ UNCHANGED <<hostVars, toDevice, bufferVars, count, sched, dfu, handled, accepted>>

MainStep == \/ SchedTakes \/ SchedEmpty \/ WhileNotEmpty \/ SkipSlot
            \/ HandlePacket \/ FlushSlot \/ FreeLoad \/ FreeStore \/ FreeClear
            \/ TaskDone

Next == \/ HostSends \/ HostReads \/ AckLost
        \/ RxPacket \/ RxDamaged \/ TxDone
        \/ MainStep

Spec == Init /\ [][Next]_vars

\* The main loop and the host go on; a frame under way is received sooner or
\* later, since tud_task and the interrupt serve whatever has arrived.
FairSpec == /\ Spec
            /\ WF_vars(MainStep) /\ WF_vars(HostSends) /\ WF_vars(HostReads)
            /\ WF_vars(TxDone) /\ SF_vars(RxPacket)

-----------------------------------------------------------------------------
TypeOK ==
  /\ build \in Builds /\ script \in Scripts
  /\ cur \in 1 .. Packets + 1
  /\ toDevice \in Seq(1 .. Packets)
  /\ toHost \in Seq(0 .. SeqModulus - 1) /\ tx \in Seq(0 .. SeqModulus - 1)
  /\ hci \in [expected : 0 .. SeqModulus - 1, used : Buffer \cup {NoBuffer},
              registered : {"pool", "ack", "none"}]
  /\ pool \in Pool
  /\ rx_buffer \in [Buffer -> 0 .. Packets]
  /\ slots \in [Slot -> [type : PacketType, buffer : Buffer \cup {NoBuffer}]]
  /\ count \in 0 .. 255
  /\ sched \in 0 .. SchedSize
  /\ pc \in [at : {"sched", "while", "scan", "load", "store", "clear", "task",
                   "closed", "reset"},
             index : 0 .. MAX_BUFFERS, reg : 0 .. 255, closing : BOOLEAN]
  /\ dfu \in [state : {"IDLE", "RDY", "RX_DATA_PKT", "WAIT_4_ACTIVATE"},
              image : Seq(0 .. Packets), complete : BOOLEAN]
  /\ handled \in Seq(0 .. Packets)
  /\ accepted \in 0 .. Packets

\* The sequence numbers do their work on both builds, whatever the wire does:
\* the device takes every packet once and in order, and is never more than one
\* ahead of the host.
AcceptedOnce ==
  /\ accepted \in {cur - 1, cur}
  /\ hci.expected = SeqNr(accepted + 1)

\* The pool neither loses nor invents a buffer.
PoolConserved ==
  pool.free_window_count + pool.free_available_count + pool.read_available_count
    = PoolSize

\* Between two frees the count of the queue is the number of slots in use.
CountMatchesSlots ==
  pc.at \notin {"load", "store", "clear", "reset"} => count = Cardinality(InUse)

\* With USB every packet of an update that is accepted reaches the update code,
\* once and in order, before the next one is accepted, and no error resets the
\* device: a packet is acknowledged only after the slots were last worked off,
\* so that the host, which waits for it, never finds two of them taken.
Worth(n) == {i \in 1 .. n : Type(i) # "INVALID"}

UsbHandledInOrder ==
  build = "usb" /\ IsUpdate(script) =>
    /\ pc.at # "reset"
    /\ \/ Lists(handled, Worth(accepted))
       \/ accepted > 0 /\ Lists(handled, Worth(accepted - 1))

\* With USB, whenever frames can arrive, SLIP has a buffer of the pool that no
\* slot uses, and until the update is complete every buffer that no slot uses is
\* free again.  (Then the slot of the STOP is never freed, and a packet without
\* a type that is given back out of turn stays out until the session closes.)
UsbBuffersApart ==
  build = "usb" /\ IsUpdate(script) /\ pc.at = "task" =>
    /\ hci.registered = "pool"
    /\ \A i \in InUse : slots[i].buffer # hci.used
    /\ pool.read_available_count = 1
    /\ ~dfu.complete => pool.free_available_count = Cardinality(InUse)

\* With USB a host that keeps repeating the packets of an update gets the whole
\* image in, and the session ends.
UsbSessionEnds == build = "usb" /\ IsUpdate(script) ~> pc.at = "closed"

=============================================================================
