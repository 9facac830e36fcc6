------------------------------ MODULE PStorage ------------------------------
(***************************************************************************)
(* The raw persistent-storage module, pstorage_raw.c: a ring of flash      *)
(* commands in front of the SoftDevice's asynchronous flash API.           *)
(*                                                                         *)
(* Everything in pstorage_raw.c runs in the main context, so each handler  *)
(* is one action.  The exception is the client callback that the event     *)
(* handler makes half way: the client may come back in with new commands,  *)
(* and the code after the callback works on what it left.  The variable    *)
(* notifying says that the callback is running; until it returns nothing   *)
(* of the main context but the callback itself can run.                    *)
(*                                                                         *)
(* The SoftDevice's flash engine runs concurrently with all of this.       *)
(***************************************************************************)
EXTENDS Naturals, Sequences

CONSTANTS
  NumSectors, \* flash sectors of SOC_MAX_WRITE_SIZE bytes
  Data,       \* what a store can put into a sector
  QueueSize,  \* PSTORAGE_CMD_QUEUE_SIZE
  SdReplies,  \* what an idle SoftDevice may answer to a flash call
  SdOutcomes, \* how an accepted flash operation may end
  PowerFails  \* TRUE when the supply may fail at any moment

ASSUME PStorageAssumption ==
  /\ NumSectors \in Nat \ {0}
  /\ QueueSize \in Nat \ {0}
  /\ SdReplies \subseteq {"SUCCESS", "BUSY", "ERROR"}
  /\ SdOutcomes \subseteq {"ok", "err"}
  /\ PowerFails \in BOOLEAN

VARIABLES
  rp,           \* m_cmd_queue.rp
  count,        \* m_cmd_queue.count
  flash_access, \* m_cmd_queue.flash_access
  cmd,          \* m_cmd_queue.cmd
  m_round_val,  \* sectors done of the command at rp
  notifying,    \* the slot whose client callback is running, or NoSlot
  sd,           \* the operation the SoftDevice's flash engine works on, or NoJob
  evt,          \* the flash event it has raised: "none", "ok" or "err"
  flash         \* the flash itself, the only state a reset leaves alone

ram  == <<rp, count, flash_access, cmd, m_round_val, notifying, sd, evt>>
vars == <<ram, flash>>

\* rp, count and cmd read as a sequence, oldest command first.
Wrap(i) == IF i >= QueueSize THEN i - QueueSize ELSE i
Queued  == [i \in 1 .. count |-> cmd[Wrap(rp + (i - 1))]]

\* The sectors of the oldest command that are in flash.
Done == IF evt = "ok" THEN m_round_val + 1 ELSE m_round_val

Fifo == INSTANCE FlashFifo WITH Capacity <- QueueSize, pending <- Queued,
                                progress <- Done

Slot   == 0 .. QueueSize - 1
NoSlot == QueueSize
Free   == [op |-> "invalid", addr |-> 0, rounds |-> 0, data |-> Fifo!Erased]
NoJob  == [sector |-> NumSectors, value |-> Fifo!Erased]

\* pstorage_init with cmd_queue_init, and with it every power-up.
Init ==
  /\ rp = 0
  /\ count = 0
  /\ flash_access = FALSE
  /\ cmd = [s \in Slot |-> Free]
  /\ m_round_val = 0
  /\ notifying = NoSlot
  /\ sd = NoJob
  /\ evt = "none"
  /\ flash \in [Fifo!Sector -> Fifo!Content]

Restart ==
  /\ rp' = 0
  /\ count' = 0
  /\ flash_access' = FALSE
  /\ cmd' = [s \in Slot |-> Free]
  /\ m_round_val' = 0
  /\ notifying' = NoSlot
  /\ sd' = NoJob
  /\ evt' = "none"

-----------------------------------------------------------------------------
\* What a flash call for the element c can return: the SoftDevice takes one
\* operation at a time; a freed element does not get as far as a call.
Replies(c) ==
  CASE c.op = "invalid"            -> {"FORBIDDEN"}
    [] c.op # "invalid" /\ sd # NoJob -> {"BUSY"}
    [] OTHER                       -> SdReplies

\* mutant: the flag stays up when the SoftDevice refuses.
CmdProcessFlagStuck(c, rd, reply) ==
  /\ reply \in Replies(c)
  /\ flash_access' = TRUE
  /\ sd' = IF reply = "SUCCESS" THEN [sector |-> c.addr + rd, value |-> c.data]
                                ELSE sd

\* cmd_process for the element c at round rd: the flag is up exactly when the
\* SoftDevice took the operation.
CmdProcess(c, rd, reply) ==
  /\ reply \in Replies(c)
  /\ flash_access' = (reply = "SUCCESS")
  /\ sd' = IF reply = "SUCCESS" THEN [sector |-> c.addr + rd, value |-> c.data]
                                ELSE sd

\* The SoftDevice ends the operation and raises its event.
SdFinish(outcome) ==
  /\ sd # NoJob
  /\ outcome \in SdOutcomes
  /\ sd' = NoJob
  /\ evt' = outcome
  /\ flash' = IF outcome = "ok"
                THEN [flash EXCEPT ![sd.sector] = Fifo!Programmed(@, sd.value)]
                ELSE flash
  /\ UNCHANGED <<rp, count, flash_access, cmd, m_round_val, notifying>>

-----------------------------------------------------------------------------
\* cmd_queue_enqueue.  The element is counted whatever cmd_process says, and a
\* busy SoftDevice is reported to the client as success.  With a full queue the
\* client gets NRF_ERROR_NO_MEM and nothing changes.
CmdQueueEnqueue(c) ==
  /\ count # QueueSize
  /\ cmd' = [cmd EXCEPT ![Wrap(rp + count)] = c]
  /\ count' = count + 1
  /\ IF flash_access
       THEN UNCHANGED <<flash_access, sd>>
       ELSE \E reply \in Replies(cmd'[rp]) :
              CmdProcess(cmd'[rp], m_round_val, reply)
  /\ UNCHANGED <<rp, m_round_val, notifying, evt, flash>>

\* The main loop calls pstorage_store or pstorage_clear.
pstorage_store(c) == notifying = NoSlot /\ c.op = "store" /\ CmdQueueEnqueue(c)
pstorage_clear(c) == notifying = NoSlot /\ c.op = "clear" /\ CmdQueueEnqueue(c)

\* The same calls from inside a notification.  A client that fills the queue
\* to the brim there would put its command into the very slot that is freed
\* when it returns.  The one client that enqueues from a notification does so
\* when the bank has been erased, before it has accepted any data packet, and
\* adds two commands to a queue of 18: the guard states that room.
CallbackEnqueue(c) ==
  /\ notifying # NoSlot
  /\ count < QueueSize - 1
  /\ CmdQueueEnqueue(c)

-----------------------------------------------------------------------------
\* mutants: the round is forgotten; the queue is not set going again.
ProceedFromStart(c, rd) ==
  \E reply \in Replies(c) \cap {"SUCCESS", "BUSY"} : CmdProcess(c, 0, reply)
ProceedForgotten(c, rd) == UNCHANGED <<flash_access, sd>>

\* cmd_queue_dequeue on the element c: it is started, or left for later when
\* the SoftDevice is busy.
Proceed(c, rd) ==
  \E reply \in Replies(c) \cap {"SUCCESS", "BUSY"} : CmdProcess(c, rd, reply)

\* Any other answer is notified to the client, and every client of this
\* program ends such a notification in APP_ERROR_CHECK: the chip restarts.
ProceedFails(c) ==
  /\ Replies(c) \ {"SUCCESS", "BUSY"} # {}
  /\ Restart
  /\ UNCHANGED flash

\* command_finished, evaluated when a sector of the command at rp is done.
OneMoreRound    == m_round_val + 1 > cmd[rp].rounds \* mutant
CommandFinished == m_round_val + 1 >= cmd[rp].rounds

\* cmd_queue_element_init on the ring as it is.
ElementInitAtRp(index) == [cmd EXCEPT ![rp] = Free] \* mutant
ElementInit(index) == [cmd EXCEPT ![index] = Free]

\* pstorage_sys_event_handler, a sector of the command at rp is done and it
\* has more of them.
SysEventNextRound ==
  /\ notifying = NoSlot
  /\ evt = "ok" /\ flash_access
  /\ ~CommandFinished
  /\ \/ /\ Proceed(cmd[rp], m_round_val + 1)
        /\ m_round_val' = m_round_val + 1
        /\ evt' = "none"
        /\ UNCHANGED <<rp, count, cmd, notifying, flash>>
     \/ ProceedFails(cmd[rp])

\* pstorage_sys_event_handler up to app_notify, the command at rp is finished.
SysEventFinished ==
  /\ notifying = NoSlot
  /\ evt = "ok" /\ flash_access
  /\ CommandFinished
  /\ evt' = "none"
  /\ flash_access' = FALSE
  /\ m_round_val' = 0
  /\ count' = count - 1
  /\ rp' = Wrap(rp + 1)
  /\ notifying' = rp
  /\ UNCHANGED <<cmd, sd, flash>>

\* pstorage_sys_event_handler after app_notify: the slot is freed and what is
\* queued goes on, unless the callback has set it going already.
CallbackReturns ==
  /\ notifying # NoSlot
  /\ LET freed == ElementInit(notifying)
     IN  \/ /\ IF count > 0 /\ ~flash_access
                 THEN Proceed(freed[rp], m_round_val)
                 ELSE UNCHANGED <<flash_access, sd>>
            /\ cmd' = freed
            /\ notifying' = NoSlot
            /\ UNCHANGED <<rp, count, m_round_val, evt, flash>>
         \/ /\ count > 0 /\ ~flash_access
            /\ ProceedFails(freed[rp])

\* pstorage_sys_event_handler, the operation failed: the client is told
\* NRF_ERROR_TIMEOUT and restarts the chip.
SysEventError ==
  /\ notifying = NoSlot
  /\ evt = "err" /\ flash_access
  /\ Restart
  /\ UNCHANGED flash

\* The supply fails; the sector the SoftDevice is working on may be left with
\* anything in it.
PowerFail ==
  /\ PowerFails
  /\ Restart
  /\ \/ UNCHANGED flash
     \/ sd # NoJob /\ flash' = [flash EXCEPT ![sd.sector] = Fifo!Garbage]

Next ==
  \/ \E c \in Fifo!Command :
       pstorage_store(c) \/ pstorage_clear(c) \/ CallbackEnqueue(c)
  \/ \E outcome \in SdOutcomes : SdFinish(outcome)
  \/ SysEventNextRound
  \/ SysEventFinished
  \/ CallbackReturns
  \/ SysEventError
  \/ PowerFail

Spec == Init /\ [][Next]_vars

\* The SoftDevice finishes what it took, the main loop polls the events, and a
\* callback is a function that returns.
Fairness ==
  /\ WF_vars(\E outcome \in SdOutcomes : SdFinish(outcome))
  /\ WF_vars(SysEventNextRound \/ SysEventFinished)
  /\ WF_vars(CallbackReturns)

FairSpec == Spec /\ Fairness

-----------------------------------------------------------------------------
\* Type invariant.
TypeOK ==
  /\ rp \in Slot
  /\ count \in 0 .. QueueSize
  /\ flash_access \in BOOLEAN
  /\ cmd \in [Slot -> Fifo!Command \cup {Free}]
  /\ m_round_val \in Nat
  /\ notifying \in Slot \cup {NoSlot}
  /\ sd \in [sector : Fifo!Sector, value : Fifo!Content] \cup {NoJob}
  /\ evt \in {"none", "ok", "err"}
  /\ flash \in [Fifo!Sector -> Fifo!Content]

\* The slots a command occupies: fewer than count steps on from rp.
Distance(s) == IF s >= rp THEN s - rp ELSE s + QueueSize - rp
Occupied    == {s \in Slot : Distance(s) < count}

\* A slot is free exactly when it is outside the window that starts at rp: an
\* accepted command is never wiped, and no finished one is left behind to be
\* carried out again.  (The slot of a running notification is still full.)
WindowIsOccupied ==
  \A s \in Slot \ {notifying} : cmd[s] # Free <=> s \in Occupied

\* The flag that stops a second flash call is up exactly while an operation is
\* in flight or its event waits to be handled: no event is ever dropped because
\* the flag is down, and no command waits for an event nobody will raise.
FlagMatchesFlight == flash_access <=> (sd # NoJob \/ evt # "none")

\* Whatever is in flight, or has just ended, is the next sector of the command
\* at rp.  An event is therefore charged to the command it belongs to, however
\* clients, callbacks and the SoftDevice interleave.
FlightIsHead ==
  /\ flash_access => count > 0 /\ cmd[rp] # Free /\ m_round_val < cmd[rp].rounds
  /\ sd # NoJob => sd = [sector |-> cmd[rp].addr + m_round_val,
                         value |-> cmd[rp].data]

\* The module behaves like the queue it promises to be: in order, every sector
\* exactly once, a crash loses a suffix and tears at most one sector.
ImplementsFifo == Fifo!FifoSpec

\* The header's promise to a client whose call returned NRF_SUCCESS: its
\* command is carried out and it is told so.  slot s holds one command from the
\* enqueue to the return of that notification.
EveryCommandNotified == \A s \in Slot : cmd[s] # Free ~> notifying = s
=============================================================================
