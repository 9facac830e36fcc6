--------------------------- MODULE PStorage_proof ---------------------------
(***************************************************************************)
(* PStorage for every queue size, every number of sectors and every set of *)
(* data: its invariants, and that it implements FlashFifo.                 *)
(***************************************************************************)
EXTENDS PStorage, SequenceTheorems, TLAPS

USE PStorageAssumption DEF PStorageAssumption

\* What the invariants of PStorage leave out and a step needs: an operation and
\* its event exclude each other, the progress of a command never reaches its
\* end while it is queued, and a running notification sits in the slot just
\* behind the window, which the callback cannot fill.
OneAtATime == sd = NoJob \/ evt = "none"

HeadUnfinished ==
  /\ count = 0 => m_round_val = 0
  /\ count > 0 => cmd[rp] \in Fifo!Command /\ m_round_val < cmd[rp].rounds

NotifyingIsBehind ==
  notifying # NoSlot => /\ count < QueueSize
                        /\ notifying = Wrap(rp + QueueSize - 1)
                        /\ cmd[notifying] # Free

IInv ==
  /\ TypeOK
  /\ FlagMatchesFlight
  /\ OneAtATime
  /\ HeadUnfinished
  /\ FlightIsHead
  /\ NotifyingIsBehind
  /\ WindowIsOccupied

-----------------------------------------------------------------------------
\* The fields of a command, so that the definition need not be opened again.
LEMMA CommandFields ==
  ASSUME NEW c \in Fifo!Command
  PROVE  /\ c.op \in {"store", "clear"}
         /\ c.addr \in Nat /\ c.rounds \in Nat /\ c.rounds > 0
         /\ c.addr + c.rounds <= NumSectors
         /\ c.data \in Fifo!Content
         /\ c # Free
BY DEF Fifo!Command, Fifo!Sector, Free

\* A sector of a command is a sector of the flash, and never the one of NoJob.
LEMMA JobOfCommand ==
  ASSUME NEW c \in Fifo!Command, NEW rd \in Nat, rd < c.rounds
  PROVE  LET job == [sector |-> c.addr + rd, value |-> c.data]
         IN  /\ job \in [sector : Fifo!Sector, value : Fifo!Content]
             /\ job # NoJob
BY CommandFields, SMT DEF Fifo!Sector, NoJob

\* Programming a sector leaves one of the contents a sector can have.
LEMMA ProgrammedContent ==
  ASSUME NEW old \in Fifo!Content, NEW new \in Fifo!Content
  PROVE  Fifo!Programmed(old, new) \in Fifo!Content
BY DEF Fifo!Programmed, Fifo!Content

\* Init establishes the invariant.
LEMMA InitIInv == Init => IInv
<1> SUFFICES ASSUME Init PROVE IInv
  OBVIOUS
<1> USE DEF Init
<1>1. TypeOK
  <2>1. rp \in Slot /\ count \in 0 .. QueueSize /\ m_round_val \in Nat
    BY DEF Slot
  <2>2. cmd \in [Slot -> Fifo!Command \cup {Free}]
    OBVIOUS
  <2> QED
    BY <2>1, <2>2 DEF TypeOK
<1>2. FlagMatchesFlight /\ OneAtATime /\ HeadUnfinished /\ FlightIsHead
  BY DEF FlagMatchesFlight, OneAtATime, HeadUnfinished, FlightIsHead
<1>3. NotifyingIsBehind
  BY DEF NotifyingIsBehind
<1>4. WindowIsOccupied
  BY DEF WindowIsOccupied, Occupied, Distance, Slot
<1> QED
  BY <1>1, <1>2, <1>3, <1>4 DEF IInv

\* A restart, from whatever state, is as good as Init.
LEMMA RestartIInv ==
  ASSUME Restart, flash' \in [Fifo!Sector -> Fifo!Content]
  PROVE  IInv'
<1> USE DEF Restart
<1>1. TypeOK'
  <2>1. rp' \in Slot /\ count' \in 0 .. QueueSize /\ m_round_val' \in Nat
    BY DEF Slot
  <2>2. cmd' \in [Slot -> Fifo!Command \cup {Free}]
    OBVIOUS
  <2> QED
    BY <2>1, <2>2 DEF TypeOK
<1>2. FlagMatchesFlight' /\ OneAtATime' /\ HeadUnfinished' /\ FlightIsHead'
  BY DEF FlagMatchesFlight, OneAtATime, HeadUnfinished, FlightIsHead
<1>3. NotifyingIsBehind'
  BY DEF NotifyingIsBehind
<1>4. WindowIsOccupied'
  BY DEF WindowIsOccupied, Occupied, Distance, Slot
<1> QED
  BY <1>1, <1>2, <1>3, <1>4 DEF IInv

-----------------------------------------------------------------------------
\* What cmd_process does to the flag and to the SoftDevice's job, for a command
\* and a round that the command has.
LEMMA CmdProcessEffect ==
  ASSUME NEW c \in Fifo!Command, NEW rd \in Nat, rd < c.rounds,
         NEW reply, CmdProcess(c, rd, reply),
         sd \in [sector : Fifo!Sector, value : Fifo!Content] \cup {NoJob}
  PROVE  /\ flash_access' \in BOOLEAN
         /\ sd' \in [sector : Fifo!Sector, value : Fifo!Content] \cup {NoJob}
         /\ flash_access' =>
              /\ sd = NoJob
              /\ sd' # NoJob
              /\ sd' = [sector |-> c.addr + rd, value |-> c.data]
         /\ ~flash_access' => sd' = sd
<1>1. c.op # "invalid"
  BY CommandFields
<1>2. CASE reply = "SUCCESS"
  <2>1. sd = NoJob
    BY <1>1, <1>2 DEF CmdProcess, Replies
  <2> QED
    BY <1>2, <2>1, JobOfCommand DEF CmdProcess
<1>3. CASE reply # "SUCCESS"
  BY <1>3 DEF CmdProcess
<1> QED
  BY <1>2, <1>3

\* The slot that an enqueue fills is the first one behind the window.
LEMMA NextSlot ==
  ASSUME rp \in Slot, count \in 0 .. QueueSize, count # QueueSize
  PROVE  /\ Wrap(rp + count) \in Slot
         /\ Wrap(rp + count) \notin Occupied
         /\ \A s \in Slot : s \in Occupied \/ s = Wrap(rp + count)
                              <=> Distance(s) < count + 1
         /\ count = 0 => Wrap(rp + count) = rp
         /\ count > 0 => Wrap(rp + count) # rp
BY SMT DEF Slot, Wrap, Occupied, Distance

LEMMA EnqueueIInv ==
  ASSUME IInv, NEW c \in Fifo!Command, CmdQueueEnqueue(c),
         notifying # NoSlot => count < QueueSize - 1
  PROVE  IInv'
<1> DEFINE free == Wrap(rp + count)
<1> USE DEF IInv
<1>1. /\ free \in Slot /\ free \notin Occupied
      /\ cmd' = [cmd EXCEPT ![free] = c]
      /\ count' = count + 1 /\ count < QueueSize
      /\ rp' = rp /\ m_round_val' = m_round_val /\ notifying' = notifying
      /\ evt' = evt /\ flash' = flash
  BY NextSlot DEF CmdQueueEnqueue, TypeOK
<1>2. \A s \in Slot : cmd'[s] = IF s = free THEN c ELSE cmd[s]
  BY <1>1 DEF TypeOK
<1>3. rp \in Slot /\ cmd'[rp] \in Fifo!Command /\ m_round_val < cmd'[rp].rounds
      /\ m_round_val \in Nat
  <2>1. CASE count = 0
    BY <1>1, <1>2, <2>1, NextSlot, CommandFields DEF HeadUnfinished, TypeOK
  <2>2. CASE count > 0
    BY <1>1, <1>2, <2>2, NextSlot DEF HeadUnfinished, TypeOK
  <2> QED
    BY <2>1, <2>2 DEF TypeOK
<1>4. /\ flash_access' \in BOOLEAN
      /\ sd' \in [sector : Fifo!Sector, value : Fifo!Content] \cup {NoJob}
      /\ FlagMatchesFlight'
      /\ OneAtATime'
      /\ sd' # NoJob => sd' = [sector |-> cmd'[rp].addr + m_round_val,
                               value |-> cmd'[rp].data]
  <2>1. CASE flash_access
    <3>1. flash_access' = flash_access /\ sd' = sd
      BY <2>1 DEF CmdQueueEnqueue
    <3>2. cmd'[rp] = cmd[rp]
      BY <1>1, <1>2, <1>3, <2>1, NextSlot DEF FlightIsHead, TypeOK
    <3> QED
      BY <1>1, <3>1, <3>2 DEF FlagMatchesFlight, OneAtATime, FlightIsHead, TypeOK
  <2>2. CASE ~flash_access
    <3>1. PICK reply : CmdProcess(cmd'[rp], m_round_val, reply)
      BY <2>2 DEF CmdQueueEnqueue
    <3>2. sd = NoJob /\ evt = "none"
      BY <2>2 DEF FlagMatchesFlight
    <3> QED
      BY <1>1, <1>3, <3>1, <3>2, CmdProcessEffect
         DEF FlagMatchesFlight, OneAtATime, TypeOK
  <2> QED
    BY <2>1, <2>2
<1>5. TypeOK'
  BY <1>1, <1>3, <1>4 DEF TypeOK
<1>6. HeadUnfinished' /\ FlightIsHead'
  BY <1>1, <1>3, <1>4, CommandFields DEF HeadUnfinished, FlightIsHead, TypeOK
<1>7. NotifyingIsBehind'
  <2> SUFFICES ASSUME notifying # NoSlot
               PROVE  /\ count' < QueueSize
                      /\ notifying = Wrap(rp + QueueSize - 1)
                      /\ cmd'[notifying] # Free
    BY <1>1 DEF NotifyingIsBehind, NoSlot
  <2>1. notifying = Wrap(rp + QueueSize - 1) /\ cmd[notifying] # Free
    BY DEF NotifyingIsBehind
  <2>2. notifying \in Slot
    BY DEF TypeOK
  <2> QED
    BY <1>1, <1>2, <2>1, <2>2, CommandFields DEF TypeOK
<1>8. WindowIsOccupied'
  <2> SUFFICES ASSUME NEW s \in Slot, s # notifying
               PROVE  cmd'[s] # Free <=> Distance(s) < count + 1
    BY <1>1 DEF WindowIsOccupied, Occupied, Distance
  <2>1. cmd[s] # Free <=> s \in Occupied
    BY DEF WindowIsOccupied
  <2>2. s \in Occupied \/ s = free <=> Distance(s) < count + 1
    BY <1>1, NextSlot DEF TypeOK
  <2> QED
    BY <1>1, <1>2, <2>1, <2>2, CommandFields
<1> QED
  BY <1>1, <1>4, <1>5, <1>6, <1>7, <1>8

-----------------------------------------------------------------------------
\* The SoftDevice finishing its operation only turns the job into its event.
LEMMA SdFinishIInv ==
  ASSUME IInv, NEW outcome, SdFinish(outcome)
  PROVE  IInv'
<1> USE DEF IInv
<1>1. /\ sd # NoJob /\ sd' = NoJob
      /\ evt' \in {"ok", "err"}
      /\ rp' = rp /\ count' = count /\ flash_access' = flash_access /\ cmd' = cmd
      /\ m_round_val' = m_round_val /\ notifying' = notifying
  BY DEF SdFinish
<1>2. flash' \in [Fifo!Sector -> Fifo!Content]
  <2>1. sd.sector \in Fifo!Sector /\ sd.value \in Fifo!Content
    BY <1>1 DEF TypeOK
  <2> QED
    BY <2>1, ProgrammedContent DEF SdFinish, TypeOK
<1>3. TypeOK'
  BY <1>1, <1>2 DEF TypeOK
<1>4. FlagMatchesFlight' /\ OneAtATime' /\ HeadUnfinished' /\ FlightIsHead'
  BY <1>1 DEF FlagMatchesFlight, OneAtATime, HeadUnfinished, FlightIsHead
<1>5. NotifyingIsBehind'
  BY <1>1 DEF NotifyingIsBehind
<1>6. WindowIsOccupied'
  BY <1>1 DEF WindowIsOccupied, Occupied, Distance
<1> QED
  BY <1>3, <1>4, <1>5, <1>6

\* What ProceedFails and PowerFail leave is what Restart leaves.
LEMMA ProceedFailsIInv ==
  ASSUME IInv, NEW c, ProceedFails(c)
  PROVE  IInv'
BY RestartIInv DEF ProceedFails, IInv, TypeOK

LEMMA SysEventErrorIInv ==
  ASSUME IInv, SysEventError
  PROVE  IInv'
BY RestartIInv DEF SysEventError, IInv, TypeOK

LEMMA PowerFailIInv ==
  ASSUME IInv, PowerFail
  PROVE  IInv'
<1>1. flash' \in [Fifo!Sector -> Fifo!Content]
  <2>1. CASE flash' = flash
    BY <2>1 DEF IInv, TypeOK
  <2>2. CASE sd # NoJob /\ flash' = [flash EXCEPT ![sd.sector] = Fifo!Garbage]
    <3>1. Fifo!Garbage \in Fifo!Content
      BY DEF Fifo!Content
    <3> QED
      BY <2>2, <3>1 DEF IInv, TypeOK
  <2> QED
    BY <2>1, <2>2 DEF PowerFail
<1> QED
  BY <1>1, RestartIInv DEF PowerFail

\* The next sector of a command that has more of them.
LEMMA NextRoundIInv ==
  ASSUME IInv, SysEventNextRound
  PROVE  IInv'
<1> USE DEF IInv
<1>1. CASE ProceedFails(cmd[rp])
  BY <1>1, ProceedFailsIInv
<1>2. CASE ~ProceedFails(cmd[rp])
  <2>1. /\ m_round_val' = m_round_val + 1 /\ evt' = "none"
        /\ rp' = rp /\ count' = count /\ cmd' = cmd
        /\ notifying' = notifying /\ flash' = flash
        /\ Proceed(cmd[rp], m_round_val + 1)
    BY <1>2 DEF SysEventNextRound
  <2>2. /\ count > 0 /\ cmd[rp] \in Fifo!Command
        /\ m_round_val \in Nat /\ m_round_val + 1 < cmd[rp].rounds
    BY CommandFields
       DEF SysEventNextRound, CommandFinished, FlightIsHead, HeadUnfinished,
           TypeOK
  <2>3. sd = NoJob
    BY DEF SysEventNextRound, OneAtATime
  <2>4. /\ flash_access' \in BOOLEAN
        /\ sd' \in [sector : Fifo!Sector, value : Fifo!Content] \cup {NoJob}
        /\ flash_access' <=> sd' # NoJob
        /\ sd' # NoJob => sd' = [sector |-> cmd[rp].addr + (m_round_val + 1),
                                 value |-> cmd[rp].data]
    <3>1. PICK reply : CmdProcess(cmd[rp], m_round_val + 1, reply)
      BY <2>1 DEF Proceed
    <3>2. m_round_val + 1 \in Nat
      BY <2>2
    <3> QED
      BY <2>2, <2>3, <3>1, <3>2, CmdProcessEffect DEF TypeOK
  <2>5. TypeOK'
    BY <2>1, <2>2, <2>4 DEF TypeOK
  <2>6. FlagMatchesFlight' /\ OneAtATime' /\ HeadUnfinished' /\ FlightIsHead'
    BY <2>1, <2>2, <2>4, CommandFields
       DEF FlagMatchesFlight, OneAtATime, HeadUnfinished, FlightIsHead
  <2>7. NotifyingIsBehind'
    BY <2>1 DEF NotifyingIsBehind
  <2>8. WindowIsOccupied'
    BY <2>1 DEF WindowIsOccupied, Occupied, Distance
  <2> QED
    BY <2>4, <2>5, <2>6, <2>7, <2>8
<1> QED
  BY <1>1, <1>2

\* Taking the head out of the window moves every other slot one step nearer.
LEMMA WindowAdvances ==
  ASSUME rp \in Slot, count \in 1 .. QueueSize
  PROVE  /\ Wrap(rp + 1) \in Slot
         /\ rp = Wrap(Wrap(rp + 1) + QueueSize - 1)
         /\ \A s \in Slot \ {rp} :
              (IF s >= Wrap(rp + 1) THEN s - Wrap(rp + 1)
                                    ELSE s + QueueSize - Wrap(rp + 1)) < count - 1
                <=> Distance(s) < count
         /\ count > 1 => Wrap(rp + 1) # rp /\ Distance(Wrap(rp + 1)) = 1
BY SMT DEF Slot, Wrap, Distance

\* The command at rp is finished and its client's callback begins.
LEMMA FinishedIInv ==
  ASSUME IInv, SysEventFinished
  PROVE  IInv'
<1> USE DEF IInv
<1>1. /\ evt' = "none" /\ flash_access' = FALSE /\ m_round_val' = 0
      /\ count' = count - 1 /\ rp' = Wrap(rp + 1) /\ notifying' = rp
      /\ cmd' = cmd /\ sd' = sd /\ flash' = flash
      /\ notifying = NoSlot /\ evt = "ok" /\ flash_access
  BY DEF SysEventFinished
<1>2. rp \in Slot /\ count \in 1 .. QueueSize /\ cmd[rp] \in Fifo!Command
  BY <1>1 DEF FlightIsHead, HeadUnfinished, TypeOK
<1>3. sd = NoJob
  BY <1>1 DEF OneAtATime
<1>4. TypeOK'
  <2>1. count' \in 0 .. QueueSize /\ rp' \in Slot /\ notifying' \in Slot
    BY <1>1, <1>2, WindowAdvances
  <2> QED
    BY <1>1, <2>1 DEF TypeOK
<1>5. FlagMatchesFlight' /\ OneAtATime' /\ FlightIsHead'
  BY <1>1, <1>3 DEF FlagMatchesFlight, OneAtATime, FlightIsHead
<1>6. WindowIsOccupied'
  <2> SUFFICES ASSUME NEW s \in Slot, s # rp
               PROVE  cmd[s] # Free <=> s \in Occupied'
    BY <1>1 DEF WindowIsOccupied
  <2>1. cmd[s] # Free <=> Distance(s) < count
    BY <1>1 DEF WindowIsOccupied, Occupied, NoSlot, Slot
  <2> QED
    BY <1>1, <1>2, <2>1, WindowAdvances DEF Occupied, Distance
<1>7. HeadUnfinished'
  <2>1. count' = 0 => m_round_val' = 0
    BY <1>1
  <2>2. ASSUME count' > 0
        PROVE  cmd'[rp'] \in Fifo!Command /\ m_round_val' < cmd'[rp'].rounds
    <3>1. count > 1
      BY <1>1, <1>2, <2>2
    <3>2. rp' \in Slot /\ rp' # rp /\ Distance(rp') < count
      BY <1>1, <1>2, <3>1, WindowAdvances
    <3>3. cmd[rp'] # Free
      BY <1>1, <3>2 DEF WindowIsOccupied, Occupied, NoSlot, Slot
    <3>4. cmd[rp'] \in Fifo!Command
      BY <3>2, <3>3 DEF TypeOK
    <3> QED
      BY <1>1, <3>4, CommandFields
  <2> QED
    BY <2>1, <2>2 DEF HeadUnfinished
<1>8. NotifyingIsBehind'
  <2>1. count' < QueueSize
    BY <1>1, <1>2
  <2> QED
    BY <1>1, <1>2, <2>1, WindowAdvances, CommandFields DEF NotifyingIsBehind
<1> QED
  BY <1>4, <1>5, <1>6, <1>7, <1>8

\* The slot of a finished command is never inside the window: it is Q - 1 steps
\* on from rp, and a running callback leaves at least that slot alone.
LEMMA NotifyingOutside ==
  ASSUME rp \in Slot, count \in 0 .. QueueSize, count < QueueSize
  PROVE  /\ Wrap(rp + QueueSize - 1) \in Slot
         /\ Wrap(rp + QueueSize - 1) \notin Occupied
         /\ count > 0 => Wrap(rp + QueueSize - 1) # rp
BY SMT DEF Slot, Wrap, Occupied, Distance

\* The callback returns, its slot is freed, and the queue goes on.
LEMMA CallbackReturnsIInv ==
  ASSUME IInv, CallbackReturns
  PROVE  IInv'
<1> DEFINE freed == [cmd EXCEPT ![notifying] = Free]
<1> USE DEF IInv
<1>1. CASE ProceedFails(freed[rp])
  BY <1>1, ProceedFailsIInv
<1>2. CASE ~ProceedFails(freed[rp])
  <2>1. /\ IF count > 0 /\ ~flash_access THEN Proceed(freed[rp], m_round_val)
                                         ELSE UNCHANGED <<flash_access, sd>>
        /\ cmd' = freed /\ notifying' = NoSlot
        /\ rp' = rp /\ count' = count /\ m_round_val' = m_round_val
        /\ evt' = evt /\ flash' = flash
    BY <1>2 DEF CallbackReturns, ElementInit
  <2>2. /\ rp \in Slot /\ notifying \in Slot /\ notifying \notin Occupied
        /\ count \in 0 .. QueueSize
        /\ count > 0 => notifying # rp
    BY NotifyingOutside DEF CallbackReturns, NotifyingIsBehind, TypeOK
  <2>3. \A s \in Slot : freed[s] = IF s = notifying THEN Free ELSE cmd[s]
    BY <2>2 DEF TypeOK
  <2>4. count > 0 => freed[rp] = cmd[rp]
    BY <2>2, <2>3
  <2>5. /\ flash_access' \in BOOLEAN
        /\ sd' \in [sector : Fifo!Sector, value : Fifo!Content] \cup {NoJob}
        /\ FlagMatchesFlight' /\ OneAtATime' /\ FlightIsHead'
    <3>1. CASE count > 0 /\ ~flash_access
      <4>1. PICK reply : CmdProcess(cmd[rp], m_round_val, reply)
        BY <2>1, <2>4, <3>1 DEF Proceed
      <4>2. /\ cmd[rp] \in Fifo!Command /\ m_round_val \in Nat
            /\ m_round_val < cmd[rp].rounds /\ sd = NoJob /\ evt = "none"
        BY <3>1 DEF HeadUnfinished, FlagMatchesFlight, TypeOK
      <4> QED
        BY <2>1, <2>4, <3>1, <4>1, <4>2, CmdProcessEffect, CommandFields
           DEF FlagMatchesFlight, OneAtATime, FlightIsHead, TypeOK
    <3>2. CASE ~(count > 0 /\ ~flash_access)
      <4>1. flash_access' = flash_access /\ sd' = sd
        BY <2>1, <3>2
      <4> QED
        BY <2>1, <2>4, <4>1
           DEF FlagMatchesFlight, OneAtATime, FlightIsHead, TypeOK
    <3> QED
      BY <3>1, <3>2
  <2>6. TypeOK'
    BY <2>1, <2>2, <2>5 DEF TypeOK
  <2>7. HeadUnfinished'
    BY <2>1, <2>4 DEF HeadUnfinished
  <2>8. NotifyingIsBehind'
    BY <2>1 DEF NotifyingIsBehind, NoSlot
  <2>9. WindowIsOccupied'
    <3> SUFFICES ASSUME NEW s \in Slot
                 PROVE  freed[s] # Free <=> s \in Occupied
      BY <2>1 DEF WindowIsOccupied, Occupied, Distance
    <3> QED
      BY <2>2, <2>3 DEF WindowIsOccupied
  <2> QED
    BY <2>5, <2>6, <2>7, <2>8, <2>9
<1> QED
  BY <1>1, <1>2

\* The enqueues of the main loop and of a callback.
LEMMA ClientIInv ==
  ASSUME IInv, NEW c \in Fifo!Command,
         pstorage_store(c) \/ pstorage_clear(c) \/ CallbackEnqueue(c)
  PROVE  IInv'
BY EnqueueIInv DEF pstorage_store, pstorage_clear, CallbackEnqueue

LEMMA NextIInv == IInv /\ [Next]_vars => IInv'
<1> SUFFICES ASSUME IInv, [Next]_vars PROVE IInv'
  OBVIOUS
<1>1. CASE UNCHANGED vars
  BY <1>1 DEF vars, ram, IInv, TypeOK, FlagMatchesFlight, OneAtATime,
              HeadUnfinished, FlightIsHead, NotifyingIsBehind, WindowIsOccupied,
              Occupied, Distance
<1>2. ASSUME NEW c \in Fifo!Command,
             pstorage_store(c) \/ pstorage_clear(c) \/ CallbackEnqueue(c)
      PROVE  IInv'
  BY <1>2, ClientIInv
<1>3. ASSUME NEW outcome \in SdOutcomes, SdFinish(outcome) PROVE IInv'
  BY <1>3, SdFinishIInv
<1>4. CASE SysEventNextRound
  BY <1>4, NextRoundIInv
<1>5. CASE SysEventFinished
  BY <1>5, FinishedIInv
<1>6. CASE CallbackReturns
  BY <1>6, CallbackReturnsIInv
<1>7. CASE SysEventError \/ PowerFail
  BY <1>7, SysEventErrorIInv, PowerFailIInv
<1> QED
  BY <1>1, <1>2, <1>3, <1>4, <1>5, <1>6, <1>7 DEF Next

\* The inductive invariant holds in every reachable state.
THEOREM Invariance == Spec => []IInv
BY InitIInv, NextIInv, PTL DEF Spec

\* Every variable of pstorage_raw.c keeps its type.
THEOREM TypeCorrect == Spec => []TypeOK
<1>1. IInv => TypeOK
  BY DEF IInv
<1> QED
  BY <1>1, Invariance, PTL

\* No accepted command is ever wiped and no finished one left in the ring.
THEOREM NoCommandLost == Spec => []WindowIsOccupied
<1>1. IInv => WindowIsOccupied
  BY DEF IInv
<1> QED
  BY <1>1, Invariance, PTL

\* The flag, the SoftDevice and its event agree, so that no event is dropped.
THEOREM FlagCorrect == Spec => []FlagMatchesFlight
<1>1. IInv => FlagMatchesFlight
  BY DEF IInv
<1> QED
  BY <1>1, Invariance, PTL

\* An event is always charged to the command and the sector it belongs to.
THEOREM FlightCorrect == Spec => []FlightIsHead
<1>1. IInv => FlightIsHead
  BY DEF IInv
<1> QED
  BY <1>1, Invariance, PTL

-----------------------------------------------------------------------------
(* PStorage implements FlashFifo: every step of the ring is a step of the    *)
(* queue it stands for, or leaves that queue as it is.                       *)

\* The i-th command of the window sits in an occupied slot.
LEMMA WindowSlots ==
  ASSUME rp \in Slot, count \in 0 .. QueueSize, NEW i \in 1 .. count
  PROVE  /\ Wrap(rp + (i - 1)) \in Slot
         /\ Wrap(rp + (i - 1)) \in Occupied
         /\ i = 1 => Wrap(rp + (i - 1)) = rp
BY SMT DEF Slot, Wrap, Occupied, Distance

\* Under the invariant the ring reads as a sequence of commands.
LEMMA QueuedIsSeq ==
  ASSUME IInv
  PROVE  /\ Queued \in Seq(Fifo!Command)
         /\ Len(Queued) = count
         /\ \A i \in 1 .. count : Queued[i] = cmd[Wrap(rp + (i - 1))]
         /\ count > 0 => Head(Queued) = cmd[rp] /\ Queued # <<>>
<1>1. rp \in Slot /\ count \in 0 .. QueueSize /\ count \in Nat
  BY DEF IInv, TypeOK
<1>2. ASSUME NEW i \in 1 .. count PROVE cmd[Wrap(rp + (i - 1))] \in Fifo!Command
  <2>1. /\ Wrap(rp + (i - 1)) \in Slot
        /\ Wrap(rp + (i - 1)) \in Occupied
    BY <1>1, WindowSlots
  <2>2. CASE Wrap(rp + (i - 1)) = notifying
    <3>1. notifying # NoSlot /\ notifying \notin Occupied
      BY <1>1, <2>1, <2>2, NotifyingOutside
         DEF IInv, NotifyingIsBehind, NoSlot, Slot
    <3> QED
      BY <2>1, <2>2, <3>1
  <2>3. CASE Wrap(rp + (i - 1)) # notifying
    BY <2>1, <2>3 DEF IInv, WindowIsOccupied, TypeOK
  <2> QED
    BY <2>2, <2>3
<1>3. Queued \in Seq(Fifo!Command) /\ Len(Queued) = count
  BY <1>1, <1>2 DEF Queued
<1>4. \A i \in 1 .. count : Queued[i] = cmd[Wrap(rp + (i - 1))]
  BY DEF Queued
<1>5. ASSUME count > 0 PROVE Head(Queued) = cmd[rp] /\ Queued # <<>>
  <2>1. Queued[1] = cmd[rp]
    BY <1>1, <1>4, <1>5, WindowSlots
  <2> QED
    BY <1>3, <1>5, <2>1
<1> QED
  BY <1>3, <1>4, <1>5

\* An enqueue appends.
LEMMA EnqueueAppends ==
  ASSUME IInv, IInv', NEW c \in Fifo!Command, CmdQueueEnqueue(c)
  PROVE  Queued' = Append(Queued, c)
<1>1. rp \in Slot /\ count \in 0 .. QueueSize /\ count # QueueSize
  BY DEF IInv, TypeOK, CmdQueueEnqueue
<1>2. /\ count' = count + 1 /\ rp' = rp
      /\ cmd' = [cmd EXCEPT ![Wrap(rp + count)] = c]
  BY DEF CmdQueueEnqueue
<1>3. /\ Queued \in Seq(Fifo!Command) /\ Len(Queued) = count
      /\ \A i \in 1 .. count : Queued[i] = cmd[Wrap(rp + (i - 1))]
  BY QueuedIsSeq
<1>4. \A s \in Slot : cmd'[s] = IF s = Wrap(rp + count) THEN c ELSE cmd[s]
  BY <1>2 DEF IInv, TypeOK
<1>5. Queued' = [i \in 1 .. count + 1 |-> cmd'[Wrap(rp + (i - 1))]]
  BY <1>2 DEF Queued, Wrap
<1>6. ASSUME NEW i \in 1 .. count + 1
      PROVE  cmd'[Wrap(rp + (i - 1))] = Append(Queued, c)[i]
  <2>1. CASE i = count + 1
    <3>1. i - 1 = count
      BY <1>1, <2>1
    <3>2. cmd'[Wrap(rp + count)] = c
      BY <1>1, <1>4, NextSlot
    <3> QED
      BY <1>1, <1>3, <2>1, <3>1, <3>2
  <2>2. CASE i # count + 1
    <3>1. i \in 1 .. count
      BY <1>1, <2>2
    <3>2. /\ Wrap(rp + (i - 1)) \in Slot
          /\ Wrap(rp + (i - 1)) # Wrap(rp + count)
      BY <1>1, <3>1, WindowSlots, NextSlot
    <3>3. cmd'[Wrap(rp + (i - 1))] = Queued[i]
      BY <1>3, <1>4, <3>1, <3>2
    <3> QED
      BY <1>3, <2>2, <3>1, <3>3
  <2> QED
    BY <2>1, <2>2
<1>7. /\ Append(Queued, c) \in Seq(Fifo!Command)
      /\ Len(Append(Queued, c)) = count + 1
  BY <1>3
<1>8. Queued' \in Seq(Fifo!Command) /\ Len(Queued') = count + 1
  <2>1. ASSUME NEW i \in 1 .. count + 1
        PROVE  cmd'[Wrap(rp + (i - 1))] \in Fifo!Command
    BY <1>6, <1>7, ElementOfSeq
  <2> QED
    BY <1>1, <1>5, <2>1
<1>9. \A i \in 1 .. count + 1 : Queued'[i] = Append(Queued, c)[i]
  BY <1>5, <1>6
<1> QED
  BY <1>7, <1>8, <1>9, SeqEqual

\* Finishing the command at rp drops the head.
LEMMA FinishedDrops ==
  ASSUME IInv, IInv', SysEventFinished
  PROVE  /\ count > 0
         /\ Queued' = Tail(Queued)
<1>1. rp \in Slot /\ count \in 1 .. QueueSize
  BY DEF IInv, TypeOK, FlightIsHead, SysEventFinished
<1>2. count' = count - 1 /\ rp' = Wrap(rp + 1) /\ cmd' = cmd
  BY DEF SysEventFinished
<1>3. /\ Queued \in Seq(Fifo!Command) /\ Len(Queued) = count /\ Queued # <<>>
      /\ \A i \in 1 .. count : Queued[i] = cmd[Wrap(rp + (i - 1))]
  BY <1>1, QueuedIsSeq
<1>4. Queued' = [i \in 1 .. count - 1 |-> cmd[Wrap(Wrap(rp + 1) + (i - 1))]]
  BY <1>2 DEF Queued, Wrap
<1>5. /\ Tail(Queued) \in Seq(Fifo!Command)
      /\ Len(Tail(Queued)) = count - 1
      /\ \A i \in 1 .. count - 1 : Tail(Queued)[i] = Queued[i + 1]
  BY <1>3, HeadTailProperties
<1>6. ASSUME NEW i \in 1 .. count - 1
      PROVE  cmd[Wrap(Wrap(rp + 1) + (i - 1))] = Tail(Queued)[i]
  <2>1. Wrap(Wrap(rp + 1) + (i - 1)) = Wrap(rp + ((i + 1) - 1))
    BY <1>1, SMT DEF Wrap, Slot
  <2>2. i + 1 \in 1 .. count
    BY <1>1
  <2> QED
    BY <1>3, <1>5, <2>1, <2>2
<1>7. Queued' \in Seq(Fifo!Command) /\ Len(Queued') = count - 1
  BY <1>1, <1>4, <1>5, <1>6, ElementOfSeq
<1>8. \A i \in 1 .. count - 1 : Queued'[i] = Tail(Queued)[i]
  BY <1>4, <1>6
<1>9. Queued' = Tail(Queued)
  BY <1>5, <1>7, <1>8, SeqEqual
<1> QED
  BY <1>1, <1>9

\* Freeing the slot of a returned callback changes nothing in the window.
LEMMA FreeingIsInvisible ==
  ASSUME IInv, notifying # NoSlot, cmd' = [cmd EXCEPT ![notifying] = Free],
         rp' = rp, count' = count
  PROVE  Queued' = Queued
<1>1. /\ rp \in Slot /\ count \in 0 .. QueueSize /\ notifying \in Slot
      /\ notifying \notin Occupied
  BY NotifyingOutside DEF IInv, TypeOK, NotifyingIsBehind
<1>2. Queued' = [i \in 1 .. count |-> cmd'[Wrap(rp + (i - 1))]]
  BY DEF Queued, Wrap
<1>3. ASSUME NEW i \in 1 .. count
      PROVE  cmd'[Wrap(rp + (i - 1))] = cmd[Wrap(rp + (i - 1))]
  BY <1>1, WindowSlots DEF IInv, TypeOK
<1> QED
  BY <1>2, <1>3 DEF Queued

\* A restart empties the abstract queue.
LEMMA RestartEmpties ==
  ASSUME Restart
  PROVE  Queued' = <<>> /\ Done' = 0
<1>1. Queued' = [i \in 1 .. 0 |-> cmd'[Wrap(rp + (i - 1))']]
  BY DEF Restart, Queued
<1> QED
  BY <1>1 DEF Restart, Done

\* Every step of PStorage is a step of FlashFifo or leaves it alone.
LEMMA StepRefines ==
  ASSUME IInv, IInv', [Next]_vars
  PROVE  [Fifo!FifoNext]_Fifo!fifoVars
<1> USE DEF Fifo!FifoNext, Fifo!fifoVars
<1>1. CASE UNCHANGED vars
  BY <1>1 DEF vars, ram, Queued, Done, Wrap
<1>2. ASSUME NEW c \in Fifo!Command,
             pstorage_store(c) \/ pstorage_clear(c) \/ CallbackEnqueue(c)
      PROVE  Fifo!Submit(c)
  <2>1. CmdQueueEnqueue(c)
    BY <1>2 DEF pstorage_store, pstorage_clear, CallbackEnqueue
  <2>2. Len(Queued) < QueueSize
    BY <2>1, QueuedIsSeq DEF CmdQueueEnqueue, IInv, TypeOK
  <2>3. Queued' = Append(Queued, c)
    BY <2>1, EnqueueAppends
  <2>4. Done' = Done /\ flash' = flash
    BY <2>1 DEF CmdQueueEnqueue, Done
  <2> QED
    BY <2>2, <2>3, <2>4 DEF Fifo!Submit
<1>3. ASSUME NEW outcome \in SdOutcomes, SdFinish(outcome)
      PROVE  Fifo!Program \/ UNCHANGED Fifo!fifoVars
  <2>1. Queued' = Queued
    BY <1>3 DEF SdFinish, Queued, Wrap
  <2>2. Done = m_round_val
    BY <1>3 DEF SdFinish, IInv, OneAtATime, Done
  <2>3. /\ Queued # <<>> /\ Head(Queued) = cmd[rp]
        /\ m_round_val < cmd[rp].rounds
        /\ sd = [sector |-> cmd[rp].addr + m_round_val, value |-> cmd[rp].data]
    <3>1. count > 0
      BY <1>3 DEF SdFinish, IInv, FlagMatchesFlight, FlightIsHead
    <3> QED
      BY <1>3, <3>1, QueuedIsSeq DEF SdFinish, IInv, HeadUnfinished, FlightIsHead
  <2>4. CASE outcome = "ok"
    <3>1. Done' = Done + 1
      BY <1>3, <2>2, <2>4 DEF SdFinish, Done
    <3> QED
      BY <1>3, <2>1, <2>2, <2>3, <2>4, <3>1 DEF SdFinish, Fifo!Program
  <2>5. CASE outcome # "ok"
    BY <1>3, <2>1, <2>2, <2>5 DEF SdFinish, Done
  <2> QED
    BY <2>4, <2>5
<1>4. ASSUME Restart, flash' = flash PROVE Fifo!Lose
  BY <1>4, RestartEmpties DEF Fifo!Lose
<1>5. CASE SysEventNextRound
  <2>1. CASE ProceedFails(cmd[rp])
    BY <1>4, <2>1 DEF ProceedFails
  <2>2. CASE ~ProceedFails(cmd[rp])
    <3>1. Queued' = Queued /\ Done' = Done /\ flash' = flash
      BY <1>5, <2>2 DEF SysEventNextRound, Queued, Done, Wrap
    <3> QED
      BY <3>1
  <2> QED
    BY <2>1, <2>2
<1>6. ASSUME SysEventFinished PROVE Fifo!Retire
  <2>1. count > 0 /\ Queued' = Tail(Queued)
    BY <1>6, FinishedDrops
  <2>2. Queued # <<>> /\ Head(Queued) = cmd[rp]
    BY <2>1, QueuedIsSeq
  <2>3. Done = cmd[rp].rounds
    BY <1>6, <2>1, CommandFields
       DEF SysEventFinished, CommandFinished, Done, IInv, HeadUnfinished, TypeOK
  <2>4. Done' = 0 /\ flash' = flash
    BY <1>6 DEF SysEventFinished, Done
  <2> QED
    BY <2>1, <2>2, <2>3, <2>4 DEF Fifo!Retire
<1>7. CASE CallbackReturns
  <2> DEFINE freed == [cmd EXCEPT ![notifying] = Free]
  <2>1. CASE ProceedFails(freed[rp])
    BY <1>4, <2>1 DEF ProceedFails
  <2>2. CASE ~ProceedFails(freed[rp])
    <3>1. /\ cmd' = freed /\ rp' = rp /\ count' = count
          /\ notifying # NoSlot
          /\ Done' = Done /\ flash' = flash
      BY <1>7, <2>2 DEF CallbackReturns, ElementInit, Done
    <3> QED
      BY <3>1, FreeingIsInvisible
  <2> QED
    BY <2>1, <2>2
<1>8. CASE SysEventError
  BY <1>4, <1>8 DEF SysEventError
<1>9. CASE PowerFail
  <2>1. CASE flash' = flash
    BY <1>4, <1>9, <2>1 DEF PowerFail
  <2>2. CASE sd # NoJob /\ flash' = [flash EXCEPT ![sd.sector] = Fifo!Garbage]
    <3>1. Done = m_round_val
      BY <2>2 DEF IInv, OneAtATime, Done
    <3>2. count > 0
      BY <2>2 DEF IInv, FlagMatchesFlight, FlightIsHead
    <3>3. /\ Queued # <<>> /\ Head(Queued) = cmd[rp]
          /\ m_round_val < cmd[rp].rounds
          /\ sd.sector = cmd[rp].addr + m_round_val
      BY <2>2, <3>2, QueuedIsSeq DEF IInv, HeadUnfinished, FlightIsHead
    <3> QED
      BY <1>9, <2>2, <3>1, <3>3, RestartEmpties DEF PowerFail, Fifo!Lose
  <2> QED
    BY <1>9, <2>1, <2>2 DEF PowerFail
<1> QED
  BY <1>1, <1>2, <1>3, <1>5, <1>6, <1>7, <1>8, <1>9 DEF Next

\* pstorage_raw.c is a first-in first-out queue that carries out every sector
\* of every command exactly once, and that a crash can only cut short.
THEOREM Refinement == Spec => ImplementsFifo
<1>1. Init => Fifo!FifoInit
  <2> SUFFICES ASSUME Init PROVE Fifo!FifoInit
    OBVIOUS
  <2>1. Queued = [i \in 1 .. 0 |-> cmd[Wrap(rp + (i - 1))]] /\ Done = 0
    BY DEF Init, Queued, Done
  <2> QED
    BY <2>1 DEF Init, Fifo!FifoInit
<1>2. IInv /\ IInv' /\ [Next]_vars => [Fifo!FifoNext]_Fifo!fifoVars
  BY StepRefines
<1> QED
  BY <1>1, <1>2, Invariance, PTL DEF Spec, ImplementsFifo, Fifo!FifoSpec
=============================================================================
