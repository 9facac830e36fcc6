------------------------------ MODULE FlashFifo ------------------------------
(***************************************************************************)
(* What the raw persistent-storage module promises its clients: commands   *)
(* are carried out strictly in the order in which they were accepted, one  *)
(* flash operation at a time, every sector of a command exactly once, and  *)
(* a command leaves the queue only after its last sector.  A reset forgets *)
(* the queue, and can tear the one sector that was being programmed.       *)
(***************************************************************************)
EXTENDS Naturals, Sequences

CONSTANTS
  NumSectors, \* flash sectors the commands address; one sd_flash_* call each
  Data,       \* what a store can put into a sector
  Capacity    \* PSTORAGE_CMD_QUEUE_SIZE

Sector == 0 .. NumSectors - 1

\* Erased is the state 0xFF..FF of a sector; Garbage stands for every content
\* that is neither erased nor what some store wanted there.
Erased  == <<"erased">>
Garbage == <<"garbage">>
Stored(d) == <<"data", d>>
Content == {Erased, Garbage} \cup {Stored(d) : d \in Data}

\* A command covers rounds consecutive sectors from addr on.
Command ==
  {c \in [op : {"store", "clear"}, addr : Sector, rounds : 1 .. NumSectors,
          data : Content] :
     /\ c.addr + c.rounds <= NumSectors
     /\ c.op = "clear" => c.data = Erased
     /\ c.op = "store" => c.data \in {Stored(d) : d \in Data}}

\* NOR flash: an erase always succeeds in making the sector Erased, but a store
\* can only clear bits, so on a sector that holds something else it leaves a mix.
Programmed(old, new) ==
  IF new = Erased \/ old \in {Erased, new} THEN new ELSE Garbage

VARIABLES
  pending,   \* the accepted commands not yet carried out, oldest first
  progress,  \* sectors of Head(pending) already programmed
  flash      \* the content of every sector

fifoVars == <<pending, progress, flash>>

FifoInit ==
  /\ pending = <<>>
  /\ progress = 0
  /\ flash \in [Sector -> Content]

\* A client hands over a command.
Submit(c) ==
  /\ Len(pending) < Capacity
  /\ pending' = Append(pending, c)
  /\ UNCHANGED <<progress, flash>>

\* The next sector of the oldest command is erased or written.
Program ==
  /\ pending # <<>>
  /\ progress < Head(pending).rounds
  /\ LET s == Head(pending).addr + progress
     IN  flash' = [flash EXCEPT ![s] = Programmed(@, Head(pending).data)]
  /\ progress' = progress + 1
  /\ UNCHANGED pending

\* The oldest command is finished and its client told.
Retire ==
  /\ pending # <<>>
  /\ progress = Head(pending).rounds
  /\ pending' = Tail(pending)
  /\ progress' = 0
  /\ UNCHANGED flash

\* RAM is lost.  Only the sector being programmed can be damaged.
Lose ==
  /\ pending' = <<>>
  /\ progress' = 0
  /\ \/ UNCHANGED flash
     \/ /\ pending # <<>>
        /\ progress < Head(pending).rounds
        /\ flash' = [flash EXCEPT ![Head(pending).addr + progress] = Garbage]

FifoNext ==
  \/ \E c \in Command : Submit(c)
  \/ Program
  \/ Retire
  \/ Lose

FifoSpec == FifoInit /\ [][FifoNext]_fifoVars
=============================================================================
