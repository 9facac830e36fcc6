------------------------------- MODULE Uf2Disk -------------------------------
(***************************************************************************)
(* The update by drag and drop: write_block of ghostfat.c, the write       *)
(* callbacks of msc_uf2.c and the erasing write-back cache of              *)
(* flash_nrf5x.c, with the end of the session in bootloader.c.             *)
(*                                                                         *)
(* The host's file system writes the sectors of a UF2 file in any order    *)
(* and as often as it likes; a sector names the file's block it is, and    *)
(* where in flash its 256 bytes go.  Sectors that are no UF2 blocks change *)
(* nothing and are left out.  A WRITE10 command carries some sectors, and  *)
(* then its completion is reported: handlers of one main loop, between     *)
(* which the supply may fail and the session's inactivity timer, which no  *)
(* sector restarts, may run out.                                           *)
(***************************************************************************)
EXTENDS Integers, FiniteSets

CONSTANTS
  Files,       \* [name, family, numBlocks, target]: the files a host may copy
  Old,         \* the file that was installed when the device was delivered
  PageBlocks,  \* 256-byte blocks in a flash page
  AppBlocks,   \* blocks between USER_FLASH_START and USER_FLASH_END
  BootBlocks,  \* blocks of DFU_BL_IMAGE_MAX_SIZE
  Bank0,       \* the block at DFU_BANK_0_REGION_START
  MaxBlocks,   \* MAX_BLOCKS
  ManyFiles,   \* TRUE when a host may copy several files in a session
  PowerFails   \* TRUE when the supply may fail at any moment

App  == 0 .. AppBlocks - 1
Boot == 0 .. BootBlocks - 1
Page(a) == a \div PageBlocks

\* Where a block goes: in_app_space, in_bootloader_space, in_uicr_space, below
\* USER_FLASH_START, or anywhere else.  id: the board that the CF2 configuration
\* in the block, or the address in UICR, is for.
Targets == [space : {"app"}, at : App, id : {"none"}]
           \cup [space : {"boot"}, at : Boot, id : {"none", "ours", "theirs"}]
           \cup [space : {"uicr"}, at : {0}, id : {"ours", "theirs"}]
           \cup [space : {"mbr", "other"}, at : {0}, id : {"none"}]

Blocks(f) == 0 .. f.numBlocks - 1

\* Where the content of a block is stored: a new bootloader is received at the
\* top of the application's space.
Stored(f)  == IF f.family = "app" THEN "app" ELSE "boot"
Places(f)  == {n \in Blocks(f) : f.target[n].space = Stored(f)}
Address(f, n) == IF f.family = "app" THEN f.target[n].at
                 ELSE AppBlocks - BootBlocks + f.target[n].at

ASSUME Uf2DiskAssumption ==
  /\ PageBlocks \in Nat \ {0}
  /\ AppBlocks \in Nat /\ BootBlocks \in Nat \ {0} /\ BootBlocks <= AppBlocks
  /\ AppBlocks % PageBlocks = 0
  /\ Bank0 \in App
  /\ MaxBlocks \in Nat \ {0}
  /\ Old \in Files /\ Old.family = "app"
  /\ \A f \in Files :
       /\ f.family \in {"app", "boot", "other"}
       /\ f.numBlocks \in 1 .. MaxBlocks
       /\ f.target \in [Blocks(f) -> Targets]
       /\ \A m, n \in Places(f) : Address(f, m) = Address(f, n) => m = n
  /\ ManyFiles \in BOOLEAN
  /\ PowerFails \in BOOLEAN

Erased      == <<"erased">>
Garbage     == <<"garbage">>
Current     == <<"current">>    \* the bootloader that is running
Block(f, n) == <<"block", f.name, n>>
Contents    == {Erased, Garbage}
               \cup {Block(f, n) : f \in Files, n \in 0 .. MaxBlocks - 1}

VARIABLES
  flash,            \* the application's space
  bootloader,       \* the bootloader's space
  settings,         \* bank_0 of the settings page
  cache,            \* _fl_addr and _fl_buf of flash_nrf5x.c, or NoPage
  wr_state,         \* _wr_state
  m_update_status,
  phase,            \* "boot", "dfu" or "app"
  file              \* the file that the host is copying, or NoFile

vars == <<flash, bootloader, settings, cache, wr_state, m_update_status, phase,
          file>>

NoFile == [name |-> "none", family |-> "other", numBlocks |-> 0,
           target |-> <<>>]
NoPage == [page |-> AppBlocks, data |-> <<>>]

\* 0xffffffff as a number of blocks: more than are ever written.
Never == MaxBlocks + 1

NoWrites == [numBlocks |-> 0, numWritten |-> 0, aborted |-> FALSE,
             update_bootloader |-> FALSE, has_uicr |-> FALSE,
             boot_id_matches |-> FALSE, writtenMask |-> {}]

-----------------------------------------------------------------------------
(* flash_nrf5x.c. *)

\* What the flash will hold once the cached page is written back.
View(a) == IF Page(a) = cache.page THEN cache.data[a % PageBlocks] ELSE flash[a]

\* mutant: the cached page is forgotten.
FlushedDropped == flash

\* flash_nrf5x_flush(true): the page is erased and written.
Flushed == [a \in App |-> View(a)]

\* mutant: the page is not read first.
WrittenUnread(a, content) ==
  [page |-> Page(a),
   data |-> [k \in 0 .. PageBlocks - 1 |->
               IF k = a % PageBlocks THEN content ELSE Erased]]

\* flash_nrf5x_write of one block: another page is flushed and this one read
\* into the cache.
Written(a, content) ==
  [page |-> Page(a),
   data |-> [k \in 0 .. PageBlocks - 1 |->
               IF k = a % PageBlocks THEN content
               ELSE View(Page(a) * PageBlocks + k)]]

-----------------------------------------------------------------------------
(* write_block. *)

\* The CF2 configuration is looked at until it has matched once.
IdMismatch(t) == t.id = "theirs" /\ ~wr_state.boot_id_matches

\* mutant: the board is not looked at.
RefusedAnyBoard(f, t) ==
  \/ f.family = "other"
  \/ f.family = "app" /\ t.space \notin {"app", "mbr"}
  \/ f.family = "boot" /\ t.space \in {"app", "other"}

\* The blocks that are neither written nor counted (-1).
Refused(f, t) ==
  \/ f.family = "other"
  \/ f.family = "app" /\ t.space \notin {"app", "mbr"}
  \/ /\ f.family = "boot"
     /\ \/ t.space \in {"app", "other"}
        \/ t.space = "uicr" /\ t.id = "theirs"
        \/ t.space = "boot" /\ IdMismatch(t)

\* numBlocks after a block of f: two numbers that differ are never reached.
NumBlocks(f) ==
  IF wr_state.numBlocks = f.numBlocks THEN f.numBlocks
  ELSE IF f.numBlocks >= MaxBlocks \/ wr_state.numBlocks # 0 THEN Never
  ELSE f.numBlocks

\* numWritten after block n: "only increase written number with new write".
NumWritten(n) == wr_state.numWritten + (IF n \in wr_state.writtenMask THEN 0 ELSE 1)

\* What a boot block has told when it has been looked at.
Seen(f, t) ==
  [wr_state EXCEPT
     !.update_bootloader = @ \/ f.family = "boot",
     !.has_uicr = @ \/ (f.family = "boot" /\ t.space = "uicr" /\ t.id = "ours"),
     !.boot_id_matches = @ \/ (f.family = "boot" /\ t.space = "boot"
                               /\ t.id = "ours"),
     !.aborted = @ \/ (f.family = "boot" /\ Refused(f, t))]

\* A block completes the file: the last page is flushed with it.
IsLast(f, n) == NumWritten(n) >= NumBlocks(f)

\* The flash and its cache after a block that is not refused.
FlashAfter(f, n) ==
  IF n \notin Places(f)
    THEN IF IsLast(f, n) THEN Flushed ELSE flash
  ELSE IF IsLast(f, n)
    THEN [Flushed EXCEPT ![Address(f, n)] = Block(f, n)]
  ELSE IF Page(Address(f, n)) = cache.page THEN flash ELSE Flushed
CacheAfter(f, n) ==
  IF IsLast(f, n) THEN NoPage
  ELSE IF n \in Places(f) THEN Written(Address(f, n), Block(f, n))
  ELSE cache

\* The host goes on with the file it has begun to copy.
Copies(f) == phase = "dfu" /\ (ManyFiles \/ file \in {NoFile, f})

\* tud_msc_write10_cb for a sector that is block n of file f.
WriteBlock(f, n) ==
  LET seen == Seen(f, f.target[n])
  IN  /\ Copies(f)
      /\ file' = f
      /\ IF Refused(f, f.target[n])
           THEN /\ wr_state' = seen
                /\ UNCHANGED <<flash, cache>>
           ELSE /\ wr_state' =
                     [seen EXCEPT
                        !.numBlocks = NumBlocks(f),
                        !.numWritten = NumWritten(n),
                        !.writtenMask = @ \cup {n},
                        !.aborted = @ \/ (/\ IsLast(f, n)
                                         /\ seen.update_bootloader
                                         /\ ~seen.has_uicr)]
                /\ flash' = FlashAfter(f, n)
                /\ cache' = CacheAfter(f, n)
      /\ UNCHANGED <<bootloader, settings, m_update_status, phase>>

-----------------------------------------------------------------------------
(* The end of a command and of the session. *)

\* Everything in RAM as after a reset.
ClearRam ==
  /\ cache' = NoPage
  /\ wr_state' = NoWrites
  /\ m_update_status' = "UPDATING"
  /\ file' = NoFile

\* The new bootloader where it was received.
Received == [k \in Boot |-> flash[AppBlocks - BootBlocks + k]]

\* mutant: one block too many is waited for.
AllWrittenStrict == /\ ~wr_state.aborted
                    /\ wr_state.numBlocks # 0
                    /\ wr_state.numWritten > wr_state.numBlocks

\* "All block of uf2 file is complete".
AllWritten == /\ ~wr_state.aborted
              /\ wr_state.numBlocks # 0
              /\ wr_state.numWritten >= wr_state.numBlocks

\* tud_msc_write10_complete_cb.  SD_MBR_COMMAND_COPY_BL does not return: the
\* MBR moves the new bootloader, over a loss of power if need be, and runs it.
WriteComplete ==
  /\ phase = "dfu"
  /\ \/ /\ wr_state.aborted
        /\ m_update_status' = "SYS_RESET"
        /\ UNCHANGED <<flash, bootloader, settings, cache, wr_state, phase, file>>
     \/ /\ AllWritten /\ ~wr_state.update_bootloader
        /\ m_update_status' = "COMPLETE"
        /\ settings' = "VALID_APP"
        /\ UNCHANGED <<flash, bootloader, cache, wr_state, phase, file>>
     \/ /\ AllWritten /\ wr_state.update_bootloader
        /\ Received = bootloader
        /\ m_update_status' = "SYS_RESET"
        /\ UNCHANGED <<flash, bootloader, settings, cache, wr_state, phase, file>>
     \/ /\ AllWritten /\ wr_state.update_bootloader
        /\ Received # bootloader
        /\ bootloader' = Received
        /\ ClearRam
        /\ phase' = "boot"
        /\ UNCHANGED <<flash, settings>>

\* bootloader_app_is_valid: the bank's first words are there, and the settings
\* say that it is valid or, when there are none, it looks like an application.
AppIsValid ==
  /\ flash[Bank0] # Erased
  /\ \/ settings = "VALID_APP"
     \/ /\ settings = "EMPTY"
        /\ \E f \in Files, n \in 0 .. MaxBlocks - 1 :
             /\ n \in Places(f) /\ f.family = "app"
             /\ Address(f, n) = Bank0 /\ flash[Bank0] = Block(f, n)

\* check_dfu_mode; forced by a double reset, a button or the application.
CheckDfuMode(forced) ==
  /\ phase = "boot"
  /\ phase' = IF forced \/ ~AppIsValid THEN "dfu" ELSE "app"
  /\ UNCHANGED <<flash, bootloader, settings, cache, wr_state, m_update_status,
                 file>>

\* dfu_timeout_handler, from the scheduler: the inactivity timer that dfu_init
\* starts in every session runs out, or the startup timer does, or the cable is
\* seen unplugged, in one that nobody has written to.  The same turn of the main
\* loop may still handle a command of the host.
Timeout ==
  /\ phase = "dfu" /\ m_update_status = "UPDATING"
  /\ m_update_status' = "TIMEOUT"
  /\ UNCHANGED <<flash, bootloader, settings, cache, wr_state, phase, file>>

\* wait_for_events returns, and main starts the application or resets.  What is
\* still in the cache is lost.
LeaveDfu ==
  /\ phase = "dfu" /\ m_update_status # "UPDATING"
  /\ phase' = IF AppIsValid THEN "app" ELSE "boot"
  /\ ClearRam
  /\ UNCHANGED <<flash, bootloader, settings>>

\* The application, or whoever uses it, resets the chip.
AppResets == /\ phase = "app" /\ phase' = "boot"
             /\ UNCHANGED <<flash, bootloader, settings, cache, wr_state,
                            m_update_status, file>>

\* Page p is being brought from its old content to its content in new: cut while
\* it is erased, or when some of its blocks are written.  The cached page comes
\* first, that of the last block second.
Cut(p, new, blocks) ==
  [a \in App |->
     IF Page(a) = p
       THEN IF blocks < 0 THEN Garbage
            ELSE IF a % PageBlocks < blocks THEN new[a] ELSE Erased
       ELSE IF p = cache.page THEN flash[a] ELSE new[a]]

\* The supply fails, maybe while a page or the settings are being written.
PowerFail ==
  /\ PowerFails
  /\ ClearRam
  /\ phase' = "boot"
  /\ UNCHANGED bootloader
  /\ \/ UNCHANGED <<flash, settings>>
     \/ /\ AllWritten /\ ~wr_state.update_bootloader /\ phase = "dfu"
        /\ settings' \in {"EMPTY", "none"}
        /\ UNCHANGED flash
     \/ /\ \E f \in Files : Copies(f) /\ \E n \in Blocks(f) :
             /\ ~Refused(f, f.target[n])
             /\ \E a \in App :
                  /\ FlashAfter(f, n)[a] # flash[a]
                  /\ \E blocks \in -1 .. PageBlocks - 1 :
                       flash' = Cut(Page(a), FlashAfter(f, n), blocks)
        /\ UNCHANGED settings

\* A device with Old in flash, or with nothing.
Init ==
  /\ \/ /\ settings = "VALID_APP"
        /\ flash = [a \in App |->
             IF \E n \in Places(Old) : Address(Old, n) = a
               THEN Block(Old, CHOOSE n \in Places(Old) : Address(Old, n) = a)
               ELSE Erased]
     \/ /\ settings = "EMPTY"
        /\ flash = [a \in App |-> Erased]
  /\ bootloader = [k \in Boot |-> Current]
  /\ cache = NoPage
  /\ wr_state = NoWrites
  /\ m_update_status = "UPDATING"
  /\ phase = "boot"
  /\ file = NoFile

Next ==
  \/ \E f \in Files : \E n \in Blocks(f) : WriteBlock(f, n)
  \/ WriteComplete
  \/ \E forced \in BOOLEAN : CheckDfuMode(forced)
  \/ Timeout \/ LeaveDfu \/ AppResets \/ PowerFail

Spec == Init /\ [][Next]_vars

\* The host goes on writing every block of its file, and each command is brought
\* to its end.  Nothing is asked of Timeout: the six minutes may be enough or not.
FairSpec ==
  /\ Spec
  /\ \A n \in 0 .. MaxBlocks - 1 :
       WF_vars(\E f \in Files : n \in Blocks(f) /\ WriteBlock(f, n))
  /\ WF_vars(WriteComplete)

-----------------------------------------------------------------------------
\* Type invariant.
TypeOK ==
  /\ flash \in [App -> Contents]
  /\ bootloader \in [Boot -> Contents \cup {Current}]
  /\ settings \in {"VALID_APP", "EMPTY", "none"}
  /\ cache \in [page : {Page(a) : a \in App},
                data : [0 .. PageBlocks - 1 -> Contents]] \cup {NoPage}
  /\ wr_state \in [numBlocks : 0 .. Never, numWritten : 0 .. MaxBlocks,
                   aborted : BOOLEAN, update_bootloader : BOOLEAN,
                   has_uicr : BOOLEAN, boot_id_matches : BOOLEAN,
                   writtenMask : SUBSET (0 .. MaxBlocks - 1)]
  /\ m_update_status \in {"UPDATING", "COMPLETE", "SYS_RESET", "TIMEOUT"}
  /\ phase \in {"boot", "dfu", "app"}
  /\ file \in Files \cup {NoFile}

Holds(f) == \A n \in Places(f) : flash[Address(f, n)] = Block(f, n)

\* When the update of an application is reported complete every block of the file
\* is in flash and none is left in the cache, in whatever order and however
\* often the host wrote them.
CompleteIsWhole ==
  phase = "dfu" /\ m_update_status = "COMPLETE" =>
    file.family = "app" /\ Holds(file)

\* The bootloader that runs is the old one or the whole of a file, with its
\* address and its board checked: where a block of it names a board, one names
\* this board.
BootloaderIsWhole ==
  \/ bootloader = [k \in Boot |-> Current]
  \/ \E f \in Files :
       /\ f.family = "boot"
       /\ \A n \in Places(f) : bootloader[f.target[n].at] = Block(f, n)
       /\ \E n \in Blocks(f) : f.target[n].space = "uicr"
       /\ \A n \in Blocks(f) : f.target[n].space = "uicr" => f.target[n].id = "ours"
       /\ (\E n \in Blocks(f) : f.target[n].id = "theirs")
            => \E n \in Places(f) : f.target[n].id = "ours"

\* Though whole pages are erased and written, only the blocks of the file that is
\* being copied ever change.
NeighboursKept ==
  [][phase' = "dfu" =>
       \A a \in App : flash'[a] # flash[a] =>
         \E n \in Places(file') : Address(file', n) = a]_vars

\* The host is copying a file that is not too long and whose blocks, those of an
\* application, all have a place.
Copying(family) ==
  /\ phase = "dfu"
  /\ file.family = family /\ file.numBlocks < MaxBlocks
  /\ family = "app" =>
       \A n \in Blocks(file) : file.target[n].space \in {"app", "mbr"}

\* A host that goes on copying such a file completes it unless a timer ends the
\* session first: an application is reported complete; a bootloader is refused, is
\* the one that runs already, or is given to the MBR (the only way to "boot" here).
CopyEnds ==
  /\ Copying("app") ~> m_update_status \in {"COMPLETE", "TIMEOUT"}
  /\ Copying("boot") ~> \/ m_update_status \in {"SYS_RESET", "TIMEOUT"}
                        \/ phase = "boot"

-----------------------------------------------------------------------------
(* What the sources say of the program and the program does not keep. *)

\* msc_uf2.c: "All block of uf2 file is complete --> complete DFU process".  The
\* process completes only when all blocks of one file have been written.
OneFileCompletes ==
  [][m_update_status # "COMPLETE" /\ m_update_status' = "COMPLETE" =>
       \E f \in Files : f.family = "app" /\ Holds(f)]_vars
=============================================================================
