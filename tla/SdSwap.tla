-------------------------------- MODULE SdSwap --------------------------------
(***************************************************************************)
(* The second half of a SoftDevice or bootloader update, run at every boot *)
(* until the settings no longer ask for it: the new SoftDevice, received   *)
(* above the installed one, is moved down to its place, and the MBR is     *)
(* asked to put the new bootloader in its own.  When the image reaches     *)
(* into its own target the move goes in three blocks, and comparing the    *)
(* blocks from the last one back tells how far an earlier boot has come.   *)
(*                                                                         *)
(* Flash is counted in pages from SOFTDEVICE_REGION_START, behind the one  *)
(* page of the MBR; the power can fail before, in and after each page.     *)
(***************************************************************************)
EXTENDS Integers

CONSTANTS
  Updates,   \* what the settings can ask for, see UpdateAssumption
  MaxFails   \* bound on the power failures of a behaviour

\* installed: pages of the installed SoftDevice.  received: pages of the new
\* one, 0 when there is only a bootloader.  bl: whether there is a bootloader.
\* same: the pages that are the same in both SoftDevices.  The page with the
\* information structure differs where the sizes in it do.
InfoPage == 2

ASSUME UpdateAssumption ==
  \A u \in Updates :
    /\ u.installed \in Nat /\ u.installed >= 6
    /\ u.received \in Nat
    /\ u.bl \in BOOLEAN
    /\ u.same \subseteq Nat
    /\ u.received # u.installed => InfoPage \notin u.same

\* Nothing keeps the source of a larger SoftDevice out of its target
\* (offset_calculate is not called): its last block may reach into the source of
\* the first, and would reach that of the second one beyond half the installed
\* size more.
ASSUME SizeAssumption ==
  \A u \in Updates : u.received <= u.installed + u.installed \div 2

\* A SoftDevice that is one page larger is moved without the clearing of pages
\* (its size is compared with one that counts the MBR's page as well), and it is
\* from the middle block that the bootloader has to tell how far it is.
ASSUME DifferAssumption ==
  \A u \in Updates : u.received = u.installed + 1 =>
    \E i \in u.installed \div 2 .. 2 * (u.installed \div 2) - 1 : i \notin u.same
ASSUME FailsAssumption == MaxFails \in Nat

VARIABLES
  update,     \* the update in progress
  flash,      \* contents of the pages
  bootloader, \* contents of the bootloader region
  pc,         \* [at, caller, level, page]
  fails

vars == <<update, flash, bootloader, pc, fails>>

New(i) == <<"new", i>>
Old(i) == IF i \in update.same THEN New(i) ELSE <<"old", i>>
NewBl  == <<"bootloader", 1>>
OldBl  == <<"bootloader", 0>>
Erased == <<"erased", 0>>
Torn   == <<"torn", 0>>

-----------------------------------------------------------------------------
(* Where things are. *)

N == update.received

\* sd_image_start: the end of the installed SoftDevice, DFU_BANK_0_REGION_START.
Start  == update.installed
BlPage == Start + N
Top    == BlPage + 1

\* bl_image_start.
BlImage == flash[BlPage]

Overlaps == N > Start
Block    == Start \div 2                     \* block_size, in whole pages

\* The three blocks of dfu_sd_img_block_swap, and the whole image as a fourth.
Whole   == 3
From(k) == CASE k = 1 -> Block [] k = 2 -> Block + Block [] OTHER -> 0
To(k)   == CASE k = 0 -> Block [] k = 1 -> Block + Block [] OTHER -> N

\* dfu_compare_block for the pages of a block.
Same(k) == \A i \in 0 .. N - 1 :
             From(k) <= i /\ i < To(k) => flash[i] = flash[Start + i]

\* SD_SIZE_GET: the size in the information structure of what is installed, the
\* MBR's page included.  Erased flash reads as a huge number, a torn page as any.
Huge     == Top + 1
Sizes    == CASE flash[InfoPage] = New(InfoPage) -> {N + 1}
              [] flash[InfoPage] = Old(InfoPage) -> {update.installed + 1}
              [] flash[InfoPage] = Torn -> {0, Huge}
              [] OTHER -> {Huge}

-----------------------------------------------------------------------------
Init ==
  /\ update \in Updates
  /\ flash = [i \in 0 .. Top |->
                IF i < update.installed THEN Old(i)
                ELSE IF Start <= i /\ i < Start + N THEN New(i - Start)
                ELSE IF i = BlPage /\ update.bl THEN NewBl
                ELSE Erased]
  /\ bootloader = OldBl
  /\ pc = [at |-> "validate", caller |-> "check", level |-> 0, page |-> 0]
  /\ fails = 0

Goto(place)        == pc' = [pc EXCEPT !.at = place]
StartCopy(k)       == pc' = [pc EXCEPT !.at = "erase", !.level = k, !.page = From(k)]
Compare(caller, k) == pc' = [pc EXCEPT !.at = "compare", !.caller = caller, !.level = k]
Boot               == pc' = [at |-> "validate", caller |-> "check", level |-> 0, page |-> 0]

\* bootloader_dfu_sd_update_continue, by the call that has returned: a first
\* validation that succeeds leaves the bootloader to look at, one that fails
\* leads to the swap; later a failure is an APP_ERROR and resets.
Succeeds == CASE pc.caller = "check" -> Goto("check_bl")
              [] pc.caller = "swap" -> pc' = [pc EXCEPT !.at = "validate", !.caller = "recheck"]
              [] OTHER -> Goto("copy_bl")
Fails    == IF pc.caller = "check" THEN Goto("swap") ELSE Boot

\* dfu_sd_image_validate.  With an overlap it is the swap itself, which repairs
\* what it finds unfinished.
Validate ==
  /\ pc.at = "validate"
  /\ IF N = 0 THEN Succeeds
     ELSE IF Overlaps
     THEN \E size \in Sizes : IF size < N THEN Fails ELSE Compare(pc.caller, 2)
     ELSE IF Same(Whole) THEN Succeeds ELSE Fails
  /\ UNCHANGED <<update, flash, bootloader, fails>>

\* dfu_sd_image_swap.
MustClearNever(size) == FALSE

MustClear(size) == size < N

Swap ==
  /\ pc.at = "swap"
  /\ IF N = 0
     THEN pc' = [pc EXCEPT !.at = "validate", !.caller = "recheck"]
     ELSE IF Overlaps
     THEN \E size \in Sizes :
            IF MustClear(size)
            THEN pc' = [pc EXCEPT !.at = "clear", !.caller = "swap", !.page = Block]
            ELSE Compare("swap", 2)
     ELSE pc' = [at |-> "erase", caller |-> "swap", level |-> Whole, page |-> 0]
  /\ UNCHANGED <<update, flash, bootloader, fails>>

\* A page copied onto itself is erased: first that of the middle block, then
\* the first one, so that the old SoftDevice cannot pass for a swapped one.
Clear ==
  /\ pc.at = "clear"
  /\ flash' = [flash EXCEPT ![pc.page] = Torn]
  /\ Goto("cleared")
  /\ UNCHANGED <<update, bootloader, fails>>

Cleared ==
  /\ pc.at = "cleared"
  /\ flash' = [flash EXCEPT ![pc.page] = Erased]
  /\ IF pc.page = 0 THEN Compare("swap", 2)
     ELSE pc' = [pc EXCEPT !.at = "clear", !.page = 0]
  /\ UNCHANGED <<update, bootloader, fails>>

\* dfu_sd_img_block_swap on its way down: a block that is the same ends the
\* descent, the first block always does.
GoesDownNever == FALSE

GoesDown == pc.level > 0

Descend ==
  /\ pc.at = "compare"
  /\ IF Same(pc.level)
     THEN IF pc.level = 2 THEN Succeeds ELSE StartCopy(pc.level + 1)
     ELSE IF GoesDown THEN Compare(pc.caller, pc.level - 1) ELSE StartCopy(pc.level)
  /\ UNCHANGED <<update, flash, bootloader, fails>>

\* dfu_copy_sd: the MBR copies page by page, upwards.
ErasePage ==
  /\ pc.at = "erase"
  /\ flash' = [flash EXCEPT ![pc.page] = Torn]
  /\ Goto("write")
  /\ UNCHANGED <<update, bootloader, fails>>

WritePage ==
  /\ pc.at = "write"
  /\ flash' = [flash EXCEPT ![pc.page] = flash[Start + pc.page]]
  /\ pc' = [pc EXCEPT !.page = @ + 1,
                      !.at = IF pc.page + 1 < To(pc.level) THEN "erase" ELSE "copied"]
  /\ UNCHANGED <<update, bootloader, fails>>

\* ... and on its way up: compare what was copied, go on with the next block.
Copied ==
  /\ pc.at = "copied"
  /\ IF pc.level = Whole THEN Succeeds
     ELSE IF ~Same(pc.level) THEN Fails
     ELSE IF pc.level = 2 THEN Succeeds
     ELSE StartCopy(pc.level + 1)
  /\ UNCHANGED <<update, flash, bootloader, fails>>

\* dfu_bl_image_validate, as far as the image lies where this bootloader puts it.
BlIsThereWithSd == N > 0 \/ ~update.bl \/ bootloader = BlImage

BlIsThere == ~update.bl \/ bootloader = BlImage

CheckBl ==
  /\ pc.at = "check_bl"
  /\ Goto(IF BlIsThere THEN "finalize" ELSE "swap")
  /\ UNCHANGED <<update, flash, bootloader, fails>>

\* dfu_bl_image_swap: the MBR copies the bootloader, through power failures if
\* need be, and resets into it.
CopyBl ==
  /\ pc.at = "copy_bl"
  /\ bootloader' = IF update.bl THEN BlImage ELSE bootloader
  /\ IF update.bl THEN Boot ELSE Goto("finalize")
  /\ UNCHANGED <<update, flash, fails>>

\* bootloader_dfu_sd_update_finalize: the settings no longer ask for the update.
Finalize ==
  /\ pc.at = "finalize"
  /\ Goto("done")
  /\ UNCHANGED <<update, flash, bootloader, fails>>

PowerFails ==
  /\ pc.at # "done" /\ fails < MaxFails
  /\ fails' = fails + 1
  /\ Boot
  /\ UNCHANGED <<update, flash, bootloader>>

Step == \/ Validate \/ Swap \/ Clear \/ Cleared \/ Descend \/ ErasePage \/ WritePage
        \/ Copied \/ CheckBl \/ CopyBl \/ Finalize

Next == Step \/ PowerFails

Spec == Init /\ [][Next]_vars

\* Nothing but the power stops the boot, and it comes back.
FairSpec == Spec /\ WF_vars(Step)

-----------------------------------------------------------------------------
Contents == {New(i) : i \in 0 .. Top} \cup {<<"old", i>> : i \in 0 .. Top}
              \cup {NewBl, OldBl, Erased, Torn}

TypeOK ==
  /\ update \in Updates
  /\ flash \in [0 .. Top -> Contents]
  /\ bootloader \in {OldBl, NewBl}
  /\ pc \in [at : {"validate", "swap", "clear", "cleared", "compare", "erase", "write",
                   "copied", "check_bl", "copy_bl", "finalize", "done"},
             caller : {"check", "swap", "recheck"}, level : 0 .. 3, page : 0 .. Top]
  /\ fails \in 0 .. MaxFails

\* No power failure costs a page of the update: each page of the new SoftDevice is
\* at its source or already in its place, and the new bootloader waits behind it.
NoPageLost ==
  /\ \A i \in 0 .. N - 1 : New(i) \in {flash[i], flash[Start + i]}
  /\ update.bl => flash[BlPage] = NewBl

\* dfu_sd_img_block_swap: "If the back is identical everything is swapped."  When
\* the settings stop asking, the SoftDevice and the bootloader are the new ones,
\* whole, whatever the flash held in between.
SwappedIsWhole ==
  pc.at = "done" =>
    /\ \A i \in 0 .. N - 1 : flash[i] = New(i)
    /\ update.bl => bootloader = NewBl

\* The update ends, however many boots it takes.
SwapEnds == <>(pc.at = "done")
=============================================================================
