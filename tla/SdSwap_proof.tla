---------------------------- MODULE SdSwap_proof ----------------------------
(***************************************************************************)
(* The move of a SoftDevice over the place it is read from, for every size *)
(* of the two SoftDevices, every set of pages that they share (within the  *)
(* assumptions of SdSwap) and any number of power failures: no page of the *)
(* update is ever lost, and what is taken for finished is.                 *)
(***************************************************************************)
EXTENDS SdSwap, TLAPS

\* The pages of the blocks that hold the new SoftDevice, and its first pages where
\* they were received: those source pages that lie in the target, in its last block.
Low    == \A i \in 0 .. Block - 1 : flash[i] = New(i)
Mid    == \A i \in Block .. 2 * Block - 1 : flash[i] = New(i)
Placed == \A i \in 0 .. N - 1 : flash[i] = New(i)
First  == \A i \in 0 .. N - 1 : Start + i < N => flash[Start + i] = New(i)

\* Every other source page is as it was received.
Sources ==
  /\ \A i \in 0 .. N - 1 : ~(Start + i < N) => flash[Start + i] = New(i)
  /\ update.bl => flash[BlPage] = NewBl

\* The first source pages go only once the first two blocks are in place.
FirstKept == Overlaps => First \/ (Low /\ Mid)

\* The middle block tells that the first one is in place, unless the sizes tell
\* that nothing has been.
Untold == N > update.installed + 1 /\ flash[InfoPage] = <<"old", InfoPage>>
Tells  == Overlaps => (Mid => Low) \/ Untold

\* What is known where the boot is.
Clearing ==
  pc.at \in {"clear", "cleared"} =>
    /\ Overlaps /\ First
    /\ pc.page \in {0, Block}
    /\ pc.page = 0 => flash[Block] = Erased
    /\ pc.at = "cleared" /\ pc.page = Block => flash[Block] = Torn
Comparing ==
  pc.at = "compare" =>
    /\ Overlaps /\ pc.level \in 0 .. 2
    /\ Mid => Low
    /\ pc.level = 0 => ~Mid
Copying ==
  pc.at \in {"erase", "write", "copied"} =>
    /\ pc.level \in 0 .. 3
    /\ pc.level = 3 <=> ~Overlaps
    /\ pc.level = 3 => pc.caller = "swap"
    /\ From(pc.level) <= pc.page
    /\ pc.page <= To(pc.level)
    /\ pc.at # "copied" => pc.page < To(pc.level)
    /\ pc.level = 0 => First /\ ~Mid
    /\ pc.level = 1 => First /\ Low
    /\ pc.level = 2 => Low /\ Mid
Finishing ==
  /\ pc.at \in {"check_bl", "copy_bl", "finalize", "done"} => Placed
  /\ pc.at \in {"finalize", "done"} /\ update.bl => bootloader = NewBl

IInv == /\ TypeOK /\ Sources /\ FirstKept /\ Tells
        /\ Clearing /\ Comparing /\ Copying /\ Finishing

-----------------------------------------------------------------------------
\* The names of contents are all different.
LEMMA NewIs ==
  /\ \A i, j : New(i) = New(j) => i = j
  /\ \A i, j : New(i) # <<"old", j>>
  /\ \A i : New(i) # Erased /\ New(i) # Torn
BY DEF New, Erased, Torn

\* Where the blocks are: an image that overlaps its target does so by at most a block.
LEMMA Layout ==
  ASSUME update \in Updates
  PROVE  /\ N \in Nat /\ Start \in Nat /\ update.installed \in Nat
         /\ Block \in Nat /\ Block >= 3
         /\ 2 * Block <= Start
         /\ Start <= 2 * Block + 1
         /\ N <= Start + Block
         /\ Overlaps <=> N > Start
         /\ Start = update.installed /\ Block = update.installed \div 2
         /\ update.installed <= Start
         /\ 6 <= update.installed
         /\ N # update.installed => InfoPage \notin update.same
<1>1. /\ update.installed \in Nat /\ update.installed >= 6 /\ update.received \in Nat
      /\ (update.received # update.installed => InfoPage \notin update.same)
      /\ update.received <= update.installed + update.installed \div 2
  BY UpdateAssumption, SizeAssumption
<1>2. Start \in Nat /\ Start >= 6
  BY <1>1 DEF Start
<1>5. Block \in Nat /\ Block >= 3 /\ 2 * Block <= Start /\ Start <= 2 * Block + 1
  <2> DEFINE S == Start
  <2>1. S \in Nat /\ S >= 6
    BY <1>2
  <2> HIDE DEF S
  <2>2. S \div 2 \in Nat /\ S \div 2 >= 3 /\ 2 * (S \div 2) <= S /\ S <= 2 * (S \div 2) + 1
    BY <2>1, SMT
  <2> QED BY <2>2 DEF Block, S
<1> QED BY <1>1, <1>2, <1>5 DEF N, Block, Start, Overlaps

-----------------------------------------------------------------------------
\* What the comparison of a block tells.
LEMMA SameTells ==
  ASSUME TypeOK, Sources
  PROVE  /\ Overlaps => (Same(1) <=> Mid)
         /\ Overlaps /\ First => (Same(0) <=> Low)
         /\ Overlaps /\ FirstKept /\ Same(2) => Placed
         /\ ~Overlaps => (Same(Whole) <=> Placed)
         /\ ~Overlaps /\ N = 0 => Placed
<1> USE DEF Sources
<1>1. update \in Updates
  BY DEF TypeOK
<1>2. ASSUME Overlaps PROVE Same(1) <=> Mid
  <2>1. From(1) = Block /\ To(1) = Block + Block
    BY DEF From, To
  <2>2. \A i \in Block .. 2 * Block - 1 : i \in 0 .. N - 1 /\ flash[Start + i] = New(i)
    BY <1>1, <1>2, Layout
  <2>3. \A i \in 0 .. N - 1 : Block <= i /\ i < Block + Block <=> i \in Block .. 2 * Block - 1
    BY <1>1, Layout
  <2> QED BY <1>1, <2>1, <2>2, <2>3, Layout DEF Same, Mid
<1>3. ASSUME Overlaps, First PROVE Same(0) <=> Low
  <2>1. From(0) = 0 /\ To(0) = Block
    BY DEF From, To
  <2>2. \A i \in 0 .. Block - 1 : i \in 0 .. N - 1 /\ flash[Start + i] = New(i)
    <3> SUFFICES ASSUME NEW i \in 0 .. Block - 1
                 PROVE  i \in 0 .. N - 1 /\ flash[Start + i] = New(i)
      OBVIOUS
    <3>1. i \in 0 .. N - 1
      BY <1>1, <1>3, Layout
    <3> QED BY <1>3, <3>1 DEF First
  <2>3. \A i \in 0 .. N - 1 : 0 <= i /\ i < Block <=> i \in 0 .. Block - 1
    BY <1>1, Layout
  <2> QED BY <2>1, <2>2, <2>3 DEF Same, Low
<1>4. ASSUME Overlaps, FirstKept, Same(2) PROVE Placed
  <2>1. From(2) = Block + Block /\ To(2) = N
    BY DEF From, To
  <2>2. \A i \in 2 * Block .. N - 1 : flash[i] = New(i)
    <3> SUFFICES ASSUME NEW i \in 2 * Block .. N - 1
                 PROVE  flash[i] = New(i)
      OBVIOUS
    <3>1. i \in 0 .. N - 1 /\ From(2) <= i /\ i < To(2)
      BY <1>1, <1>4, <2>1, Layout
    <3>2. ~(Start + i < N)
      BY <1>1, <3>1, Layout
    <3> QED BY <1>4, <3>1, <3>2 DEF Same
  <2>3. Start \in 2 * Block .. N - 1 /\ Start # 0
    BY <1>1, <1>4, Layout
  <2>4. ~First
    <3>1. flash[Start] = New(Start)
      BY <2>2, <2>3
    <3>2. 0 \in 0 .. N - 1 /\ Start + 0 = Start /\ Start < N
      BY <1>1, <1>4, Layout
    <3>3. First => flash[Start] = New(0)
      BY <3>2 DEF First
    <3> QED BY <2>3, <3>1, <3>3, NewIs
  <2>5. Low /\ Mid
    BY <1>4, <2>4 DEF FirstKept
  <2>6. \A i \in 0 .. N - 1 : \/ i \in 0 .. Block - 1
                             \/ i \in Block .. 2 * Block - 1
                             \/ i \in 2 * Block .. N - 1
    BY <1>1, Layout
  <2> QED BY <2>2, <2>5, <2>6 DEF Low, Mid, Placed
<1>5. ASSUME ~Overlaps PROVE Same(Whole) <=> Placed
  <2>1. From(Whole) = 0 /\ To(Whole) = N
    BY DEF From, To, Whole
  <2>2. \A i \in 0 .. N - 1 : 0 <= i /\ i < N /\ ~(Start + i < N)
    BY <1>1, <1>5, Layout
  <2> QED BY <1>5, <2>1, <2>2 DEF Same, Placed
<1>6. N = 0 => Placed
  BY DEF Placed
<1> QED BY <1>2, <1>3, <1>4, <1>5, <1>6

\* What the size in the information structure tells.
LEMMA SizeTells ==
  ASSUME TypeOK, FirstKept, Tells, Overlaps, NEW size \in Sizes
  PROVE  /\ size < N => First
         /\ ~(size < N) => (Mid => Low)
<1>1. update \in Updates
  BY DEF TypeOK
<1>2. InfoPage \in 0 .. Block - 1
  BY <1>1, Layout DEF InfoPage
<1>3. ASSUME Low PROVE size = N + 1
  <2>1. flash[InfoPage] = New(InfoPage)
    BY <1>2, <1>3 DEF Low
  <2>2. Old(InfoPage) # New(InfoPage) /\ New(InfoPage) # Torn
    BY <1>1, Layout, NewIs DEF Old
  <2>3. Sizes = {N + 1}
    BY <2>1, <2>2 DEF Sizes
  <2> QED BY <2>3
<1>4. ASSUME Untold PROVE size = update.installed + 1
  <2>1. InfoPage \notin update.same
    BY <1>1, <1>4, Layout DEF Untold
  <2>2. flash[InfoPage] = Old(InfoPage) /\ flash[InfoPage] # New(InfoPage)
    BY <1>4, <2>1, NewIs DEF Untold, Old
  <2>3. flash[InfoPage] # Torn
    BY <1>4 DEF Untold, Torn
  <2>4. Sizes = {update.installed + 1}
    BY <2>2, <2>3 DEF Sizes
  <2> QED BY <2>4
<1>5. size < N => First
  BY <1>1, <1>3, Layout DEF FirstKept
<1>6. ~(size < N) => (Mid => Low)
  BY <1>1, <1>4, Layout DEF Tells, Untold
<1> QED BY <1>5, <1>6

\* What a step that leaves the flash alone keeps.
LEMMA FlashKept ==
  ASSUME Sources, FirstKept, Tells, UNCHANGED <<update, flash>>
  PROVE  /\ Sources' /\ FirstKept' /\ Tells'
         /\ Overlaps' = Overlaps /\ N' = N /\ Start' = Start /\ Block' = Block /\ Top' = Top
         /\ BlPage' = BlPage
         /\ (Low' <=> Low) /\ (Mid' <=> Mid) /\ (Placed' <=> Placed) /\ (First' <=> First)
         /\ Contents' = Contents
         /\ \A k : From(k)' = From(k) /\ To(k)' = To(k)
<1> USE DEF N, Start, Block, Top, BlPage, Overlaps
<1>1. N' = N /\ Start' = Start /\ Block' = Block /\ Top' = Top /\ Overlaps' = Overlaps
      /\ BlPage' = BlPage
  OBVIOUS
<1> QED BY <1>1 DEF Sources, FirstKept, Tells, Low, Mid, Placed, First, Untold, New, Old,
                    NewBl, Contents, From, To, OldBl, Erased, Torn

\* What the writing of a page of the target keeps.
LEMMA PageWritten ==
  ASSUME TypeOK, Sources, NEW p \in 0 .. N - 1, NEW v,
         UNCHANGED update, flash' = [flash EXCEPT ![p] = v]
  PROVE  /\ Sources'
         /\ Overlaps' = Overlaps /\ N' = N /\ Start' = Start /\ Block' = Block /\ Top' = Top
         /\ BlPage' = BlPage
         /\ p < Start => (First' <=> First)
         /\ p \notin 0 .. Block - 1 => (Low' <=> Low)
         /\ p \notin Block .. 2 * Block - 1 => (Mid' <=> Mid)
         /\ Contents' = Contents
         /\ \A k : From(k)' = From(k) /\ To(k)' = To(k)
         /\ v \in Contents => flash' \in [0 .. Top -> Contents]
         /\ p \in DOMAIN flash
<1>1. N' = N /\ Start' = Start /\ Block' = Block /\ Top' = Top /\ Overlaps' = Overlaps
      /\ BlPage' = BlPage
  BY DEF N, Start, Block, Top, BlPage, Overlaps
<1>2. update \in Updates
  BY DEF TypeOK
<1>3. /\ Top = Start + N + 1 /\ BlPage = Start + N
      /\ N \in Nat /\ Start \in Nat /\ Block \in Nat /\ Block >= 3 /\ 2 * Block <= Start
      /\ N <= Start + Block
  BY <1>2, Layout DEF Top, BlPage
<1>4. flash \in [0 .. Top -> Contents]
  BY DEF TypeOK
<1>5. \A i \in 0 .. Top : i # p => flash'[i] = flash[i]
  BY <1>4
<1>6. Sources'
  <2>1. \A i \in 0 .. N - 1 : ~(Start + i < N) => flash'[Start + i] = New(i)
    <3> SUFFICES ASSUME NEW i \in 0 .. N - 1, ~(Start + i < N)
                 PROVE  flash'[Start + i] = New(i)
      OBVIOUS
    <3>1. Start + i \in 0 .. Top /\ Start + i # p
      BY <1>3
    <3> QED BY <1>5, <3>1 DEF Sources
  <2>2. update.bl => flash'[BlPage] = NewBl
    <3>1. BlPage \in 0 .. Top /\ BlPage # p
      BY <1>3
    <3> QED BY <1>5, <3>1 DEF Sources
  <2> QED BY <1>1, <2>1, <2>2 DEF Sources, New, NewBl
<1>7. p < Start => (First' <=> First)
  <2>1. \A i \in 0 .. N - 1 : Start + i \in 0 .. Top /\ (p < Start => Start + i # p)
    BY <1>3
  <2> QED BY <1>1, <1>5, <2>1 DEF First, New
<1>8. p \notin 0 .. Block - 1 => (Low' <=> Low)
  <2>1. \A i \in 0 .. Block - 1 : i \in 0 .. Top
    BY <1>3
  <2> QED BY <1>1, <1>5, <2>1 DEF Low, New
<1>9. p \notin Block .. 2 * Block - 1 => (Mid' <=> Mid)
  <2>1. \A i \in Block .. 2 * Block - 1 : i \in 0 .. Top
    BY <1>3
  <2> QED BY <1>1, <1>5, <2>1 DEF Mid, New
<1>10. Contents' = Contents
  BY <1>1 DEF Contents, New, NewBl, OldBl, Erased, Torn
<1>11. \A k : From(k)' = From(k) /\ To(k)' = To(k)
  BY <1>1 DEF From, To
<1>12. p \in 0 .. Top
  BY <1>3
<1> QED BY <1>1, <1>4, <1>6, <1>7, <1>8, <1>9, <1>10, <1>11, <1>12

-----------------------------------------------------------------------------
LEMMA InitOK == Init => IInv
<1> SUFFICES ASSUME Init PROVE IInv
  OBVIOUS
<1>1. update \in Updates
  BY DEF Init
<1>2. /\ Top = Start + N + 1 /\ BlPage = Start + N
      /\ N \in Nat /\ Start \in Nat /\ update.installed \in Nat
      /\ update.installed <= Start /\ 6 <= update.installed
  BY <1>1, Layout DEF Top, BlPage
<1>3. \A i \in 0 .. Top : New(i) \in Contents /\ Old(i) \in Contents
  BY DEF Contents, Old
<1>4. flash \in [0 .. Top -> Contents]
  <2>1. \A i \in 0 .. Top : Start <= i /\ i < Start + N => New(i - Start) \in Contents
    <3>1. \A i \in 0 .. Top : Start <= i => i - Start \in 0 .. Top
      BY <1>2
    <3> QED BY <1>3, <3>1
  <2>2. NewBl \in Contents /\ Erased \in Contents
    BY DEF Contents
  <2> QED BY <1>3, <2>1, <2>2 DEF Init
<1>5. TypeOK
  <2>1. pc = [at |-> "validate", caller |-> "check", level |-> 0, page |-> 0] /\ fails = 0
        /\ bootloader = OldBl
    BY DEF Init
  <2>2. 0 \in 0 .. Top
    BY <1>2
  <2> QED BY <1>1, <1>4, <2>1, <2>2, FailsAssumption DEF TypeOK
<1>6. \A i \in 0 .. N - 1 : flash[Start + i] = New(i)
  <2> SUFFICES ASSUME NEW i \in 0 .. N - 1 PROVE flash[Start + i] = New(i)
    OBVIOUS
  <2>1. /\ Start + i \in 0 .. Top /\ ~(Start + i < update.installed)
        /\ Start <= Start + i /\ Start + i < Start + N /\ Start + i - Start = i
    BY <1>2
  <2>2. \A j \in 0 .. Top : ~(j < update.installed) /\ Start <= j /\ j < Start + N =>
          flash[j] = New(j - Start)
    BY DEF Init
  <2>3. flash[Start + i] = New(Start + i - Start)
    BY <2>1, <2>2, <1>2
  <2> QED BY <2>1, <2>3
<1>7. Sources
  <2>1. update.bl => flash[BlPage] = NewBl
    <3>1. /\ BlPage \in 0 .. Top /\ ~(BlPage < update.installed) /\ ~(BlPage < Start + N)
      BY <1>2
    <3> QED BY <3>1 DEF Init
  <2> QED BY <1>6, <2>1 DEF Sources
<1>8. FirstKept
  BY <1>6 DEF FirstKept, First
<1>9. Tells
  <2> SUFFICES ASSUME Overlaps PROVE ~Mid \/ Untold
    BY DEF Tells
  <2>1. CASE N = update.installed + 1
    <3>1. PICK i \in Block .. 2 * Block - 1 : i \notin update.same
      <4>1. Block = update.installed \div 2
        BY <1>1, <2>1, Layout
      <4>2. \E i \in update.installed \div 2 .. 2 * (update.installed \div 2) - 1 :
               i \notin update.same
        BY <1>1, <2>1, DifferAssumption DEF N
      <4> QED BY <4>1, <4>2
    <3>2. i \in 0 .. Top /\ i < update.installed
      BY <1>1, <1>2, <2>1, Layout
    <3>3. flash[i] = <<"old", i>>
      BY <3>1, <3>2 DEF Init, Old
    <3> QED BY <3>1, <3>3, NewIs DEF Mid
  <2>2. CASE N # update.installed + 1
    <3>1. N > update.installed + 1 /\ N # update.installed
      BY <1>1, <1>2, <2>2, Layout
    <3>2. InfoPage \in 0 .. Top /\ InfoPage < update.installed
      BY <1>2 DEF InfoPage
    <3>3. flash[InfoPage] = Old(InfoPage)
      BY <3>2 DEF Init
    <3>4. InfoPage \notin update.same
      BY <1>1, <3>1, Layout
    <3> QED BY <3>1, <3>3, <3>4 DEF Untold, Old
  <2> QED BY <2>1, <2>2
<1>10. Clearing /\ Comparing /\ Copying /\ Finishing
  BY DEF Init, Clearing, Comparing, Copying, Finishing
<1> QED BY <1>5, <1>7, <1>8, <1>9, <1>10 DEF IInv

-----------------------------------------------------------------------------
\* The places of the boot, and pc as a record of its four fields.
Places == {"validate", "swap", "clear", "cleared", "compare", "erase", "write",
           "copied", "check_bl", "copy_bl", "finalize", "done"}
Callers == {"check", "swap", "recheck"}

LEMMA PcParts ==
  ASSUME TypeOK
  PROVE  /\ pc.at \in Places /\ pc.caller \in Callers /\ pc.level \in 0 .. 3
         /\ pc.page \in 0 .. Top
         /\ pc = [at |-> pc.at, caller |-> pc.caller, level |-> pc.level, page |-> pc.page]
<1>1. pc \in [at : Places, caller : Callers, level : 0 .. 3, page : 0 .. Top]
  BY DEF TypeOK, Places, Callers
<1> QED BY <1>1

LEMMA TypeKept ==
  ASSUME TypeOK, UNCHANGED <<update, flash>>, bootloader' \in {OldBl, NewBl},
         fails' \in 0 .. MaxFails,
         pc' \in [at : Places, caller : Callers, level : 0 .. 3, page : 0 .. Top]
  PROVE  TypeOK'
<1>1. Top' = Top /\ Contents' = Contents /\ OldBl' = OldBl /\ NewBl' = NewBl
  BY DEF Top, BlPage, Start, N, Contents, New, NewBl, OldBl, Erased, Torn
<1> QED BY <1>1 DEF TypeOK, Places, Callers

-----------------------------------------------------------------------------
\* Where a step that leaves the flash alone can go.
LEMMA BootOK ==
  ASSUME IInv, UNCHANGED <<update, flash>>, Boot,
         bootloader' \in {OldBl, NewBl}, fails' \in 0 .. MaxFails
  PROVE  IInv'
<1>1. TypeOK'
  <2>1. 0 \in 0 .. Top /\ TypeOK
    BY Layout, SMTT(30) DEF IInv, TypeOK, Top, BlPage
  <2>2. pc' = [at |-> "validate", caller |-> "check", level |-> 0, page |-> 0]
    BY DEF Boot
  <2> QED BY <2>1, <2>2, TypeKept DEF Places, Callers
<1>2. Sources' /\ FirstKept' /\ Tells'
  BY FlashKept DEF IInv
<1>3. (Clearing /\ Comparing /\ Copying /\ Finishing)'
  BY DEF Boot, Clearing, Comparing, Copying, Finishing
<1> QED BY <1>1, <1>2, <1>3 DEF IInv

LEMMA FailsOK ==
  ASSUME IInv, UNCHANGED <<update, flash, bootloader, fails>>, Fails
  PROVE  IInv'
<1>1. TypeOK
  BY DEF IInv
<1>2. bootloader' \in {OldBl, NewBl} /\ fails' \in 0 .. MaxFails
  BY <1>1 DEF TypeOK
<1>3. CASE pc.caller = "check"
  <2>1. pc' = [at |-> "swap", caller |-> pc.caller, level |-> pc.level, page |-> pc.page]
    BY <1>1, <1>3, PcParts DEF Fails, Goto
  <2>2. TypeOK'
    BY <1>1, <1>2, <2>1, PcParts, TypeKept DEF Callers, Places
  <2>3. Sources' /\ FirstKept' /\ Tells'
    BY FlashKept DEF IInv
  <2>4. (Clearing /\ Comparing /\ Copying /\ Finishing)'
    BY <2>1 DEF Clearing, Comparing, Copying, Finishing
  <2> QED BY <2>2, <2>3, <2>4 DEF IInv
<1>4. CASE pc.caller # "check"
  BY <1>2, <1>4, BootOK DEF Fails
<1> QED BY <1>3, <1>4

LEMMA SucceedsOK ==
  ASSUME IInv, UNCHANGED <<update, flash, bootloader, fails>>, Succeeds,
         pc.caller = "swap" \/ Placed
  PROVE  IInv'
<1>1. TypeOK
  BY DEF IInv
<1>2. PICK a \in {"check_bl", "validate", "copy_bl"}, c \in Callers :
        /\ pc' = [at |-> a, caller |-> c, level |-> pc.level, page |-> pc.page]
        /\ a # "validate" => Placed
  <2>1. CASE pc.caller = "check"
    BY <1>1, <2>1, PcParts DEF Succeeds, Goto, Callers
  <2>2. CASE pc.caller = "swap"
    BY <1>1, <2>2, PcParts DEF Succeeds, Goto, Callers
  <2>3. CASE pc.caller = "recheck"
    BY <1>1, <2>3, PcParts DEF Succeeds, Goto, Callers
  <2> QED BY <1>1, <2>1, <2>2, <2>3, PcParts DEF Callers
<1>3. TypeOK'
  <2>1. bootloader' \in {OldBl, NewBl} /\ fails' \in 0 .. MaxFails
    BY <1>1 DEF TypeOK
  <2> QED BY <1>1, <1>2, <2>1, PcParts, TypeKept DEF Callers, Places
<1>4. Sources' /\ FirstKept' /\ Tells' /\ (Placed' <=> Placed)
  BY FlashKept DEF IInv
<1>5. (Clearing /\ Comparing /\ Copying /\ Finishing)'
  BY <1>2, <1>4 DEF Clearing, Comparing, Copying, Finishing
<1> QED BY <1>3, <1>4, <1>5 DEF IInv

LEMMA CompareOK ==
  ASSUME IInv, UNCHANGED <<update, flash, bootloader, fails>>,
         NEW c \in Callers, NEW k \in 0 .. 2, NEW p \in 0 .. Top,
         pc' = [at |-> "compare", caller |-> c, level |-> k, page |-> p],
         Overlaps, Mid => Low, k = 0 => ~Mid
  PROVE  IInv'
<1>1. TypeOK'
  BY TypeKept DEF IInv, Callers, Places, TypeOK
<1>2. Sources' /\ FirstKept' /\ Tells' /\ Overlaps' /\ (Mid' <=> Mid) /\ (Low' <=> Low)
  BY FlashKept DEF IInv
<1>3. (Clearing /\ Comparing /\ Copying /\ Finishing)'
  BY <1>2 DEF Clearing, Comparing, Copying, Finishing
<1> QED BY <1>1, <1>2, <1>3 DEF IInv

\* The blocks in whole pages.
LEMMA Blocks ==
  ASSUME update \in Updates
  PROVE  /\ \A k \in 0 .. 3 : From(k) \in Nat /\ To(k) \in Nat
         /\ \A k \in 0 .. 3 : k = 3 \/ Overlaps => To(k) <= N
         /\ \A k \in 0 .. 2 : Overlaps => From(k) < To(k)
         /\ From(0) = 0 /\ To(0) = Block
         /\ From(1) = Block /\ To(1) = 2 * Block
         /\ From(2) = 2 * Block /\ To(2) = N
         /\ From(3) = 0 /\ To(3) = N
         /\ Top = Start + N + 1 /\ BlPage = Start + N
<1>1. From(0) = 0 /\ To(0) = Block /\ From(3) = 0 /\ To(3) = N
  BY DEF From, To
<1>3. From(1) = Block /\ To(1) = Block + Block
  BY DEF From, To
<1>4. From(2) = Block + Block /\ To(2) = N
  BY DEF From, To
<1> QED BY <1>1, <1>3, <1>4, Layout DEF Top, BlPage

LEMMA StartCopyOK ==
  ASSUME IInv, UNCHANGED <<update, flash, bootloader, fails>>,
         NEW c \in Callers, NEW k \in 0 .. 3,
         pc' = [at |-> "erase", caller |-> c, level |-> k, page |-> From(k)],
         k = 3 <=> ~Overlaps,
         k = 3 => c = "swap" /\ N > 0,
         k = 0 => First /\ ~Mid,
         k = 1 => First /\ Low,
         k = 2 => Low /\ Mid
  PROVE  IInv'
<1>1. update \in Updates
  BY DEF IInv, TypeOK
<1>2. From(k) \in 0 .. Top /\ From(k) < To(k)
  BY <1>1, Blocks, Layout
<1>3. TypeOK'
  BY <1>2, TypeKept DEF IInv, Callers, Places, TypeOK
<1>4. /\ Sources' /\ FirstKept' /\ Tells' /\ Overlaps' = Overlaps
      /\ (Mid' <=> Mid) /\ (Low' <=> Low) /\ (First' <=> First)
      /\ From(k)' = From(k) /\ To(k)' = To(k)
  BY FlashKept DEF IInv
<1>5. Copying'
  <2>1. pc'.at = "erase" /\ pc'.level = k /\ pc'.page = From(k) /\ pc'.caller = c
    OBVIOUS
  <2>2. From(pc.level)' = From(k) /\ To(pc.level)' = To(k)
    BY <2>1, <1>4, FlashKept DEF From, To
  <2>3. From(k) <= From(k)
    BY <1>1, Blocks
  <2>4. From(k) <= To(k)
    BY <1>1, <1>2, Blocks
  <2> QED BY <1>2, <1>4, <2>1, <2>2, <2>3, <2>4 DEF Copying
<1>6. (Clearing /\ Comparing /\ Finishing)'
  BY DEF Clearing, Comparing, Finishing
<1> QED BY <1>3, <1>4, <1>5, <1>6 DEF IInv

LEMMA CopyStarts ==
  ASSUME IInv, UNCHANGED <<update, flash, bootloader, fails>>, Overlaps,
         NEW k \in 0 .. 2, StartCopy(k),
         k = 0 => First /\ ~Mid,
         k = 1 => First /\ Low,
         k = 2 => Low /\ Mid
  PROVE  IInv'
<1>1. TypeOK
  BY DEF IInv
<1>2. pc = [at |-> pc.at, caller |-> pc.caller, level |-> pc.level, page |-> pc.page]
      /\ pc.caller \in Callers
  BY <1>1, PcParts
<1>3. pc' = [at |-> "erase", caller |-> pc.caller, level |-> k, page |-> From(k)]
  BY <1>2 DEF StartCopy
<1>4. k \in 0 .. 3 /\ k # 3
  OBVIOUS
<1> QED BY <1>2, <1>3, <1>4, StartCopyOK

-----------------------------------------------------------------------------
\* Each action keeps the invariant.
LEMMA ValidateOK == IInv /\ Validate => IInv'
<1> SUFFICES ASSUME IInv, Validate PROVE IInv'
  OBVIOUS
<1>1. TypeOK /\ update \in Updates /\ UNCHANGED <<update, flash, bootloader, fails>>
  BY DEF IInv, TypeOK, Validate
<1>2. CASE N = 0
  <2>1. ~Overlaps
    BY <1>1, <1>2, Layout DEF Overlaps
  <2>2. Placed
    BY <1>2, <2>1, <1>1, SameTells DEF IInv
  <2> QED BY <1>1, <1>2, <2>2, SucceedsOK DEF Validate
<1>3. CASE N # 0 /\ Overlaps
  <2>1. PICK size \in Sizes : IF size < N THEN Fails ELSE Compare(pc.caller, 2)
    BY <1>3 DEF Validate
  <2>2. CASE size < N
    BY <1>1, <2>1, <2>2, FailsOK
  <2>3. CASE ~(size < N)
    <3>1. Mid => Low
      BY <1>3, <2>3, SizeTells DEF IInv
    <3>2. pc' = [at |-> "compare", caller |-> pc.caller, level |-> 2, page |-> pc.page]
      BY <1>1, <2>1, <2>3, PcParts DEF Compare
    <3> QED BY <1>1, <1>3, <3>1, <3>2, PcParts, CompareOK
  <2> QED BY <2>2, <2>3
<1>4. CASE N # 0 /\ ~Overlaps
  <2>1. CASE Same(Whole)
    <3>1. Placed
      BY <1>1, <1>4, <2>1, SameTells DEF IInv
    <3> QED BY <1>1, <1>4, <2>1, <3>1, SucceedsOK DEF Validate
  <2>2. CASE ~Same(Whole)
    BY <1>1, <1>4, <2>2, FailsOK DEF Validate
  <2> QED BY <2>1, <2>2
<1> QED BY <1>2, <1>3, <1>4

LEMMA SwapOK == IInv /\ Swap => IInv'
<1> SUFFICES ASSUME IInv, Swap PROVE IInv'
  OBVIOUS
<1>1. TypeOK /\ update \in Updates /\ UNCHANGED <<update, flash, bootloader, fails>>
  BY DEF IInv, TypeOK, Swap
<1>a. bootloader' \in {OldBl, NewBl} /\ fails' \in 0 .. MaxFails
  BY <1>1 DEF TypeOK
<1>2. CASE N = 0
  <2>1. pc' = [at |-> "validate", caller |-> "recheck", level |-> pc.level, page |-> pc.page]
    BY <1>1, <1>2, PcParts DEF Swap
  <2>2. TypeOK'
    BY <1>1, <1>a, <2>1, PcParts, TypeKept DEF Places, Callers
  <2>3. Sources' /\ FirstKept' /\ Tells'
    BY <1>1, FlashKept DEF IInv
  <2>4. (Clearing /\ Comparing /\ Copying /\ Finishing)'
    BY <2>1 DEF Clearing, Comparing, Copying, Finishing
  <2> QED BY <2>2, <2>3, <2>4 DEF IInv
<1>3. CASE N # 0 /\ Overlaps
  <2>1. PICK size \in Sizes :
          IF MustClear(size)
          THEN pc' = [pc EXCEPT !.at = "clear", !.caller = "swap", !.page = Block]
          ELSE Compare("swap", 2)
    BY <1>3 DEF Swap
  <2>2. CASE size < N
    <3>1. pc' = [at |-> "clear", caller |-> "swap", level |-> pc.level, page |-> Block]
      BY <1>1, <2>1, <2>2, PcParts DEF MustClear
    <3>2. Block \in 0 .. Top
      BY <1>1, Layout DEF Top, BlPage
    <3>3. TypeOK'
      BY <1>1, <1>a, <3>1, <3>2, PcParts, TypeKept DEF Places, Callers
    <3>4. /\ Sources' /\ FirstKept' /\ Tells'
          /\ Overlaps' = Overlaps /\ Block' = Block /\ (First' <=> First)
      BY <1>1, FlashKept DEF IInv
    <3>5. First
      BY <1>3, <2>2, SizeTells DEF IInv
    <3>6. Block # 0
      BY <1>1, Layout
    <3>7. Clearing'
      BY <1>3, <3>1, <3>4, <3>5, <3>6 DEF Clearing
    <3>8. (Comparing /\ Copying /\ Finishing)'
      BY <3>1 DEF Comparing, Copying, Finishing
    <3> QED BY <3>3, <3>4, <3>7, <3>8 DEF IInv
  <2>3. CASE ~(size < N)
    <3>1. Mid => Low
      BY <1>3, <2>3, SizeTells DEF IInv
    <3>2. pc' = [at |-> "compare", caller |-> "swap", level |-> 2, page |-> pc.page]
      BY <1>1, <2>1, <2>3, PcParts DEF Compare, MustClear
    <3> QED BY <1>1, <1>3, <3>1, <3>2, PcParts, CompareOK DEF Callers
  <2> QED BY <2>2, <2>3
<1>4. CASE N # 0 /\ ~Overlaps
  <2>1. pc' = [at |-> "erase", caller |-> "swap", level |-> 3, page |-> From(3)]
    BY <1>1, <1>4, Blocks DEF Swap, Whole
  <2>2. N > 0
    BY <1>1, <1>4, Layout
  <2> QED BY <1>1, <1>4, <2>1, <2>2, StartCopyOK DEF Callers
<1> QED BY <1>2, <1>3, <1>4

LEMMA ClearOK == IInv /\ (Clear \/ Cleared) => IInv'
<1> SUFFICES ASSUME IInv, Clear \/ Cleared PROVE IInv'
  OBVIOUS
<1> DEFINE p == pc.page
           v == IF Clear THEN Torn ELSE Erased
<1>1. /\ TypeOK /\ update \in Updates /\ UNCHANGED <<update, bootloader, fails>>
      /\ pc.at \in {"clear", "cleared"}
  BY DEF IInv, TypeOK, Clear, Cleared
<1>2. /\ Overlaps /\ First /\ p \in {0, Block}
      /\ p = 0 => flash[Block] = Erased
      /\ pc.at = "cleared" /\ p = Block => flash[Block] = Torn
  BY <1>1 DEF IInv, Clearing
<1>3. /\ N \in Nat /\ Block \in Nat /\ Block >= 3 /\ Start \in Nat /\ 2 * Block <= Start
      /\ N > Start
  BY <1>1, <1>2, Layout
<1>4. p \in 0 .. N - 1 /\ p < Start /\ p \in 0 .. Top /\ Block \in Block .. 2 * Block - 1
  BY <1>1, <1>2, <1>3, Blocks
<1>5. flash' = [flash EXCEPT ![p] = v] /\ v \in {Torn, Erased}
      /\ (pc.at = "clear" => v = Torn) /\ (pc.at = "cleared" => v = Erased)
  BY DEF Clear, Cleared, Torn, Erased
<1>6. v \in Contents
  BY <1>5 DEF Contents
<1> HIDE DEF v
<1>7. /\ Sources' /\ Overlaps' = Overlaps /\ N' = N /\ Start' = Start /\ Block' = Block
      /\ Top' = Top /\ (First' <=> First) /\ Contents' = Contents
      /\ flash' \in [0 .. Top -> Contents]
      /\ p \in DOMAIN flash
  BY <1>1, <1>4, <1>5, <1>6, PageWritten DEF IInv
<1>8. flash'[Block] \in {Torn, Erased}
  BY <1>1, <1>2, <1>3, <1>4, <1>5, <1>7 DEF TypeOK
<1>9. ~Mid'
  BY <1>4, <1>7, <1>8, NewIs DEF Mid, New
<1>10. FirstKept' /\ Tells'
  BY <1>2, <1>7, <1>9 DEF FirstKept, Tells
<1>a. OldBl' = OldBl /\ NewBl' = NewBl
  BY DEF OldBl, NewBl
<1>11. CASE Clear
  <2>1. pc' = [at |-> "cleared", caller |-> pc.caller, level |-> pc.level, page |-> p]
    BY <1>1, <1>11, PcParts DEF Clear, Goto
  <2>2. TypeOK'
    BY <1>1, <1>7, <1>a, <2>1, PcParts DEF TypeOK, Callers
  <2>3. pc.at = "clear"
    BY <1>11 DEF Clear
  <2>4. p = Block => flash'[Block] = Torn
    BY <1>5, <1>7, <2>3
  <2>5. p = 0 => flash'[Block] = Erased
    BY <1>1, <1>2, <1>3, <1>5, <1>7 DEF TypeOK
  <2>6. Clearing'
    BY <1>2, <1>7, <2>1, <2>4, <2>5 DEF Clearing
  <2>7. (Comparing /\ Copying /\ Finishing)'
    BY <2>1 DEF Comparing, Copying, Finishing
  <2> QED BY <1>7, <1>10, <2>2, <2>6, <2>7 DEF IInv
<1>12. CASE Cleared /\ p = 0
  <2>1. pc' = [at |-> "compare", caller |-> "swap", level |-> 2, page |-> p]
    BY <1>1, <1>12, PcParts DEF Cleared, Compare
  <2>2. TypeOK'
    BY <1>1, <1>7, <1>a, <2>1, PcParts DEF TypeOK, Callers
  <2>3. (Clearing /\ Comparing /\ Copying /\ Finishing)'
    BY <1>2, <1>7, <1>9, <2>1 DEF Clearing, Comparing, Copying, Finishing
  <2> QED BY <1>7, <1>10, <2>2, <2>3 DEF IInv
<1>13. CASE Cleared /\ p # 0
  <2>1. pc' = [at |-> "clear", caller |-> pc.caller, level |-> pc.level, page |-> 0]
    BY <1>1, <1>13, PcParts DEF Cleared
  <2>2. 0 \in 0 .. Top
    BY <1>1, <1>3, Blocks
  <2>3. TypeOK'
    BY <1>1, <1>7, <1>a, <2>1, <2>2, PcParts DEF TypeOK, Callers
  <2>4. flash'[Block] = Erased
    BY <1>2, <1>5, <1>7, <1>13 DEF Cleared
  <2>5. Clearing'
    BY <1>2, <1>7, <2>1, <2>4 DEF Clearing
  <2>6. (Comparing /\ Copying /\ Finishing)'
    BY <2>1 DEF Comparing, Copying, Finishing
  <2> QED BY <1>7, <1>10, <2>3, <2>5, <2>6 DEF IInv
<1> QED BY <1>11, <1>12, <1>13

LEMMA DescendOK == IInv /\ Descend => IInv'
<1> SUFFICES ASSUME IInv, Descend PROVE IInv'
  OBVIOUS
<1>1. TypeOK /\ update \in Updates /\ UNCHANGED <<update, flash, bootloader, fails>>
  BY DEF IInv, TypeOK, Descend
<1>2. /\ Overlaps /\ pc.level \in 0 .. 2
      /\ Mid => Low
      /\ pc.level = 0 => ~Mid
  BY DEF IInv, Descend, Comparing
<1>3. pc.caller \in Callers /\ pc.page \in 0 .. Top
  BY <1>1, PcParts
<1> PICK k \in 0 .. 2 : k = pc.level
  BY <1>2
<1>c. IF Same(k) THEN IF k = 2 THEN Succeeds ELSE StartCopy(k + 1)
      ELSE IF k > 0 THEN Compare(pc.caller, k - 1) ELSE StartCopy(k)
  BY Zenon DEF Descend, GoesDown
<1>4. CASE Same(k) /\ k = 2
  <2>1. Placed
    BY <1>1, <1>2, <1>4, SameTells DEF IInv
  <2> QED BY <1>1, <1>4, <2>1, <1>c, SucceedsOK
<1>5. CASE Same(k) /\ k = 1
  <2>1. Low /\ Mid
    BY <1>1, <1>2, <1>5, SameTells DEF IInv
  <2>2. StartCopy(k + 1) /\ k + 1 \in 0 .. 3 /\ k + 1 = 2
    BY <1>5, <1>c
  <2> QED BY <1>1, <1>2, <2>1, <2>2, CopyStarts
<1>6. CASE Same(k) /\ k = 0
  <2>1. First
    BY <1>2, <1>6 DEF IInv, FirstKept
  <2>2. Low
    BY <1>1, <1>2, <1>6, <2>1, SameTells DEF IInv
  <2>3. StartCopy(k + 1) /\ k + 1 \in 0 .. 3 /\ k + 1 = 1
    BY <1>6, <1>c
  <2> QED BY <1>1, <1>2, <2>1, <2>2, <2>3, CopyStarts
<1>7. CASE ~Same(k) /\ k > 0
  <2>1. k - 1 \in 0 .. 2
    BY <1>2, <1>7
  <2>2. pc' = [at |-> "compare", caller |-> pc.caller, level |-> k - 1, page |-> pc.page]
    BY <1>1, <1>7, <1>c, PcParts DEF Compare
  <2>3. k - 1 = 0 => ~Mid
    <3>1. k - 1 = 0 => k = 1
      BY <1>2
    <3> QED BY <1>1, <1>2, <1>7, <3>1, SameTells DEF IInv
  <2> QED BY <1>1, <1>2, <1>3, <2>1, <2>2, <2>3, CompareOK
<1>8. CASE ~Same(k) /\ k = 0
  <2>1. First
    BY <1>2, <1>8 DEF IInv, FirstKept
  <2>2. StartCopy(k)
    BY <1>8, <1>c
  <2> QED BY <1>1, <1>2, <1>8, <2>1, <2>2, CopyStarts
<1> QED BY <1>2, <1>4, <1>5, <1>6, <1>7, <1>8

\* The page that is being copied may be lost, and what its block may rely on stays.
LEMMA PageCopied ==
  ASSUME IInv, pc.at \in {"erase", "write"}, NEW v \in Contents,
         UNCHANGED <<update, bootloader, fails>>, flash' = [flash EXCEPT ![pc.page] = v],
         NEW a \in {"erase", "write", "copied"}, NEW p \in {pc.page, pc.page + 1},
         a # "copied" => p < To(pc.level),
         pc' = [at |-> a, caller |-> pc.caller, level |-> pc.level, page |-> p]
  PROVE  IInv'
<1>1. TypeOK /\ update \in Updates
  BY DEF IInv, TypeOK
<1>2. Copying /\ pc.at # "copied"
  BY DEF IInv
<1>3. /\ pc.level \in 0 .. 3 /\ (pc.level = 3 <=> ~Overlaps)
      /\ (pc.level = 3 => pc.caller = "swap")
      /\ From(pc.level) <= pc.page /\ pc.page < To(pc.level)
      /\ (pc.level = 0 => First /\ ~Mid)
      /\ (pc.level = 1 => First /\ Low)
      /\ (pc.level = 2 => Low /\ Mid)
      /\ pc.page \in 0 .. Top
  BY <1>1, <1>2, PcParts DEF Copying
<1>4. /\ N \in Nat /\ Block \in Nat /\ Block >= 3 /\ Start \in Nat /\ 2 * Block <= Start
      /\ N <= Start + Block
  BY <1>1, Layout
<1>5. pc.page \in 0 .. N - 1 /\ p \in 0 .. Top /\ p <= To(pc.level) /\ From(pc.level) <= p
  BY <1>1, <1>3, <1>4, Blocks
<1>6. /\ pc.level = 0 => pc.page < Block
      /\ pc.level = 1 => Block <= pc.page /\ pc.page < 2 * Block
      /\ pc.level = 2 => 2 * Block <= pc.page
  BY <1>1, <1>3, Blocks
<1>7. /\ Sources' /\ Overlaps' = Overlaps /\ Top' = Top /\ Contents' = Contents
      /\ flash' \in [0 .. Top -> Contents]
      /\ From(pc.level)' = From(pc.level) /\ To(pc.level)' = To(pc.level)
  <2>1. /\ Sources' /\ Overlaps' = Overlaps /\ Top' = Top /\ Contents' = Contents
        /\ flash' \in [0 .. Top -> Contents]
        /\ N' = N /\ Block' = Block
    BY <1>1, <1>5, PageWritten DEF IInv
  <2> QED BY <2>1 DEF From, To
<1>8. /\ pc.level = 0 => First' /\ ~Mid'
      /\ pc.level = 1 => First' /\ Low'
      /\ pc.level = 2 => Low' /\ Mid'
  <2>1. pc.level = 0 => pc.page < Start /\ pc.page \notin Block .. 2 * Block - 1
    BY <1>4, <1>5, <1>6
  <2>2. pc.level = 1 => pc.page < Start /\ pc.page \notin 0 .. Block - 1
    BY <1>4, <1>5, <1>6
  <2>3. pc.level = 2 => pc.page \notin 0 .. Block - 1 /\ pc.page \notin Block .. 2 * Block - 1
    BY <1>4, <1>5, <1>6
  <2> QED BY <1>1, <1>3, <1>5, <2>1, <2>2, <2>3, PageWritten DEF IInv
<1>9. FirstKept' /\ Tells'
  BY <1>3, <1>7, <1>8 DEF FirstKept, Tells
<1>10. TypeOK'
  <2>1. OldBl' = OldBl /\ NewBl' = NewBl
    BY DEF OldBl, NewBl
  <2>2. pc' \in [at : Places, caller : Callers, level : 0 .. 3, page : 0 .. Top]
    BY <1>1, <1>3, <1>5, PcParts DEF Places
  <2> QED BY <1>1, <1>7, <2>1, <2>2 DEF TypeOK, Places, Callers
<1>11. Copying'
  <2>1. pc'.at = a /\ pc'.level = pc.level /\ pc'.page = p /\ pc'.caller = pc.caller
    OBVIOUS
  <2>2. From(pc.level)' = From(pc.level) /\ To(pc.level)' = To(pc.level)
    BY <1>7
  <2> QED BY <1>3, <1>5, <1>7, <1>8, <2>1, <2>2 DEF Copying
<1>12. (Clearing /\ Comparing /\ Finishing)'
  BY DEF Clearing, Comparing, Finishing
<1> QED BY <1>7, <1>9, <1>10, <1>11, <1>12 DEF IInv

LEMMA ErasePageOK == IInv /\ ErasePage => IInv'
<1> SUFFICES ASSUME IInv, ErasePage PROVE IInv'
  OBVIOUS
<1>1. TypeOK /\ pc.at = "erase" /\ UNCHANGED <<update, bootloader, fails>>
  BY DEF IInv, ErasePage
<1>2. pc' = [at |-> "write", caller |-> pc.caller, level |-> pc.level, page |-> pc.page]
  BY <1>1, PcParts DEF ErasePage, Goto
<1>3. Torn \in Contents /\ flash' = [flash EXCEPT ![pc.page] = Torn]
  BY DEF ErasePage, Contents
<1>4. pc.page < To(pc.level)
  BY <1>1 DEF IInv, Copying
<1> QED BY <1>1, <1>2, <1>3, <1>4, PageCopied

LEMMA WritePageOK == IInv /\ WritePage => IInv'
<1> SUFFICES ASSUME IInv, WritePage PROVE IInv'
  OBVIOUS
<1> DEFINE a == IF pc.page + 1 < To(pc.level) THEN "erase" ELSE "copied"
           v == flash[Start + pc.page]
<1>1. /\ TypeOK /\ update \in Updates /\ pc.at = "write"
      /\ UNCHANGED <<update, bootloader, fails>>
      /\ flash' = [flash EXCEPT ![pc.page] = v]
  BY DEF IInv, TypeOK, WritePage
<1>2. pc' = [at |-> a, caller |-> pc.caller, level |-> pc.level, page |-> pc.page + 1]
  BY <1>1, PcParts DEF WritePage
<1>3. v \in Contents
  <2>1. /\ pc.level \in 0 .. 3
        /\ pc.level = 3 <=> ~Overlaps
        /\ From(pc.level) <= pc.page
        /\ pc.page < To(pc.level)
    BY <1>1 DEF IInv, Copying
  <2>2. pc.page \in Nat /\ pc.page < N
    BY <1>1, <2>1, Blocks, PcParts, Layout
  <2>3. Start + pc.page \in 0 .. Top
    BY <1>1, <2>2, Blocks, Layout
  <2> QED BY <1>1, <2>3 DEF TypeOK
<1>4. a \in {"erase", "write", "copied"} /\ (a # "copied" => pc.page + 1 < To(pc.level))
  OBVIOUS
<1> HIDE DEF a, v
<1> QED BY <1>1, <1>2, <1>3, <1>4, PageCopied

LEMMA CopiedOK == IInv /\ Copied => IInv'
<1> SUFFICES ASSUME IInv, Copied PROVE IInv'
  OBVIOUS
<1>1. /\ TypeOK /\ update \in Updates /\ UNCHANGED <<update, flash, bootloader, fails>>
      /\ pc.at = "copied"
  BY DEF IInv, TypeOK, Copied
<1>2. /\ pc.level \in 0 .. 3
      /\ pc.level = 3 <=> ~Overlaps
      /\ pc.level = 3 => pc.caller = "swap"
      /\ pc.level = 0 => First /\ ~Mid
      /\ pc.level = 1 => First /\ Low
      /\ pc.level = 2 => Low /\ Mid
  BY <1>1 DEF IInv, Copying
<1> PICK k \in 0 .. 3 : k = pc.level
  BY <1>2
<1>3. IF k = Whole THEN Succeeds
      ELSE IF ~Same(k) THEN Fails
      ELSE IF k = 2 THEN Succeeds ELSE StartCopy(k + 1)
  BY Zenon DEF Copied
<1>4. CASE k = 3
  BY <1>1, <1>2, <1>3, <1>4, SucceedsOK DEF Whole
<1>5. CASE k # 3 /\ ~Same(k)
  BY <1>1, <1>3, <1>5, FailsOK DEF Whole
<1>6. CASE k = 2 /\ Same(k)
  <2>1. Overlaps /\ Same(2)
    BY <1>2, <1>6
  <2>2. Placed
    BY <1>1, <2>1, SameTells DEF IInv
  <2> QED BY <1>1, <1>3, <1>6, <2>2, SucceedsOK DEF Whole
<1>7. CASE k = 1 /\ Same(k)
  <2>1. Overlaps /\ Same(1) /\ Low
    BY <1>2, <1>7
  <2>2. Mid
    BY <1>1, <2>1, SameTells DEF IInv
  <2>3. StartCopy(k + 1) /\ k + 1 \in 0 .. 2 /\ k + 1 = 2
    BY <1>3, <1>7 DEF Whole
  <2> QED BY <1>1, <2>1, <2>2, <2>3, CopyStarts
<1>8. CASE k = 0 /\ Same(k)
  <2>1. Overlaps /\ Same(0) /\ First
    BY <1>2, <1>8
  <2>2. Low
    BY <1>1, <2>1, SameTells DEF IInv
  <2>3. StartCopy(k + 1) /\ k + 1 \in 0 .. 2 /\ k + 1 = 1
    BY <1>3, <1>8 DEF Whole
  <2> QED BY <1>1, <2>1, <2>2, <2>3, CopyStarts
<1> QED BY <1>4, <1>5, <1>6, <1>7, <1>8

\* What waits behind the SoftDevice is the new bootloader.
LEMMA ImageIs == IInv /\ update.bl => BlImage = NewBl
BY DEF IInv, Sources, BlImage

\* The steps around the SoftDevice.
LEMMA FinishOK == IInv /\ (CheckBl \/ CopyBl \/ Finalize \/ PowerFails) => IInv'
<1> SUFFICES ASSUME IInv, CheckBl \/ CopyBl \/ Finalize \/ PowerFails PROVE IInv'
  OBVIOUS
<1>1. TypeOK /\ update \in Updates /\ UNCHANGED <<update, flash>>
  BY DEF IInv, TypeOK, CheckBl, CopyBl, Finalize, PowerFails
<1>2. bootloader' \in {OldBl, NewBl} /\ fails' \in 0 .. MaxFails
  <2>1. bootloader \in {OldBl, NewBl} /\ fails \in 0 .. MaxFails /\ MaxFails \in Nat
    BY <1>1, FailsAssumption DEF TypeOK
  <2>2. CASE CheckBl \/ Finalize
    BY <2>1, <2>2 DEF CheckBl, Finalize
  <2>3. CASE CopyBl
    BY <2>1, <2>3, ImageIs DEF CopyBl
  <2>4. CASE PowerFails
    BY <2>1, <2>4 DEF PowerFails
  <2> QED BY <2>2, <2>3, <2>4
<1>3. Sources' /\ FirstKept' /\ Tells' /\ (Placed' <=> Placed)
  BY <1>1, FlashKept DEF IInv
<1>4. ASSUME NEW a \in {"finalize", "swap", "done"},
             pc' = [at |-> a, caller |-> pc.caller, level |-> pc.level, page |-> pc.page],
             a # "swap" => Placed /\ (update.bl => bootloader' = NewBl)
      PROVE  IInv'
  <2>1. TypeOK'
    BY <1>1, <1>2, <1>4, PcParts, TypeKept DEF Places, Callers
  <2>2. Finishing'
    BY <1>1, <1>3, <1>4 DEF Finishing, NewBl
  <2>3. (Clearing /\ Comparing /\ Copying)'
    BY <1>4 DEF Clearing, Comparing, Copying
  <2> QED BY <1>3, <2>1, <2>2, <2>3 DEF IInv
<1>5. CASE CheckBl
  <2>1. Placed
    BY <1>5 DEF CheckBl, IInv, Finishing
  <2>2. BlIsThere /\ update.bl => bootloader = NewBl
    BY ImageIs DEF BlIsThere
  <2>3. PICK a \in {"finalize", "swap"} : a = IF BlIsThere THEN "finalize" ELSE "swap"
    OBVIOUS
  <2>4. pc' = [at |-> a, caller |-> pc.caller, level |-> pc.level, page |-> pc.page]
    BY <1>1, <1>5, <2>3, PcParts DEF CheckBl, Goto
  <2>5. bootloader' = bootloader
    BY <1>5 DEF CheckBl
  <2> QED BY <1>4, <2>1, <2>2, <2>3, <2>4, <2>5
<1>6. CASE CopyBl /\ ~update.bl
  <2>1. Placed
    BY <1>6 DEF CopyBl, IInv, Finishing
  <2>2. pc' = [at |-> "finalize", caller |-> pc.caller, level |-> pc.level, page |-> pc.page]
    BY <1>1, <1>6, PcParts DEF CopyBl, Goto
  <2> QED BY <1>4, <1>6, <2>1, <2>2
<1>7. CASE CopyBl /\ update.bl
  BY <1>1, <1>2, <1>7, BootOK DEF CopyBl
<1>8. CASE Finalize
  <2>1. Placed /\ (update.bl => bootloader = NewBl)
    BY <1>8 DEF Finalize, IInv, Finishing
  <2>2. pc' = [at |-> "done", caller |-> pc.caller, level |-> pc.level, page |-> pc.page]
    BY <1>1, <1>8, PcParts DEF Finalize, Goto
  <2>3. bootloader' = bootloader
    BY <1>8 DEF Finalize
  <2> QED BY <1>4, <2>1, <2>2, <2>3
<1>9. CASE PowerFails
  BY <1>1, <1>2, <1>9, BootOK DEF PowerFails
<1> QED BY <1>5, <1>6, <1>7, <1>8, <1>9

LEMMA StutterOK == IInv /\ UNCHANGED vars => IInv'
<1> SUFFICES ASSUME IInv, UNCHANGED vars PROVE IInv'
  OBVIOUS
<1>1. UNCHANGED <<update, flash, bootloader, pc, fails>>
  BY DEF vars
<1>2. Sources' /\ FirstKept' /\ Tells'
  BY <1>1, FlashKept DEF IInv
<1>3. TypeOK'
  <2>1. bootloader' \in {OldBl, NewBl} /\ fails' \in 0 .. MaxFails /\ TypeOK
    BY <1>1 DEF IInv, TypeOK
  <2>2. pc' \in [at : Places, caller : Callers, level : 0 .. 3, page : 0 .. Top]
    BY <1>1, <2>1, PcParts
  <2> QED BY <1>1, <2>1, <2>2, TypeKept
<1>4. /\ Overlaps' = Overlaps /\ Block' = Block
      /\ (Low' <=> Low) /\ (Mid' <=> Mid) /\ (First' <=> First) /\ (Placed' <=> Placed)
  BY <1>1, FlashKept DEF IInv
<1>5. Clearing' /\ Comparing' /\ Finishing'
  BY <1>1, <1>4 DEF IInv, Clearing, Comparing, Finishing, NewBl
<1>6. Copying'
  <2>1. From(pc.level)' = From(pc.level) /\ To(pc.level)' = To(pc.level)
    BY <1>1, <1>4, FlashKept DEF IInv, From, To
  <2>2. Copying
    BY DEF IInv
  <2> QED BY <1>1, <1>4, <2>1, <2>2 DEF Copying
<1> QED BY <1>2, <1>3, <1>5, <1>6 DEF IInv

-----------------------------------------------------------------------------
\* The invariant is inductive, and it is what the properties rest on.
LEMMA Inductive == Spec => []IInv
<1>1. IInv /\ [Next]_vars => IInv'
  <2> SUFFICES ASSUME IInv, [Next]_vars PROVE IInv'
    OBVIOUS
  <2> QED BY ValidateOK, SwapOK, ClearOK, DescendOK, ErasePageOK, WritePageOK, CopiedOK,
             FinishOK, StutterOK DEF Next, Step
<1> QED BY InitOK, <1>1, PTL DEF Spec

\* Pages, contents and places of the boot stay what they can be: no copy leaves the
\* SoftDevice's place, whatever the sizes.
THEOREM TypeCorrect == Spec => []TypeOK
<1>1. IInv => TypeOK
  BY DEF IInv
<1> QED BY <1>1, Inductive, PTL

\* Whatever the power does between two pages of the move, each page of the update is
\* still in the flash, at its source or in its place.
THEOREM NoPageLostCorrect == Spec => []NoPageLost
<1>1. IInv => NoPageLost
  <2> SUFFICES ASSUME IInv PROVE NoPageLost
    OBVIOUS
  <2>1. update \in Updates
    BY DEF IInv, TypeOK
  <2>2. /\ N \in Nat /\ Start \in Nat /\ Block \in Nat
        /\ N <= Start + Block /\ (Overlaps <=> N > Start)
    BY <2>1, Layout
  <2>3. ASSUME NEW i \in 0 .. N - 1 PROVE New(i) \in {flash[i], flash[Start + i]}
    <3>1. CASE ~(Start + i < N)
      BY <3>1 DEF IInv, Sources
    <3>2. CASE Start + i < N
      <4>1. Overlaps /\ i \in 0 .. Block - 1
        BY <2>2, <3>2
      <4>2. Low => flash[i] = New(i)
        BY <4>1 DEF Low
      <4>3. First => flash[Start + i] = New(i)
        BY <3>2 DEF First
      <4> QED BY <4>1, <4>2, <4>3 DEF IInv, FirstKept
    <3> QED BY <3>1, <3>2
  <2>6. \A i \in 0 .. N - 1 : New(i) \in {flash[i], flash[Start + i]}
    BY <2>3
  <2>7. update.bl => flash[BlPage] = NewBl
    BY DEF IInv, Sources
  <2> QED BY <2>6, <2>7 DEF NoPageLost
<1> QED BY <1>1, Inductive, PTL

\* What the bootloader takes for finished is the new SoftDevice in its place, page for
\* page, and the new bootloader with it.
THEOREM SwappedCorrect == Spec => []SwappedIsWhole
<1>1. IInv => SwappedIsWhole
  BY DEF IInv, Finishing, Placed, SwappedIsWhole
<1> QED BY <1>1, Inductive, PTL
=============================================================================
