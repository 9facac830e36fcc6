---------------------------- MODULE Uf2Disk_proof ----------------------------
(***************************************************************************)
(* Uf2Disk for every set of files and every size of page, application and  *)
(* bootloader, with hosts that copy one file in a session: what is         *)
(* reported complete is whole, and so is the bootloader that runs.         *)
(***************************************************************************)
EXTENDS Uf2Disk, TLAPS, FiniteSetTheorems

\* Quotient and remainder.
LEMMA DivMod ==
  ASSUME NEW a \in Nat, NEW b \in Nat \ {0}
  PROVE  /\ a \div b \in Nat
         /\ a % b \in 0 .. b - 1
         /\ (a \div b) * b + (a % b) = a
         /\ a \div b <= a
BY SMT

USE Uf2DiskAssumption DEF Uf2DiskAssumption

\* The block is where it belongs, in flash or in the cache.
Arrived(n) == View(Address(file, n)) = Block(file, n)

\* The blocks that are counted are blocks of the file, and those with a place
\* have arrived.
MaskInFlash ==
  /\ wr_state.writtenMask \subseteq Blocks(file)
  /\ wr_state.numWritten = Cardinality(wr_state.writtenMask)
  /\ \A n \in wr_state.writtenMask \cap Places(file) : Arrived(n)

\* The number that is waited for is that of the file, or out of reach.
NumBlocksOfFile == wr_state.numBlocks \in {0, file.numBlocks, Never}

\* Once enough blocks are written nothing is left in the cache.
Enough == wr_state.numBlocks # 0 /\ wr_state.numWritten >= wr_state.numBlocks
NothingLeft == Enough => cache = NoPage

\* Where the cached page differs from flash it holds a block of the file.
CacheIsOfFile ==
  \A a \in App : View(a) # flash[a] =>
    \E n \in Places(file) : Address(file, n) = a

\* The flags tell what kind of file it is, and what was seen of a bootloader.
FlagsOfFile ==
  /\ wr_state.writtenMask # {} => file.family \in {"app", "boot"}
  /\ wr_state.update_bootloader => file.family = "boot"
  /\ wr_state.writtenMask # {} /\ file.family = "boot" =>
       wr_state.update_bootloader
  /\ wr_state.has_uicr => \E n \in Blocks(file) : file.target[n].space = "uicr"
  /\ wr_state.boot_id_matches =>
       \E n \in Places(file) : file.target[n].id = "ours"
  /\ Enough /\ wr_state.update_bootloader /\ ~wr_state.aborted => wr_state.has_uicr
  /\ file.family = "boot" => \A n \in wr_state.writtenMask :
       /\ file.target[n].space = "uicr" => file.target[n].id = "ours"
       /\ file.target[n].id = "theirs" => wr_state.boot_id_matches

\* An update is complete only when enough blocks of an application are written.
CompleteIsEnough ==
  m_update_status = "COMPLETE" => Enough /\ ~wr_state.update_bootloader

IInv ==
  /\ TypeOK
  /\ MaskInFlash
  /\ NumBlocksOfFile
  /\ NothingLeft
  /\ CacheIsOfFile
  /\ FlagsOfFile
  /\ CompleteIsEnough
  /\ BootloaderIsWhole

-----------------------------------------------------------------------------
(* Pages and addresses. *)

\* A block is determined by its page and its place in the page.
LEMMA PageTimes ==
  ASSUME NEW a \in App
  PROVE  /\ Page(a) * PageBlocks + (a % PageBlocks) = a
         /\ a % PageBlocks \in 0 .. PageBlocks - 1
         /\ Page(a) \in Nat /\ Page(a) <= a
<1>1. a \in Nat /\ PageBlocks \in Nat \ {0}
  BY DEF App
<1> QED BY ONLY <1>1, DivMod DEF Page

LEMMA PageAndOffset ==
  ASSUME NEW a \in App, NEW b \in App, Page(a) = Page(b),
         a % PageBlocks = b % PageBlocks
  PROVE  a = b
<1>1. /\ Page(a) * PageBlocks + (a % PageBlocks) = a
      /\ Page(b) * PageBlocks + (b % PageBlocks) = b
  BY PageTimes
<1> QED BY ONLY <1>1, Page(a) = Page(b), a % PageBlocks = b % PageBlocks

\* The place of a block in its page, and its page: never the one of NoPage.
LEMMA Offset ==
  ASSUME NEW a \in App
  PROVE  /\ a % PageBlocks \in 0 .. PageBlocks - 1
         /\ Page(a) # NoPage.page
         /\ Page(a) \in {Page(b) : b \in App}
<1>1. a % PageBlocks \in 0 .. PageBlocks - 1
  BY PageTimes
<1>2. Page(a) # AppBlocks
  <2>1. a \in Nat /\ AppBlocks \in Nat /\ a < AppBlocks
    BY DEF App
  <2>2. Page(a) \in Nat /\ Page(a) <= a
    BY PageTimes
  <2> QED BY ONLY <2>1, <2>2
<1> QED BY <1>1, <1>2 DEF NoPage

\* A file, its blocks and their addresses.
LEMMA FileFields ==
  ASSUME NEW f \in Files
  PROVE  /\ f.family \in {"app", "boot", "other"}
         /\ f.numBlocks \in 1 .. MaxBlocks
         /\ Blocks(f) \subseteq 0 .. MaxBlocks - 1
         /\ \A n \in Blocks(f) : f.target[n] \in Targets
         /\ Places(f) \subseteq Blocks(f)
         /\ \A m, n \in Places(f) : Address(f, m) = Address(f, n) => m = n
<1>1. f.numBlocks \in 1 .. MaxBlocks /\ f.target \in [Blocks(f) -> Targets]
  OBVIOUS
<1>2. Blocks(f) \subseteq 0 .. MaxBlocks - 1
  BY <1>1 DEF Blocks
<1> QED BY <1>1, <1>2 DEF Places

LEMMA TargetFields ==
  ASSUME NEW t \in Targets
  PROVE  /\ t.space \in {"app", "boot", "uicr", "mbr", "other"}
         /\ t.space = "app" => t.at \in App
         /\ t.space = "boot" => t.at \in Boot
         /\ t.space = "uicr" => t.id \in {"ours", "theirs"}
         /\ t.id \in {"none", "ours", "theirs"}
         /\ t.id = "theirs" => t.space \in {"boot", "uicr"}
BY DEF Targets

\* A block with a place is stored in the application's space.
LEMMA AddressInApp ==
  ASSUME NEW f \in Files, NEW n \in Places(f)
  PROVE  Address(f, n) \in App
<1>1. f.target[n] \in Targets /\ f.target[n].space = Stored(f)
  BY FileFields DEF Places
<1>2. CASE f.family = "app"
  BY <1>1, <1>2, TargetFields DEF Address, Stored
<1>3. CASE f.family # "app"
  <2>1. f.target[n].at \in Boot
    BY <1>1, <1>3, TargetFields DEF Stored
  <2> QED BY <2>1, <1>3 DEF Address, Boot, App
<1> QED BY <1>2, <1>3

\* The blocks of the page of a are blocks of the application's space.
LEMMA PageInApp ==
  ASSUME NEW a \in App, NEW k \in 0 .. PageBlocks - 1
  PROVE  Page(a) * PageBlocks + k \in App
<1> DEFINE q == Page(a)
           m == AppBlocks \div PageBlocks
<1>1. /\ q \in Nat /\ m \in Nat /\ a \in Nat /\ k \in 0 .. PageBlocks - 1
      /\ PageBlocks \in Nat \ {0}
      /\ AppBlocks = m * PageBlocks
      /\ q * PageBlocks <= a /\ a < AppBlocks
  <2>1. AppBlocks \in Nat /\ PageBlocks \in Nat \ {0} /\ AppBlocks % PageBlocks = 0
    OBVIOUS
  <2>2. m \in Nat /\ m * PageBlocks + (AppBlocks % PageBlocks) = AppBlocks
    BY ONLY <2>1, DivMod
  <2>3. a \in Nat /\ a < AppBlocks
    BY DEF App
  <2>4. q \in Nat /\ q * PageBlocks + (a % PageBlocks) = a
        /\ a % PageBlocks \in 0 .. PageBlocks - 1
    BY PageTimes
  <2> HIDE DEF q, m
  <2>5. m * PageBlocks \in Nat /\ q * PageBlocks \in Nat
    BY ONLY <2>1, <2>2, <2>4, SMT
  <2> QED BY ONLY <2>1, <2>2, <2>3, <2>4, <2>5, k \in 0 .. PageBlocks - 1
<1> HIDE DEF q, m
<1>2. q < m
  <2>1. SUFFICES ASSUME q >= m PROVE FALSE
    BY <1>1
  <2>2. q * PageBlocks >= m * PageBlocks
    BY ONLY <1>1, <2>1, SMT
  <2>3. q * PageBlocks \in Nat /\ m * PageBlocks \in Nat
    BY ONLY <1>1, SMT
  <2> QED BY ONLY <1>1, <2>2, <2>3
<1>3. (q + 1) * PageBlocks <= m * PageBlocks
  BY ONLY <1>1, <1>2, SMT
<1>4. (q + 1) * PageBlocks = q * PageBlocks + PageBlocks
  BY ONLY <1>1, SMT
<1>5. q * PageBlocks \in Nat
  BY ONLY <1>1, SMT
<1>6. q * PageBlocks + k \in 0 .. AppBlocks - 1
  BY ONLY <1>1, <1>3, <1>4, <1>5
<1> QED BY <1>6 DEF q, App

-----------------------------------------------------------------------------
(* The cache. *)

\* Seen through the cache the flash has contents everywhere.
LEMMA ViewType ==
  ASSUME TypeOK, NEW a \in App
  PROVE  View(a) \in Contents
<1>1. CASE Page(a) = cache.page
  <2>1. cache.data \in [0 .. PageBlocks - 1 -> Contents]
    BY <1>1, Offset DEF TypeOK
  <2> QED BY <1>1, <2>1, Offset DEF View
<1>2. CASE Page(a) # cache.page
  BY <1>2 DEF View, TypeOK
<1> QED BY <1>1, <1>2

\* With nothing in the cache the flash is what is seen.
LEMMA ViewOfFlash ==
  ASSUME cache = NoPage, NEW a \in App
  PROVE  View(a) = flash[a]
BY Offset DEF View

LEMMA BlockType ==
  ASSUME NEW f \in Files, NEW n \in Blocks(f)
  PROVE  Block(f, n) \in Contents
BY FileFields DEF Contents

\* What is seen once block n of f is written: that block, and nothing else new.
LEMMA WriteView ==
  ASSUME NEW f \in Files, NEW n \in Blocks(f),
         flash' = FlashAfter(f, n), cache' = CacheAfter(f, n), NEW a \in App
  PROVE  View(a)' = IF n \in Places(f) /\ a = Address(f, n) THEN Block(f, n)
                    ELSE View(a)
<1>1. CASE IsLast(f, n)
  <2>1. cache' = NoPage
    BY <1>1 DEF CacheAfter
  <2>2. View(a)' = flash'[a]
    BY <2>1, Offset DEF View
  <2> QED BY <1>1, <2>2, AddressInApp DEF FlashAfter, Flushed
<1>2. CASE ~IsLast(f, n) /\ n \notin Places(f)
  BY <1>2 DEF View, FlashAfter, CacheAfter
<1>3. CASE ~IsLast(f, n) /\ n \in Places(f)
  <2> DEFINE d == Address(f, n)
  <2>1. d \in App
    BY <1>3, AddressInApp
  <2>2. /\ cache' = Written(d, Block(f, n))
        /\ flash' = IF Page(d) = cache.page THEN flash ELSE Flushed
    BY <1>3 DEF FlashAfter, CacheAfter
  <2> HIDE DEF d
  <2>3. cache'.page = Page(d)
    BY <2>2 DEF Written
  <2>4. CASE Page(a) = Page(d)
    <3>1. View(a)' = cache'.data[a % PageBlocks]
      BY <2>3, <2>4 DEF View
    <3>2. cache'.data[a % PageBlocks] =
            IF a % PageBlocks = d % PageBlocks THEN Block(f, n)
            ELSE View(Page(d) * PageBlocks + (a % PageBlocks))
      BY <2>2, Offset DEF Written
    <3>3. Page(d) * PageBlocks + (a % PageBlocks) = a
      BY <2>4, PageTimes
    <3>4. a % PageBlocks = d % PageBlocks <=> a = d
      BY <2>1, <2>4, PageAndOffset
    <3> QED BY <1>3, <3>1, <3>2, <3>3, <3>4 DEF d
  <2>5. CASE Page(a) # Page(d)
    <3>1. View(a)' = flash'[a]
      BY <2>3, <2>5 DEF View
    <3>2. flash'[a] = View(a)
      BY <2>2, <2>5 DEF View, Flushed
    <3> QED BY <1>3, <2>5, <3>1, <3>2 DEF d
  <2> QED BY <2>4, <2>5
<1> QED BY <1>1, <1>2, <1>3

\* The flash changes only where the cached page is written back, and where the
\* last block goes.
LEMMA WriteFlash ==
  ASSUME NEW f \in Files, NEW n \in Blocks(f),
         flash' = FlashAfter(f, n), NEW a \in App,
         ~ (n \in Places(f) /\ a = Address(f, n))
  PROVE  flash'[a] \in {flash[a], View(a)}
<1>1. CASE n \notin Places(f)
  BY <1>1 DEF FlashAfter, Flushed
<1>2. CASE n \in Places(f) /\ IsLast(f, n)
  BY <1>2, AddressInApp DEF FlashAfter, Flushed
<1>3. CASE n \in Places(f) /\ ~IsLast(f, n)
  BY <1>3 DEF FlashAfter, Flushed
<1> QED BY <1>1, <1>2, <1>3

-----------------------------------------------------------------------------
(* The counting of blocks. *)

WriteStates == [numBlocks : 0 .. Never, numWritten : 0 .. MaxBlocks,
                aborted : BOOLEAN, update_bootloader : BOOLEAN,
                has_uicr : BOOLEAN, boot_id_matches : BOOLEAN,
                writtenMask : SUBSET (0 .. MaxBlocks - 1)]

\* What a look at a block changes of wr_state.
LEMMA SeenFields ==
  ASSUME TypeOK, NEW f \in Files, NEW t \in Targets
  PROVE  /\ Seen(f, t) \in WriteStates
         /\ Seen(f, t).numBlocks = wr_state.numBlocks
         /\ Seen(f, t).numWritten = wr_state.numWritten
         /\ Seen(f, t).writtenMask = wr_state.writtenMask
         /\ Seen(f, t).update_bootloader =
              (wr_state.update_bootloader \/ f.family = "boot")
         /\ Seen(f, t).has_uicr =
              (wr_state.has_uicr \/ (f.family = "boot" /\ t.space = "uicr"
                                     /\ t.id = "ours"))
         /\ Seen(f, t).boot_id_matches =
              (wr_state.boot_id_matches \/ (f.family = "boot" /\ t.space = "boot"
                                            /\ t.id = "ours"))
         /\ Seen(f, t).aborted =
              (wr_state.aborted \/ (f.family = "boot" /\ Refused(f, t)))
<1>1. wr_state \in WriteStates
  BY DEF TypeOK, WriteStates
<1>2. Seen(f, t) \in WriteStates
  <2> DEFINE boot == wr_state.update_bootloader \/ f.family = "boot"
             uicr == wr_state.has_uicr \/ (f.family = "boot" /\ t.space = "uicr"
                                           /\ t.id = "ours")
             ours == wr_state.boot_id_matches \/ (f.family = "boot" /\ t.space = "boot"
                                                  /\ t.id = "ours")
             fail == wr_state.aborted \/ (f.family = "boot" /\ Refused(f, t))
  <2>1. boot \in BOOLEAN /\ uicr \in BOOLEAN /\ ours \in BOOLEAN /\ fail \in BOOLEAN
    OBVIOUS
  <2>2. Seen(f, t) = [wr_state EXCEPT !.update_bootloader = boot, !.has_uicr = uicr,
                                      !.boot_id_matches = ours, !.aborted = fail]
    BY DEF Seen
  <2> HIDE DEF boot, uicr, ours, fail
  <2> QED
    BY <1>1, <2>1, <2>2 DEF WriteStates
<1>3. /\ Seen(f, t).numBlocks = wr_state.numBlocks
      /\ Seen(f, t).numWritten = wr_state.numWritten
      /\ Seen(f, t).writtenMask = wr_state.writtenMask
  BY <1>1 DEF Seen, WriteStates
<1>4. Seen(f, t).update_bootloader = (wr_state.update_bootloader \/ f.family = "boot")
  BY <1>1 DEF Seen, WriteStates
<1>5. Seen(f, t).has_uicr =
        (wr_state.has_uicr \/ (f.family = "boot" /\ t.space = "uicr" /\ t.id = "ours"))
  BY <1>1 DEF Seen, WriteStates
<1>6. Seen(f, t).boot_id_matches =
        (wr_state.boot_id_matches \/ (f.family = "boot" /\ t.space = "boot"
                                      /\ t.id = "ours"))
  BY <1>1 DEF Seen, WriteStates
<1>7. Seen(f, t).aborted = (wr_state.aborted \/ (f.family = "boot" /\ Refused(f, t)))
  BY <1>1 DEF Seen, WriteStates
<1> QED BY <1>2, <1>3, <1>4, <1>5, <1>6, <1>7

\* A block that is counted is added to the mask, which stays as large as
\* numWritten says.
LEMMA CountedBlock ==
  ASSUME TypeOK, MaskInFlash, NEW f \in Files, NEW n \in Blocks(f)
  PROVE  /\ NumWritten(n) = Cardinality(wr_state.writtenMask \cup {n})
         /\ NumWritten(n) \in 0 .. MaxBlocks
         /\ wr_state.writtenMask \cup {n} \in SUBSET (0 .. MaxBlocks - 1)
<1> DEFINE mask == wr_state.writtenMask
           all  == 0 .. MaxBlocks - 1
<1>1. mask \in SUBSET all /\ mask \cup {n} \in SUBSET all
  BY FileFields DEF TypeOK
<1>2. IsFiniteSet(all) /\ Cardinality(all) = MaxBlocks
  BY FS_Interval
<1> HIDE DEF all
<1>3. IsFiniteSet(mask)
  BY <1>1, <1>2, FS_Subset
<1>4. NumWritten(n) = Cardinality(mask \cup {n})
  BY <1>3, FS_AddElement, FS_CardinalityType DEF NumWritten, MaskInFlash
<1>5. IsFiniteSet(mask \cup {n}) /\ Cardinality(mask \cup {n}) <= MaxBlocks
  BY <1>1, <1>2, FS_Subset
<1>6. Cardinality(mask \cup {n}) \in Nat
  BY <1>5, FS_CardinalityType
<1> QED BY <1>1, <1>4, <1>5, <1>6 DEF all

\* A mask as large as the file holds all of its blocks.
LEMMA AllBlocks ==
  ASSUME NEW f \in Files, NEW mask \in SUBSET Blocks(f),
         Cardinality(mask) >= f.numBlocks
  PROVE  mask = Blocks(f)
<1>1. f.numBlocks \in Nat \ {0}
  BY FileFields
<1>2. IsFiniteSet(Blocks(f)) /\ Cardinality(Blocks(f)) = f.numBlocks
  <2> DEFINE last == f.numBlocks - 1
  <2>1. last \in Int /\ ~(0 > last) /\ last - 0 + 1 = f.numBlocks
    BY <1>1
  <2> HIDE DEF last
  <2>2. 0 \in Int /\ last \in Int
    BY <2>1
  <2>3. /\ IsFiniteSet(0 .. last)
        /\ Cardinality(0 .. last) = IF 0 > last THEN 0 ELSE last - 0 + 1
    BY ONLY <2>2, FS_Interval, Zenon
  <2> QED BY <2>1, <2>3 DEF last, Blocks
<1>3. IsFiniteSet(mask) /\ Cardinality(mask) <= f.numBlocks
  BY <1>2, FS_Subset
<1>4. Cardinality(mask) = Cardinality(Blocks(f))
  BY <1>1, <1>2, <1>3, FS_CardinalityType
<1> QED BY <1>2, <1>4, FS_Subset

\* The file has a name once anything is counted, and what is counted when enough
\* blocks are written is the whole file.
LEMMA EnoughIsAll ==
  ASSUME TypeOK, MaskInFlash, NumBlocksOfFile, Enough
  PROVE  /\ file \in Files
         /\ wr_state.numBlocks = file.numBlocks
         /\ wr_state.writtenMask = Blocks(file) /\ wr_state.writtenMask # {}
<1>1. wr_state.numWritten \in 0 .. MaxBlocks
  BY DEF TypeOK
<1>2. wr_state.numBlocks = file.numBlocks
  BY <1>1 DEF Enough, NumBlocksOfFile, Never
<1>3. file # NoFile
  BY <1>2 DEF Enough, NoFile
<1>4. file \in Files
  BY <1>3 DEF TypeOK
<1>5. wr_state.writtenMask = Blocks(file)
  BY <1>2, <1>4, AllBlocks DEF Enough, MaskInFlash
<1>6. 0 \in Blocks(file)
  BY <1>4, FileFields DEF Blocks
<1> QED BY <1>2, <1>4, <1>5, <1>6

LEMMA NumBlocksType ==
  ASSUME TypeOK, NEW f \in Files
  PROVE  /\ NumBlocks(f) \in {f.numBlocks, Never}
         /\ NumBlocks(f) \in 0 .. Never
         /\ NumBlocks(f) # 0
BY FileFields DEF NumBlocks, Never

-----------------------------------------------------------------------------
(* A block is written. *)

\* The host that has begun a file goes on with it.
LEMMA SameFile ==
  ASSUME ManyFiles = FALSE, TypeOK, MaskInFlash, FlagsOfFile,
         NEW f \in Files, Copies(f)
  PROVE  /\ file \in {NoFile, f}
         /\ wr_state.writtenMask # {} => file = f
         /\ wr_state.update_bootloader => file = f
         /\ wr_state.has_uicr => file = f
         /\ wr_state.boot_id_matches => file = f
         /\ \A a \in App : (\E n \in Places(file) : Address(file, n) = a) => file = f
<1>1. file \in {NoFile, f}
  BY DEF Copies
<1>2. Blocks(NoFile) = {} /\ Places(NoFile) = {} /\ NoFile.family # "boot"
  BY DEF Blocks, Places, NoFile
<1> QED BY <1>1, <1>2 DEF MaskInFlash, FlagsOfFile

\* A block that is refused changes only the flags.
LEMMA RefusedIInv ==
  ASSUME ManyFiles = FALSE, IInv, NEW f \in Files, NEW n \in Blocks(f),
         WriteBlock(f, n), Refused(f, f.target[n])
  PROVE  IInv'
<1> DEFINE t == f.target[n]
<1>1. /\ t \in Targets
      /\ wr_state' = Seen(f, t) /\ file' = f
      /\ UNCHANGED <<flash, cache, bootloader, settings, m_update_status, phase>>
      /\ file \in Files \cup {NoFile} /\ Copies(f)
  BY FileFields DEF WriteBlock, IInv, TypeOK
<1> HIDE DEF t
<1>2. TypeOK'
  BY <1>1, SeenFields DEF IInv, TypeOK, WriteStates
<1>3. MaskInFlash'
  <2>1. wr_state'.writtenMask = wr_state.writtenMask
        /\ wr_state'.numWritten = wr_state.numWritten
    BY <1>1, SeenFields DEF IInv
  <2>2. wr_state.writtenMask # {} => file = f
    BY <1>1, SameFile DEF IInv
  <2>3. \A a : View(a)' = View(a)
    BY <1>1 DEF View
  <2> QED BY <1>1, <2>1, <2>2, <2>3 DEF IInv, MaskInFlash, Arrived
<1>4. NumBlocksOfFile'
  <2>1. wr_state'.numBlocks = wr_state.numBlocks
    BY <1>1, SeenFields DEF IInv
  <2>2. file \in {NoFile, f} /\ NoFile.numBlocks = 0
    BY <1>1, SameFile DEF IInv, NoFile
  <2>3. wr_state.numBlocks \in {0, f.numBlocks, Never}
    BY <2>2 DEF IInv, NumBlocksOfFile
  <2> QED BY <1>1, <2>1, <2>3 DEF NumBlocksOfFile
<1>5. Enough' = Enough
  BY <1>1, SeenFields DEF IInv, Enough
<1>6. NothingLeft'
  BY <1>1, <1>5 DEF IInv, NothingLeft
<1>7. CacheIsOfFile'
  <2>1. \A a : View(a)' = View(a)
    BY <1>1 DEF View
  <2> QED BY <1>1, <2>1, SameFile DEF IInv, CacheIsOfFile
<1>8. FlagsOfFile'
  <2> USE DEF IInv
  <2>1. /\ wr_state'.writtenMask = wr_state.writtenMask
        /\ wr_state'.update_bootloader =
             (wr_state.update_bootloader \/ f.family = "boot")
        /\ wr_state'.has_uicr =
             (wr_state.has_uicr \/ (f.family = "boot" /\ t.space = "uicr"
                                    /\ t.id = "ours"))
        /\ wr_state'.boot_id_matches =
             (wr_state.boot_id_matches \/ (f.family = "boot" /\ t.space = "boot"
                                           /\ t.id = "ours"))
        /\ wr_state'.aborted =
             (wr_state.aborted \/ (f.family = "boot" /\ Refused(f, t)))
    BY <1>1, SeenFields
  <2>2. /\ wr_state.writtenMask # {} => file = f
        /\ wr_state.update_bootloader => file = f
        /\ wr_state.has_uicr => file = f
        /\ wr_state.boot_id_matches => file = f
    BY <1>1, SameFile
  <2>3. f.family = "boot" /\ t.space = "boot" => n \in Places(f)
    BY DEF t, Places, Stored
  <2>4. wr_state'.has_uicr => \E k \in Blocks(f) : f.target[k].space = "uicr"
    BY <2>1, <2>2 DEF FlagsOfFile, t
  <2>5. wr_state'.boot_id_matches => \E k \in Places(f) : f.target[k].id = "ours"
    BY <2>1, <2>2, <2>3 DEF FlagsOfFile, t
  <2>6. Enough' /\ wr_state'.update_bootloader /\ ~wr_state'.aborted
          => wr_state'.has_uicr
    <3>1. Refused(f, t)
      BY DEF t
    <3> QED BY <1>5, <2>1, <3>1 DEF FlagsOfFile
  <2>7. f.family = "boot" => \A k \in wr_state'.writtenMask :
          /\ f.target[k].space = "uicr" => f.target[k].id = "ours"
          /\ f.target[k].id = "theirs" => wr_state'.boot_id_matches
    BY <2>1, <2>2 DEF FlagsOfFile
  <2>8. /\ wr_state'.writtenMask # {} => f.family \in {"app", "boot"}
        /\ wr_state'.update_bootloader => f.family = "boot"
        /\ wr_state'.writtenMask # {} /\ f.family = "boot" =>
             wr_state'.update_bootloader
    BY <2>1, <2>2 DEF FlagsOfFile
  <2> QED BY <1>1, <2>4, <2>5, <2>6, <2>7, <2>8 DEF FlagsOfFile
<1>9. CompleteIsEnough'
  <2>1. SUFFICES ASSUME m_update_status = "COMPLETE"
                 PROVE  Enough' /\ ~wr_state'.update_bootloader
    BY <1>1 DEF CompleteIsEnough
  <2>2. Enough /\ ~wr_state.update_bootloader
    BY <2>1 DEF IInv, CompleteIsEnough
  <2>3. wr_state.writtenMask # {}
    BY <2>2, EnoughIsAll DEF IInv
  <2>4. f.family # "boot"
    BY <1>1, <2>2, <2>3, SameFile DEF IInv, FlagsOfFile
  <2>5. ~wr_state'.update_bootloader
    BY <1>1, <2>2, <2>4, SeenFields DEF IInv
  <2> QED BY <1>5, <2>2, <2>5
<1>10. BootloaderIsWhole'
  BY <1>1 DEF IInv, BootloaderIsWhole
<1> QED BY <1>2, <1>3, <1>4, <1>6, <1>7, <1>8, <1>9, <1>10 DEF IInv

\* The counters and flags after a block that is not refused.
LEMMA AcceptedState ==
  ASSUME TypeOK, MaskInFlash, NEW f \in Files, NEW n \in Blocks(f),
         WriteBlock(f, n), ~Refused(f, f.target[n])
  PROVE  LET seen == Seen(f, f.target[n])
         IN  /\ wr_state' \in WriteStates
             /\ wr_state'.numBlocks = NumBlocks(f)
             /\ wr_state'.numWritten = NumWritten(n)
             /\ wr_state'.writtenMask = wr_state.writtenMask \cup {n}
             /\ wr_state'.update_bootloader = seen.update_bootloader
             /\ wr_state'.has_uicr = seen.has_uicr
             /\ wr_state'.boot_id_matches = seen.boot_id_matches
             /\ wr_state'.aborted =
                  (seen.aborted \/ (IsLast(f, n) /\ seen.update_bootloader
                                    /\ ~seen.has_uicr))
<1> DEFINE seen == Seen(f, f.target[n])
           mask == wr_state.writtenMask \cup {n}
           ends == seen.aborted \/ (IsLast(f, n) /\ seen.update_bootloader
                                    /\ ~seen.has_uicr)
<1>1. seen \in WriteStates /\ seen.writtenMask = wr_state.writtenMask
  BY FileFields, SeenFields
<1>2. wr_state' = [seen EXCEPT !.numBlocks = NumBlocks(f),
                               !.numWritten = NumWritten(n),
                               !.writtenMask = seen.writtenMask \cup {n},
                               !.aborted = ends]
  BY DEF WriteBlock
<1>3. NumBlocks(f) \in 0 .. Never
  BY NumBlocksType
<1>4. NumWritten(n) \in 0 .. MaxBlocks /\ mask \in SUBSET (0 .. MaxBlocks - 1)
  BY CountedBlock
<1>5. ends \in BOOLEAN
  BY <1>1 DEF WriteStates
<1> HIDE DEF seen, ends
<1>6. /\ wr_state'.numBlocks = NumBlocks(f)
      /\ wr_state'.numWritten = NumWritten(n)
      /\ wr_state'.writtenMask = mask
      /\ wr_state'.update_bootloader = seen.update_bootloader
      /\ wr_state'.has_uicr = seen.has_uicr
      /\ wr_state'.boot_id_matches = seen.boot_id_matches
      /\ wr_state'.aborted = ends
  BY <1>1, <1>2 DEF WriteStates
<1>7. wr_state' \in WriteStates
  BY <1>1, <1>2, <1>3, <1>4, <1>5 DEF WriteStates
<1> QED BY <1>6, <1>7 DEF seen, ends

\* The flash and the cache after such a block.
LEMMA AcceptedFlash ==
  ASSUME TypeOK, NEW f \in Files, NEW n \in Blocks(f),
         flash' = FlashAfter(f, n), cache' = CacheAfter(f, n)
  PROVE  /\ flash' \in [App -> Contents]
         /\ cache' \in [page : {Page(a) : a \in App},
                         data : [0 .. PageBlocks - 1 -> Contents]] \cup {NoPage}
<1> USE DEF TypeOK
<1>1. Flushed \in [App -> Contents]
  BY ViewType DEF Flushed
<1>2. flash' \in [App -> Contents]
  <2>1. CASE n \in Places(f) /\ IsLast(f, n)
    BY <1>1, <2>1, BlockType, AddressInApp DEF FlashAfter
  <2>2. CASE ~(n \in Places(f) /\ IsLast(f, n))
    BY <1>1, <2>2 DEF FlashAfter
  <2> QED BY <2>1, <2>2
<1>3. ASSUME n \in Places(f)
      PROVE  Written(Address(f, n), Block(f, n))
               \in [page : {Page(a) : a \in App},
                    data : [0 .. PageBlocks - 1 -> Contents]]
  <2> DEFINE d == Address(f, n)
             b == Block(f, n)
  <2>1. d \in App /\ b \in Contents /\ Page(d) \in {Page(a) : a \in App}
    BY <1>3, AddressInApp, BlockType, Offset
  <2> HIDE DEF d, b
  <2>2. \A k \in 0 .. PageBlocks - 1 : View(Page(d) * PageBlocks + k) \in Contents
    BY <2>1, PageInApp, ViewType
  <2> QED BY <2>1, <2>2 DEF Written, d, b
<1> QED BY <1>2, <1>3 DEF CacheAfter

\* A block that is not refused keeps the invariant.
LEMMA AcceptedIInv ==
  ASSUME ManyFiles = FALSE, IInv, NEW f \in Files, NEW n \in Blocks(f),
         WriteBlock(f, n), ~Refused(f, f.target[n])
  PROVE  IInv'
<1> DEFINE t == f.target[n]
<1> USE DEF IInv
<1>1. /\ t \in Targets /\ ~Refused(f, t)
      /\ flash' = FlashAfter(f, n) /\ cache' = CacheAfter(f, n) /\ file' = f
      /\ UNCHANGED <<bootloader, settings, m_update_status, phase>>
      /\ Copies(f)
  BY FileFields DEF WriteBlock
<1>2. /\ wr_state' \in WriteStates
      /\ wr_state'.numBlocks = NumBlocks(f)
      /\ wr_state'.numWritten = NumWritten(n)
      /\ wr_state'.writtenMask = wr_state.writtenMask \cup {n}
      /\ wr_state'.update_bootloader =
           (wr_state.update_bootloader \/ f.family = "boot")
      /\ wr_state'.has_uicr =
           (wr_state.has_uicr \/ (f.family = "boot" /\ t.space = "uicr"
                                  /\ t.id = "ours"))
      /\ wr_state'.boot_id_matches =
           (wr_state.boot_id_matches \/ (f.family = "boot" /\ t.space = "boot"
                                         /\ t.id = "ours"))
      /\ IsLast(f, n) /\ wr_state'.update_bootloader /\ ~wr_state'.has_uicr
           => wr_state'.aborted
  BY <1>1, AcceptedState, SeenFields
<1>3. /\ file \in {NoFile, f}
      /\ wr_state.writtenMask # {} => file = f
      /\ wr_state.update_bootloader => file = f
      /\ wr_state.has_uicr => file = f
      /\ wr_state.boot_id_matches => file = f
      /\ \A a \in App : (\E k \in Places(file) : Address(file, k) = a) => file = f
  BY <1>1, SameFile
<1>4. \A a \in App : View(a)' = IF n \in Places(f) /\ a = Address(f, n)
                               THEN Block(f, n) ELSE View(a)
  BY <1>1, WriteView
<1>5. Enough' = IsLast(f, n)
  BY <1>2, NumBlocksType DEF Enough, IsLast
<1>6. TypeOK'
  BY <1>1, <1>2, AcceptedFlash DEF TypeOK, WriteStates
<1>7. MaskInFlash'
  <2>1. wr_state'.writtenMask \subseteq Blocks(f)
    BY <1>2, <1>3 DEF MaskInFlash
  <2>2. wr_state'.numWritten = Cardinality(wr_state'.writtenMask)
    BY <1>2, CountedBlock
  <2>3. ASSUME NEW k \in wr_state'.writtenMask \cap Places(f)
        PROVE  View(Address(f, k))' = Block(f, k)
    <3>1. Address(f, k) \in App
      BY AddressInApp
    <3>2. CASE k = n
      BY <1>4, <3>1, <3>2
    <3>3. CASE k # n
      <4>1. View(Address(f, k)) = Block(f, k)
        BY <1>2, <1>3, <3>3 DEF MaskInFlash, Arrived
      <4>2. ~(n \in Places(f) /\ Address(f, k) = Address(f, n))
        BY <3>3, FileFields
      <4> QED BY <1>4, <3>1, <4>1, <4>2
    <3> QED BY <3>2, <3>3
  <2>4. \A k : Arrived(k)' <=> View(Address(f, k))' = Block(f, k)
    BY <1>1 DEF Arrived
  <2> QED BY <1>1, <2>1, <2>2, <2>3, <2>4 DEF MaskInFlash
<1>8. NumBlocksOfFile'
  BY <1>1, <1>2, NumBlocksType DEF NumBlocksOfFile
<1>9. NothingLeft'
  BY <1>1, <1>5 DEF NothingLeft, CacheAfter
<1>10. CacheIsOfFile'
  <2>1. SUFFICES ASSUME NEW a \in App, View(a)' # flash'[a]
                 PROVE  \E k \in Places(f) : Address(f, k) = a
    BY <1>1 DEF CacheIsOfFile
  <2>2. CASE n \in Places(f) /\ a = Address(f, n)
    BY <2>2
  <2>3. CASE ~(n \in Places(f) /\ a = Address(f, n))
    <3>1. View(a)' = View(a)
      BY <1>4, <2>3
    <3>2. flash'[a] \in {flash[a], View(a)}
      BY <1>1, <2>3, WriteFlash
    <3>3. View(a) # flash[a]
      BY <2>1, <3>1, <3>2
    <3> QED BY <1>3, <3>3 DEF CacheIsOfFile
  <2> QED BY <2>2, <2>3
<1>11. FlagsOfFile'
  <2>1. /\ wr_state'.writtenMask # {} => f.family \in {"app", "boot"}
        /\ wr_state'.update_bootloader => f.family = "boot"
        /\ wr_state'.writtenMask # {} /\ f.family = "boot" =>
             wr_state'.update_bootloader
    BY <1>1, <1>2, <1>3, FileFields DEF FlagsOfFile, Refused
  <2>2. wr_state'.has_uicr => \E k \in Blocks(f) : f.target[k].space = "uicr"
    BY <1>2, <1>3 DEF FlagsOfFile
  <2>3. wr_state'.boot_id_matches => \E k \in Places(f) : f.target[k].id = "ours"
    <3>1. f.family = "boot" /\ t.space = "boot" => n \in Places(f)
      BY DEF Places, Stored
    <3> QED BY <1>2, <1>3, <3>1 DEF FlagsOfFile
  <2>4. Enough' /\ wr_state'.update_bootloader /\ ~wr_state'.aborted
          => wr_state'.has_uicr
    BY <1>2, <1>5
  <2>5. ASSUME f.family = "boot", NEW k \in wr_state'.writtenMask
        PROVE  /\ f.target[k].space = "uicr" => f.target[k].id = "ours"
               /\ f.target[k].id = "theirs" => wr_state'.boot_id_matches
    <3>1. CASE k = n
      BY <1>1, <1>2, <2>5, <3>1, TargetFields DEF Refused, IdMismatch
    <3>2. CASE k # n
      BY <1>2, <1>3, <2>5, <3>2 DEF FlagsOfFile
    <3> QED BY <3>1, <3>2
  <2> QED BY <1>1, <2>1, <2>2, <2>3, <2>4, <2>5 DEF FlagsOfFile
<1>12. CompleteIsEnough'
  <2>1. SUFFICES ASSUME m_update_status = "COMPLETE"
                 PROVE  Enough' /\ ~wr_state'.update_bootloader
    BY <1>1 DEF CompleteIsEnough
  <2>2. Enough /\ ~wr_state.update_bootloader
    BY <2>1 DEF CompleteIsEnough
  <2>3. /\ wr_state.numBlocks = f.numBlocks
        /\ n \in wr_state.writtenMask /\ file = f
    BY <1>3, <2>2, EnoughIsAll
  <2>4. f.family # "boot"
    BY <2>2, <2>3 DEF FlagsOfFile
  <2>5. NumBlocks(f) = wr_state.numBlocks /\ NumWritten(n) = wr_state.numWritten
    BY <2>3 DEF NumBlocks, NumWritten, TypeOK
  <2> QED BY <1>2, <2>2, <2>4, <2>5 DEF Enough
<1>13. BootloaderIsWhole'
  BY <1>1 DEF BootloaderIsWhole
<1> QED BY <1>6, <1>7, <1>8, <1>9, <1>10, <1>11, <1>12, <1>13

-----------------------------------------------------------------------------
(* The end of a command, of a session, and of the supply. *)

\* As after a reset, with what is in flash of the right type.
Cleared ==
  /\ cache = NoPage
  /\ wr_state = NoWrites
  /\ m_update_status = "UPDATING"
  /\ file = NoFile
  /\ flash \in [App -> Contents]
  /\ bootloader \in [Boot -> Contents \cup {Current}]
  /\ settings \in {"VALID_APP", "EMPTY", "none"}
  /\ phase \in {"boot", "dfu", "app"}
  /\ BootloaderIsWhole

LEMMA ClearedIInv == Cleared => IInv
<1> SUFFICES ASSUME Cleared PROVE IInv
  OBVIOUS
<1> USE DEF Cleared
<1>1. Blocks(NoFile) = {} /\ Places(NoFile) = {} /\ NoFile.family = "other"
      /\ NoFile.numBlocks = 0
  BY DEF Blocks, Places, NoFile
<1>2. NoWrites \in WriteStates
  BY DEF NoWrites, WriteStates, Never
<1>3. TypeOK
  BY <1>2 DEF TypeOK, WriteStates
<1>4. MaskInFlash
  BY <1>1, FS_EmptySet DEF MaskInFlash, NoWrites
<1>5. ~Enough
  BY DEF Enough, NoWrites
<1>6. NumBlocksOfFile /\ NothingLeft /\ CompleteIsEnough
  BY <1>1, <1>5 DEF NumBlocksOfFile, NothingLeft, CompleteIsEnough, NoWrites
<1>7. CacheIsOfFile
  BY ViewOfFlash DEF CacheIsOfFile
<1>8. FlagsOfFile
  BY <1>1, <1>5 DEF FlagsOfFile, NoWrites
<1> QED BY <1>3, <1>4, <1>6, <1>7, <1>8 DEF IInv

LEMMA ClearedNext == Cleared' => IInv'
BY ClearedIInv, PTL

LEMMA InitIInv == Init => IInv
<1> SUFFICES ASSUME Init PROVE IInv
  OBVIOUS
<1>1. Old \in Files
  OBVIOUS
<1>2. flash \in [App -> Contents]
  <2>1. CASE flash = [a \in App |-> Erased]
    BY <2>1 DEF Contents
  <2>2. CASE flash = [a \in App |->
               IF \E n \in Places(Old) : Address(Old, n) = a
                 THEN Block(Old, CHOOSE n \in Places(Old) : Address(Old, n) = a)
                 ELSE Erased]
    <3>1. ASSUME NEW a \in App, \E n \in Places(Old) : Address(Old, n) = a
          PROVE  Block(Old, CHOOSE n \in Places(Old) : Address(Old, n) = a)
                   \in Contents
      <4> DEFINE k == CHOOSE n \in Places(Old) : Address(Old, n) = a
      <4>1. k \in Places(Old)
        BY <3>1
      <4> HIDE DEF k
      <4>2. Block(Old, k) \in Contents
        BY <1>1, <4>1, FileFields, BlockType
      <4> QED BY <4>2 DEF k
    <3> QED BY <2>2, <3>1 DEF Contents
  <2> QED BY <2>1, <2>2 DEF Init
<1>3. bootloader \in [Boot -> Contents \cup {Current}] /\ BootloaderIsWhole
  BY DEF Init, BootloaderIsWhole
<1> QED BY <1>2, <1>3, ClearedIInv DEF Init, Cleared

\* When all blocks of a new bootloader are there, so is the bootloader.
LEMMA ReceivedIsWhole ==
  ASSUME IInv, AllWritten, wr_state.update_bootloader, bootloader' = Received
  PROVE  BootloaderIsWhole' /\ bootloader' \in [Boot -> Contents \cup {Current}]
<1> USE DEF IInv
<1>1. Enough /\ ~wr_state.aborted
  BY DEF AllWritten, Enough
<1>2. /\ file \in Files /\ wr_state.writtenMask = Blocks(file)
      /\ wr_state.writtenMask # {} /\ cache = NoPage
  BY <1>1, EnoughIsAll DEF NothingLeft
<1>3. file.family = "boot"
  BY DEF FlagsOfFile
<1>4. ASSUME NEW n \in Places(file)
      PROVE  bootloader'[file.target[n].at] = Block(file, n)
  <2>1. n \in Blocks(file) /\ file.target[n].at \in Boot
    BY <1>2, <1>3, FileFields, TargetFields DEF Places, Stored
  <2>2. Address(file, n) = AppBlocks - BootBlocks + file.target[n].at
    BY <1>3 DEF Address
  <2>3. View(Address(file, n)) = Block(file, n)
    BY <1>2, <2>1 DEF MaskInFlash, Arrived
  <2>4. flash[Address(file, n)] = Block(file, n)
    BY <1>2, <2>3, AddressInApp, ViewOfFlash
  <2> QED BY <2>1, <2>2, <2>4 DEF Received
<1>5. \E n \in Blocks(file) : file.target[n].space = "uicr"
  BY <1>1 DEF FlagsOfFile
<1>6. \A n \in Blocks(file) :
        file.target[n].space = "uicr" => file.target[n].id = "ours"
  BY <1>2, <1>3 DEF FlagsOfFile
<1>7. (\E n \in Blocks(file) : file.target[n].id = "theirs")
        => \E n \in Places(file) : file.target[n].id = "ours"
  BY <1>2, <1>3 DEF FlagsOfFile
<1>8. BootloaderIsWhole'
  BY <1>2, <1>3, <1>4, <1>5, <1>6, <1>7 DEF BootloaderIsWhole
<1>9. \A k \in Boot : AppBlocks - BootBlocks + k \in App
  BY DEF App, Boot
<1> QED BY <1>8, <1>9 DEF Received, TypeOK

LEMMA WriteCompleteIInv ==
  ASSUME IInv, WriteComplete
  PROVE  IInv'
<1>1. CASE /\ UNCHANGED <<flash, bootloader, cache, wr_state, phase, file>>
           /\ settings' \in {settings, "VALID_APP"}
           /\ \/ m_update_status' = "SYS_RESET"
              \/ /\ AllWritten /\ ~wr_state.update_bootloader
                 /\ m_update_status' = "COMPLETE"
  <2>1. \A a : View(a)' = View(a)
    BY <1>1 DEF View
  <2>2. Enough' = Enough
    BY <1>1 DEF Enough
  <2>3. TypeOK'
    BY <1>1 DEF IInv, TypeOK
  <2>4. MaskInFlash'
    BY <1>1, <2>1 DEF IInv, MaskInFlash, Arrived
  <2>5. CacheIsOfFile'
    BY <1>1, <2>1 DEF IInv, CacheIsOfFile
  <2>6. CompleteIsEnough'
    BY <1>1, <2>2 DEF CompleteIsEnough, AllWritten, Enough
  <2>7. NumBlocksOfFile' /\ NothingLeft' /\ FlagsOfFile' /\ BootloaderIsWhole'
    BY <1>1, <2>2 DEF IInv, NumBlocksOfFile, NothingLeft, FlagsOfFile,
                      BootloaderIsWhole
  <2> QED BY <2>3, <2>4, <2>5, <2>6, <2>7 DEF IInv
<1>2. CASE /\ AllWritten /\ wr_state.update_bootloader
           /\ bootloader' = Received /\ ClearRam /\ phase' = "boot"
           /\ UNCHANGED <<flash, settings>>
  <2>1. BootloaderIsWhole' /\ bootloader' \in [Boot -> Contents \cup {Current}]
    BY <1>2, ReceivedIsWhole
  <2>2. flash' \in [App -> Contents] /\ settings' \in {"VALID_APP", "EMPTY", "none"}
    BY <1>2 DEF IInv, TypeOK
  <2> QED BY <1>2, <2>1, <2>2, ClearedNext DEF ClearRam, Cleared
<1> QED BY <1>1, <1>2 DEF WriteComplete

\* A timer that runs out leaves the flash, the cache and the counts alone.
LEMMA TimeoutIInv ==
  ASSUME IInv, Timeout
  PROVE  IInv'
<1> USE DEF Timeout
<1>1. (\A a : View(a)' = View(a)) /\ Enough' = Enough
  BY DEF View, Enough
<1>2. TypeOK' /\ MaskInFlash' /\ CacheIsOfFile'
  BY <1>1 DEF IInv, TypeOK, MaskInFlash, Arrived, CacheIsOfFile
<1>3. CompleteIsEnough'
  BY DEF CompleteIsEnough
<1>4. NumBlocksOfFile' /\ NothingLeft' /\ FlagsOfFile' /\ BootloaderIsWhole'
  BY <1>1 DEF IInv, NumBlocksOfFile, NothingLeft, FlagsOfFile, BootloaderIsWhole
<1> QED BY <1>2, <1>3, <1>4 DEF IInv

LEMMA LeaveDfuIInv == IInv /\ LeaveDfu => IInv'
BY ClearedNext DEF LeaveDfu, ClearRam, IInv, TypeOK, Cleared, BootloaderIsWhole

\* A loss of power leaves some content in every block.
LEMMA PowerFailIInv == IInv /\ PowerFail => IInv'
<1> SUFFICES ASSUME IInv, PowerFail PROVE IInv'
  OBVIOUS
<1>1. flash' \in [App -> Contents]
  <2>1. CASE flash' = flash
    BY <2>1 DEF IInv, TypeOK
  <2>2. CASE \E f \in Files : Copies(f) /\ \E n \in Blocks(f) :
               \E p : \E blocks \in -1 .. PageBlocks - 1 :
                 flash' = Cut(p, FlashAfter(f, n), blocks)
    <3>0. PICK f \in Files : \E n \in Blocks(f) : \E p :
               \E blocks \in -1 .. PageBlocks - 1 :
                 flash' = Cut(p, FlashAfter(f, n), blocks)
      BY <2>2
    <3>a. PICK n \in Blocks(f) : \E p : \E blocks \in -1 .. PageBlocks - 1 :
                 flash' = Cut(p, FlashAfter(f, n), blocks)
      BY <3>0
    <3>b. PICK p : \E blocks \in -1 .. PageBlocks - 1 :
                 flash' = Cut(p, FlashAfter(f, n), blocks)
      BY <3>a
    <3>1. PICK blocks \in -1 .. PageBlocks - 1 :
            flash' = Cut(p, FlashAfter(f, n), blocks)
      BY <3>b
    <3>2. \A a \in App : FlashAfter(f, n)[a] \in Contents
      <4>1. \A a \in App : Flushed[a] \in Contents /\ flash[a] \in Contents
        BY ViewType DEF Flushed, IInv, TypeOK
      <4>2. CASE n \in Places(f) /\ IsLast(f, n)
        BY <4>1, <4>2, BlockType, AddressInApp DEF FlashAfter, Flushed
      <4>3. CASE ~(n \in Places(f) /\ IsLast(f, n))
        BY <4>1, <4>3 DEF FlashAfter
      <4> QED BY <4>2, <4>3
    <3>3. \A a \in App : flash[a] \in Contents
      BY DEF IInv, TypeOK
    <3>4. Garbage \in Contents /\ Erased \in Contents
      BY DEF Contents
    <3> QED BY <3>1, <3>2, <3>3, <3>4 DEF Cut
  <2> QED BY <2>1, <2>2 DEF PowerFail
<1> QED BY <1>1, ClearedNext DEF PowerFail, ClearRam, IInv, TypeOK, Cleared,
                                 BootloaderIsWhole

\* Only the phase changes: neither the flash nor the RAM is touched.
LEMMA PhaseIInv ==
  ASSUME IInv, phase' \in {"boot", "dfu", "app"},
         UNCHANGED <<flash, bootloader, settings, cache, wr_state,
                     m_update_status, file>>
  PROVE  IInv'
<1>1. \A a : View(a)' = View(a)
  BY DEF View
<1>2. Enough' = Enough
  BY DEF Enough
<1>3. TypeOK' /\ MaskInFlash' /\ CacheIsOfFile'
  BY <1>1 DEF IInv, TypeOK, MaskInFlash, Arrived, CacheIsOfFile
<1>4. NumBlocksOfFile' /\ NothingLeft' /\ FlagsOfFile' /\ CompleteIsEnough'
      /\ BootloaderIsWhole'
  BY <1>2 DEF IInv, NumBlocksOfFile, NothingLeft, FlagsOfFile, CompleteIsEnough,
              BootloaderIsWhole
<1> QED BY <1>3, <1>4 DEF IInv

LEMMA NextIInv ==
  ASSUME ManyFiles = FALSE
  PROVE  IInv /\ [Next]_vars => IInv'
<1> SUFFICES ASSUME IInv, [Next]_vars PROVE IInv'
  OBVIOUS
<1>1. ASSUME NEW f \in Files, NEW n \in Blocks(f), WriteBlock(f, n)
      PROVE  IInv'
  BY <1>1, RefusedIInv, AcceptedIInv
<1>2. CASE WriteComplete
  BY <1>2, WriteCompleteIInv
<1>3. CASE LeaveDfu
  BY <1>3, LeaveDfuIInv
<1>4. CASE PowerFail
  BY <1>4, PowerFailIInv
<1>5. CASE \/ \E forced \in BOOLEAN : CheckDfuMode(forced)
           \/ AppResets
  BY <1>5, PhaseIInv DEF CheckDfuMode, AppResets
<1>6. CASE UNCHANGED vars
  BY <1>6, PhaseIInv DEF vars, IInv, TypeOK
<1>7. CASE Timeout
  BY <1>7, TimeoutIInv
<1> QED BY <1>1, <1>2, <1>3, <1>4, <1>5, <1>6, <1>7 DEF Next

LEMMA Invariance ==
  ASSUME ManyFiles = FALSE
  PROVE  Spec => []IInv
BY InitIInv, NextIInv, PTL DEF Spec

-----------------------------------------------------------------------------
(* What follows from the invariant. *)

\* Every variable keeps its type: the counters of wr_state stay within the file,
\* and a page in the cache is a page of the application's space.
THEOREM TypeCorrect ==
  ASSUME ManyFiles = FALSE
  PROVE  Spec => []TypeOK
<1>1. IInv => TypeOK
  BY DEF IInv
<1> QED BY <1>1, Invariance, PTL

\* An application that is reported complete is in flash with every block, in
\* whatever order and however often its sectors were written (write_block and
\* tud_msc_write10_complete_cb).
THEOREM CompleteCorrect ==
  ASSUME ManyFiles = FALSE
  PROVE  Spec => []CompleteIsWhole
<1>1. IInv => CompleteIsWhole
  <2> SUFFICES ASSUME IInv, m_update_status = "COMPLETE"
               PROVE  file.family = "app" /\ Holds(file)
    BY DEF CompleteIsWhole
  <2> USE DEF IInv
  <2>1. Enough /\ ~wr_state.update_bootloader /\ cache = NoPage
    BY DEF CompleteIsEnough, NothingLeft
  <2>2. /\ file \in Files /\ wr_state.writtenMask = Blocks(file)
        /\ wr_state.writtenMask # {}
    BY <2>1, EnoughIsAll
  <2>3. file.family = "app"
    BY <2>1, <2>2 DEF FlagsOfFile
  <2>4. ASSUME NEW n \in Places(file)
        PROVE  flash[Address(file, n)] = Block(file, n)
    <3>1. View(Address(file, n)) = Block(file, n)
      BY <2>2, FileFields DEF MaskInFlash, Arrived
    <3> QED BY <2>1, <2>2, <3>1, AddressInApp, ViewOfFlash
  <2> QED BY <2>3, <2>4 DEF Holds
<1> QED BY <1>1, Invariance, PTL

\* The bootloader that runs is the one the device came with or a whole file with
\* its address and its board checked (the COPY_BL of
\* tud_msc_write10_complete_cb).
THEOREM BootloaderCorrect ==
  ASSUME ManyFiles = FALSE
  PROVE  Spec => []BootloaderIsWhole
<1>1. IInv => BootloaderIsWhole
  BY DEF IInv
<1> QED BY <1>1, Invariance, PTL

\* While a file is copied only its own blocks change in flash, though pages are
\* erased and written as a whole (flash_nrf5x_flush and flash_nrf5x_write).
THEOREM NeighboursCorrect ==
  ASSUME ManyFiles = FALSE
  PROVE  Spec => NeighboursKept
<1> DEFINE OwnOnly == phase' = "dfu" =>
             \A a \in App : flash'[a] # flash[a] =>
               \E n \in Places(file') : Address(file', n) = a
<1>1. IInv /\ [Next]_vars => [OwnOnly]_vars
  <2> SUFFICES ASSUME IInv, Next, phase' = "dfu", NEW a \in App,
                      flash'[a] # flash[a]
               PROVE  \E n \in Places(file') : Address(file', n) = a
    OBVIOUS
  <2>0. PICK f \in Files : \E n \in Blocks(f) : WriteBlock(f, n)
    BY DEF Next, WriteComplete, CheckDfuMode, Timeout, LeaveDfu, AppResets,
           PowerFail
  <2>1. PICK n \in Blocks(f) : WriteBlock(f, n)
    BY <2>0
  <2>2. file' = f /\ flash' = FlashAfter(f, n) /\ Copies(f)
    BY <2>1 DEF WriteBlock
  <2>3. CASE n \in Places(f) /\ a = Address(f, n)
    BY <2>2, <2>3
  <2>4. CASE ~(n \in Places(f) /\ a = Address(f, n))
    <3>1. View(a) # flash[a]
      BY <2>2, <2>4, WriteFlash
    <3>2. \E k \in Places(file) : Address(file, k) = a
      BY <3>1 DEF IInv, CacheIsOfFile
    <3>3. file = f
      BY <2>2, <3>2, SameFile DEF IInv
    <3> QED BY <2>2, <3>2, <3>3
  <2> QED BY <2>3, <2>4
<1>2. Spec => [][OwnOnly]_vars
  BY <1>1, Invariance, PTL DEF Spec
<1> QED BY <1>2 DEF NeighboursKept
=============================================================================
