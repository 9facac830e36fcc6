--------------------------- MODULE DfuBank_proof ---------------------------
(***************************************************************************)
(* DfuBank for every set of images, bank size, queue size and word width:  *)
(* its type invariant; that the settings in flash never say more than the  *)
(* bank holds; and that every store finds its page erased, what is queued  *)
(* stays what it was and a session that ends complete has its settings in  *)
(* flash.  Hosts announce one image in a session.                          *)
(***************************************************************************)
EXTENDS DfuBank, SequenceTheorems, TLAPS

USE DfuBankAssumption DEF DfuBankAssumption

-----------------------------------------------------------------------------
(* Sizes and records. *)

\* The sizes of an image are numbers, and a start packet's are sizes a settings
\* record can have.
LEMMA ImageFields ==
  ASSUME NEW i \in Images \cup {NoImage}
  PROVE  /\ i.sd \in Nat /\ i.bl \in Nat /\ i.app \in Nat /\ Size(i) \in Nat
         /\ i.sd \in ImageSizes /\ i.bl \in ImageSizes
         /\ i \in Images => Size(i) > 0 /\ i.kind \in Kinds
BY DEF NoImage, Size, ImageSizes

\* What the code reads from the settings page is a record.
LEMMA SettingsAreRecord ==
  ASSUME flash[Settings] \in SettingsContent
  PROVE  SettingsInFlash \in Record
<1>0. Fifo!Garbage # Fifo!Erased
  BY DEF Fifo!Garbage, Fifo!Erased
<1>1. CASE flash[Settings] = Fifo!Erased
  <2>1. SettingsInFlash = [bank_0 |-> "EMPTY", bank_1 |-> "EMPTY",
                           sd |-> 0, bl |-> 0]
    BY <1>0, <1>1 DEF SettingsInFlash
  <2> QED
    BY <2>1 DEF Record, Codes, ImageSizes
<1>2. CASE flash[Settings] = Fifo!Garbage
  <2>1. SettingsInFlash = NoRecord
    BY <1>0, <1>2 DEF SettingsInFlash
  <2> QED
    BY <2>1 DEF Record, NoRecord, Codes, ImageSizes
<1>3. ASSUME NEW r \in Record, flash[Settings] = Saved(r)
      PROVE  SettingsInFlash \in Record
  <2>1. flash[Settings] # Fifo!Erased /\ flash[Settings] # Fifo!Garbage
    BY <1>3 DEF Saved, Fifo!Stored, Fifo!Erased, Fifo!Garbage
  <2>2. flash[Settings][2][2] = r
    BY <1>3 DEF Saved, Fifo!Stored
  <2> QED
    BY <2>1, <2>2, <1>3 DEF SettingsInFlash
<1> QED
  BY <1>1, <1>2, <1>3 DEF SettingsContent

\* Every new content of the settings buffer is a record.
LEMMA RecordsToSave ==
  ASSUME TypeOK
  PROVE  /\ AppComplete \in Record /\ SdComplete \in Record
         /\ BootComplete \in Record /\ SdSwapped \in Record
         /\ Bank0Erased \in Record
         /\ m_activate # "none" => Activated \in Record
<1>1. SettingsInFlash \in Record /\ settings \in Record
  BY SettingsAreRecord DEF TypeOK, FlashType, BootType
<1>2. m_start_packet.sd \in ImageSizes /\ m_start_packet.bl \in ImageSizes
      /\ 0 \in ImageSizes
  BY ImageFields DEF TypeOK, SessionType, ImageSizes
<1>3. /\ AppComplete \in Record /\ SdComplete \in Record
      /\ BootComplete \in Record /\ SdSwapped \in Record
      /\ Bank0Erased \in Record
  BY <1>1, <1>2 DEF AppComplete, SdComplete, BootComplete, SdSwapped,
                    Bank0Erased, Record, Codes
<1> QED
  BY <1>3 DEF Activated, TypeOK, SessionType

-----------------------------------------------------------------------------
(* The flash and its queue. *)

LEMMA ClearAndStore ==
  /\ \A n \in 1 .. BankSize : Clear(0, n) \in Command
  /\ \A p \in Bank \cup {Below}, v \in BankContent : Store(p, v) \in Command
  /\ Clear(Settings, 1) \in Command
  /\ \A r \in Record : Store(Settings, Saved(r)) \in Command
BY DEF Clear, Store, Command

\* Saving the settings leaves the queue a queue of commands.
LEMMA SavedQueue ==
  ASSUME NEW queue \in Seq(Command), NEW rec \in Record
  PROVE  SettingsSave(queue, rec) \in Seq(Command)
<1> DEFINE new == Store(Settings, Saved(rec))
           renewed == [n \in DOMAIN queue |->
                         IF StoresSettings(queue[n]) THEN new ELSE queue[n]]
<1>1. new \in Command /\ Clear(Settings, 1) \in Command
  BY ClearAndStore
<1>2. renewed \in Seq(Command)
  <2>1. DOMAIN queue = 1 .. Len(queue) /\ Len(queue) \in Nat
    OBVIOUS
  <2>2. \A n \in 1 .. Len(queue) : queue[n] \in Command
    OBVIOUS
  <2>3. renewed \in [1 .. Len(queue) -> Command]
    BY <1>1, <2>1, <2>2, Zenon
  <2> HIDE DEF renewed
  <2> QED
    BY <2>1, <2>3
<1>3. <<Clear(Settings, 1), new>> \in Seq(Command)
  BY <1>1
<1> QED
  BY <1>2, <1>3, ConcatProperties, Zenon DEF SettingsSave

\* Programming a page leaves it with the new content or with garbage.
LEMMA ProgrammedContent ==
  ASSUME NEW old, NEW new
  PROVE  Fifo!Programmed(old, new) \in {new, Fifo!Garbage}
BY DEF Fifo!Programmed

\* The page that a command works on, and what it puts there.
LEMMA PageOfCommand ==
  ASSUME NEW c \in Command, NEW n \in Nat, n < c.rounds
  PROVE  /\ c.addr + n \in Bank \cup {Settings, Below}
         /\ c.rounds \in 1 .. BankSize
         /\ c.data \in BankContent \cup SettingsContent
         /\ c.addr + n = Settings => c.data \in SettingsContent
BY DEF Command, Bank, Settings, Below, BankContent, SettingsContent

LEMMA ProgramType ==
  ASSUME FlashType, Program
  PROVE  FlashType'
<1> DEFINE c == Head(pending)
           page == c.addr + progress
<1>1. /\ pending # <<>> /\ progress < c.rounds
      /\ flash' = [flash EXCEPT ![page] = Fifo!Programmed(flash[page], c.data)]
      /\ progress' = progress + 1 /\ pending' = pending /\ cache' = cache
  BY DEF Program, Fifo!Program
<1>2. c \in Command /\ progress \in Nat
  BY <1>1 DEF FlashType
<1>3. /\ page \in Bank \cup {Settings, Below} /\ c.rounds \in 1 .. BankSize
      /\ c.data \in BankContent \cup SettingsContent
      /\ page = Settings => c.data \in SettingsContent
  BY <1>1, <1>2, PageOfCommand
<1>4. Fifo!Programmed(flash[page], c.data) \in {c.data, Fifo!Garbage}
  BY ProgrammedContent
<1>5. Fifo!Garbage \in BankContent /\ Fifo!Garbage \in SettingsContent
  BY DEF BankContent, SettingsContent
<1> HIDE DEF c, page
<1>6. /\ flash' \in [Bank \cup {Settings, Below} -> BankContent \cup SettingsContent]
      /\ flash'[Settings] \in SettingsContent
  BY <1>1, <1>3, <1>4, <1>5, Zenon DEF FlashType
<1>7. progress' \in 0 .. BankSize
  BY <1>1, <1>3 DEF FlashType
<1> QED
  BY <1>1, <1>6, <1>7 DEF FlashType

-----------------------------------------------------------------------------
(* The packet handlers. *)

LEMMA StartPacketType ==
  ASSUME TypeOK, NEW i \in HostImages, m_dfu_state = "IDLE", StartPacket(i)
  PROVE  FlashType' /\ SessionType' /\ ClockType'
<1>1. i \in Images /\ Size(i) \in Nat /\ Size(i) > 0
  BY ImageFields
<1>2. FlashType'
  <2>1. CASE StartFails(i)
    BY <2>1 DEF StartPacket, TypeOK, FlashType
  <2>2. CASE ~StartFails(i)
    <3>1. Prepare(i) \in Command
      BY <1>1, <2>2, ClearAndStore DEF StartFails, TooLarge, Prepare
    <3>2. pending' = Append(pending, Prepare(i)) /\ pending \in Seq(Command)
      BY <2>2 DEF StartPacket, TypeOK, FlashType
    <3>3. pending' \in Seq(Command)
      BY <3>1, <3>2, AppendProperties, Zenon
    <3> QED
      BY <3>3 DEF StartPacket, TypeOK, FlashType
  <2> QED
    BY <2>1, <2>2
<1>3. SessionType'
  <2>1. m_activate' \in {"none", "app", "sd", "bl"}
    BY DEF StartPacket, TypeOK, SessionType
  <2>2. ~StartFails(i) => m_activate' # "none" /\ m_image_size' <= Word * BankSize
    BY <1>1 DEF StartPacket, StartFails, TooLarge, Word
  <2>3. m_image_size' \in Nat
    BY <1>1 DEF StartPacket, Word, TypeOK, SessionType
  <2>4. m_dfu_state' = IF StartFails(i) THEN "IDLE" ELSE "PREPARING"
    BY DEF StartPacket
  <2> QED
    BY <1>1, <2>1, <2>2, <2>3, <2>4 DEF StartPacket, TypeOK, SessionType
<1>4. ClockType'
  BY DEF StartPacket, RestartTimer, clockVars, TypeOK, ClockType
<1> QED
  BY <1>2, <1>3, <1>4

LEMMA InitPacketType ==
  ASSUME TypeOK, NEW i \in HostImages, InitPacket(i)
  PROVE  FlashType' /\ SessionType' /\ ClockType'
<1>1. FlashType'
  BY DEF InitPacket, flashVars, TypeOK, FlashType
<1>2. SessionType'
  BY DEF InitPacket, TypeOK, SessionType
<1>3. ClockType'
  BY DEF InitPacket, RestartTimer, clockVars, TypeOK, ClockType
<1> QED
  BY <1>1, <1>2, <1>3

LEMMA InitCompleteType ==
  ASSUME TypeOK, NEW verdict \in BOOLEAN, InitComplete(verdict)
  PROVE  FlashType' /\ SessionType' /\ ClockType'
<1>1. FlashType' /\ ClockType'
  BY DEF InitComplete, flashVars, clockVars, TypeOK, FlashType, ClockType
<1>2. SessionType'
  BY DEF InitComplete, TypeOK, SessionType
<1> QED
  BY <1>1, <1>2

\* An accepted packet stays within the bank: the pages it touches and the sum.
LEMMA AcceptedPacket ==
  ASSUME SessionType, m_dfu_state = "RX_DATA_PKT", ~(Received(Word) > m_image_size)
  PROVE  /\ Received(Word) \in 0 .. Word * BankSize
         /\ m_data_received % Word = 0 => m_data_received \div Word \in Bank
         /\ m_data_received % Word # 0 /\ m_data_received # Top =>
              /\ m_data_received \div Word \in Bank
              /\ m_data_received \div Word + 1 \in Bank
<1>1. /\ m_data_received \in 0 .. 4 * BankSize \cup {Modulus - 1}
      /\ m_image_size \in Nat /\ m_image_size <= 4 * BankSize
      /\ Modulus > 4 * (BankSize + 2) /\ Modulus % 4 = 0 /\ BankSize \in Nat
      /\ BankSize > 0 /\ Modulus \in Nat
  BY DEF SessionType, Word, Top
<1>2. Received(Word) = IF m_data_received = Modulus - 1 THEN 3
                       ELSE m_data_received + 4
  BY <1>1 DEF Received, Word, Top
<1>3. m_data_received # Modulus - 1 => m_data_received + 4 <= 4 * BankSize
  BY <1>1, <1>2 DEF Word
<1>4. (Modulus - 1) % 4 # 0
  BY <1>1
<1> QED
  BY <1>1, <1>2, <1>3, <1>4 DEF Word, Top, Bank

LEMMA DataPacketType ==
  ASSUME TypeOK, NEW i \in HostImages, DataPacket(i)
  PROVE  FlashType' /\ SessionType' /\ ClockType'
<1> DEFINE accepted == /\ m_dfu_state = "RX_DATA_PKT"
                       /\ ~(Received(Word) > m_image_size) /\ ~m_dfu_timed_out
<1>1. CASE ~accepted
  <2>1. /\ UNCHANGED <<pending, progress, flash, cache, m_dfu_state,
                       m_start_packet, m_activate, m_image_size, m_init_packet,
                       clockVars>>
        /\ m_data_received' \in {m_data_received, Top}
    BY <1>1 DEF DataPacket
  <2> QED
    BY <2>1 DEF clockVars, TypeOK, FlashType, SessionType, ClockType
<1>2. CASE accepted
  <2>1. /\ UNCHANGED <<progress, flash, m_dfu_state, m_start_packet, m_activate,
                       m_image_size, m_init_packet>>
        /\ RestartTimer
        /\ OtaWrite(i) \/ SerialWrite(i)
    BY <1>2 DEF DataPacket
  <2>2. /\ Received(Word) \in 0 .. Word * BankSize
        /\ m_data_received % Word = 0 => m_data_received \div Word \in Bank
        /\ m_data_received % Word # 0 /\ m_data_received # Top =>
             /\ m_data_received \div Word \in Bank
             /\ m_data_received \div Word + 1 \in Bank
    BY <1>2, AcceptedPacket DEF TypeOK
  <2>3. m_data_received' \in {m_data_received, Received(Word)}
    BY <2>1 DEF OtaWrite, SerialWrite
  <2>4. SessionType'
    BY <2>1, <2>2, <2>3 DEF TypeOK, SessionType
  <2>5. ClockType'
    BY <2>1 DEF RestartTimer, TypeOK, ClockType
  <2>6. CASE OtaWrite(i)
    <3>1. CASE m_data_received % Word = 0
      <4> DEFINE k == m_data_received \div Word
                 c == Store(k, Fifo!Stored(Chunk(i, k)))
      <4>1. c \in Command
        BY <2>2, <3>1, ClearAndStore DEF BankContent
      <4>2. pending' = Append(pending, c) /\ cache' = cache
        BY <2>6, <3>1 DEF OtaWrite
      <4> HIDE DEF c
      <4> QED
        BY <2>1, <2>4, <2>5, <4>1, <4>2, AppendProperties DEF TypeOK, FlashType
    <3>2. CASE m_data_received % Word # 0
      BY <2>1, <2>4, <2>5, <2>6, <3>2 DEF OtaWrite, TypeOK, FlashType
    <3> QED
      BY <3>1, <3>2
  <2>7. CASE SerialWrite(i)
    <3>1. \A c \in [page : Bank, value : BankContent] \cup {NoCache} :
            Flush(c) \in Seq(Command)
      BY ClearAndStore DEF Flush
    <3>2. cache \in [page : Bank, value : BankContent] \cup {NoCache}
      BY DEF TypeOK, FlashType
    <3>3. CASE m_data_received % Word = 0
      <4> DEFINE k == m_data_received \div Word
                 written == [page |-> k, value |-> Fifo!Stored(Chunk(i, k))]
      <4>1. written \in [page : Bank, value : BankContent]
        BY <2>2, <3>3 DEF BankContent
      <4>2. /\ pending' \in {Flush(cache) \o Flush(written), Flush(cache) \o <<>>}
            /\ cache' \in {NoCache, written}
        BY <2>7, <3>3 DEF SerialWrite
      <4> HIDE DEF written
      <4>3. Flush(cache) \in Seq(Command) /\ Flush(written) \in Seq(Command)
        BY <3>1, <3>2, <4>1
      <4>4. pending' \in Seq(Command)
        <5>1. <<>> \in Seq(Command)
          OBVIOUS
        <5>2. Flush(cache) \o Flush(written) \in Seq(Command)
          BY <4>3, ConcatProperties
        <5>3. Flush(cache) \o <<>> \in Seq(Command)
          BY <4>3, <5>1, ConcatProperties
        <5> QED
          BY <4>2, <5>2, <5>3, Zenon
      <4> QED
        BY <2>1, <2>4, <2>5, <4>1, <4>2, <4>4 DEF TypeOK, FlashType
    <3>4. CASE m_data_received % Word # 0
      <4> DEFINE first == IF m_data_received = Top THEN Below
                          ELSE m_data_received \div Word
                 second == IF m_data_received = Top THEN 0 ELSE first + 1
      <4>1. first \in Bank \cup {Below} /\ second \in Bank
        BY <2>2, <3>4 DEF Bank
      <4>2. /\ pending' \in {Flush(cache) \o <<Store(first, Fifo!Garbage)>>,
                              <<>> \o <<Store(first, Fifo!Garbage)>>}
            /\ cache' = [page |-> second, value |-> Fifo!Garbage]
        BY <2>7, <3>4 DEF SerialWrite
      <4> HIDE DEF first, second
      <4>3. Fifo!Garbage \in BankContent
        BY DEF BankContent
      <4>4. <<Store(first, Fifo!Garbage)>> \in Seq(Command)
        BY <4>1, <4>3, ClearAndStore
      <4>5. Flush(cache) \in Seq(Command)
        BY <3>1, <3>2
      <4>6. pending' \in Seq(Command)
        <5>1. <<>> \in Seq(Command)
          OBVIOUS
        <5>2. Flush(cache) \o <<Store(first, Fifo!Garbage)>> \in Seq(Command)
          BY <4>4, <4>5, ConcatProperties
        <5>3. <<>> \o <<Store(first, Fifo!Garbage)>> \in Seq(Command)
          BY <4>4, <5>1, ConcatProperties
        <5> QED
          BY <4>2, <5>2, <5>3, Zenon
      <4> QED
        BY <2>1, <2>4, <2>5, <4>1, <4>2, <4>3, <4>6 DEF TypeOK, FlashType
    <3> QED
      BY <3>3, <3>4
  <2> QED
    BY <2>1, <2>6, <2>7
<1> QED
  BY <1>1, <1>2

LEMMA ImageValidateType ==
  ASSUME TypeOK, ImageValidate
  PROVE  FlashType' /\ SessionType' /\ ClockType'
<1>1. FlashType'
  BY DEF ImageValidate, flashVars, TypeOK, FlashType
<1>2. SessionType'
  BY DEF ImageValidate, Validated, TypeOK, SessionType
<1>3. ClockType'
  BY DEF ImageValidate, RestartTimer, clockVars, TypeOK, ClockType
<1> QED
  BY <1>1, <1>2, <1>3

LEMMA ImageActivateType ==
  ASSUME TypeOK, m_activate # "none", ImageActivate
  PROVE  FlashType' /\ ClockType' /\ BootType'
<1>1. Activated \in Record
  BY RecordsToSave
<1>2. SettingsSave(pending, Activated) \in Seq(Command)
  BY <1>1, SavedQueue DEF TypeOK, FlashType
<1>3. FlashType'
  BY <1>2 DEF ImageActivate, TypeOK, FlashType
<1>4. ClockType'
  BY DEF ImageActivate, TypeOK, ClockType
<1>5. BootType'
  BY <1>1 DEF ImageActivate, TypeOK, BootType
<1> QED
  BY <1>3, <1>4, <1>5

-----------------------------------------------------------------------------
(* Resets and completed commands. *)

\* RAM as it is at power-up has the types it should have.
LEMMA ClearRamType ==
  ASSUME TypeOK, ClearRam
  PROVE  /\ SessionType' /\ ClockType' /\ BootType'
         /\ ota' = FALSE /\ link' = "down" /\ was_connected' = FALSE
         /\ pending' \in Seq(Command) /\ progress' = 0 /\ cache' = NoCache
<1>1. /\ m_dfu_state' = "off" /\ m_start_packet' = NoImage
      /\ m_activate' = "none" /\ m_image_size' = 0 /\ m_data_received' = 0
      /\ m_init_packet' = NoImage
  BY DEF ClearRam
<1>2. 0 \in 0 .. Word * BankSize
  BY DEF Word
<1>3. SessionType'
  BY <1>1, <1>2 DEF SessionType
<1>4. pending' = <<>> /\ progress' = 0 /\ cache' = NoCache
  BY DEF ClearRam
<1>5. pending' \in Seq(Command)
  BY <1>4
<1>6. ClockType' /\ BootType'
  BY DEF ClearRam, ClockType, BootType, NoRecord, Record, Codes, ImageSizes
<1> QED
  BY <1>3, <1>4, <1>5, <1>6 DEF ClearRam

\* The flash is not touched and the queue is emptied.
LEMMA FlashKept ==
  ASSUME FlashType, UNCHANGED flash, pending' \in Seq(Command), progress' = 0,
         cache' = NoCache
  PROVE  FlashType'
<1>1. /\ flash' \in [Bank \cup {Settings, Below} -> BankContent \cup SettingsContent]
      /\ flash'[Settings] \in SettingsContent
  BY Zenon DEF FlashType
<1> QED
  BY <1>1 DEF FlashType

LEMMA SystemResetType ==
  ASSUME TypeOK, NEW magic \in {"ota", "serial", "none"}, SystemReset(magic)
  PROVE  TypeOK'
<1>1. ClearRam /\ UNCHANGED flash /\ phase' = "boot" /\ gpregret' = magic
  BY DEF SystemReset
<1>2. FlashType'
  BY <1>1, ClearRamType, FlashKept DEF TypeOK
<1> QED
  BY <1>1, <1>2, ClearRamType DEF TypeOK, MainType

LEMMA PowerFailType ==
  ASSUME TypeOK, PowerFail
  PROVE  TypeOK'
<1>1. /\ ClearRam /\ phase' = "boot" /\ gpregret' = "none"
      /\ \/ UNCHANGED flash
         \/ /\ pending # <<>> /\ progress < Head(pending).rounds
            /\ flash' = [flash EXCEPT ![Head(pending).addr + progress] =
                                        Fifo!Garbage]
  BY DEF PowerFail
<1>2. /\ flash' \in [Bank \cup {Settings, Below} -> BankContent \cup SettingsContent]
      /\ flash'[Settings] \in SettingsContent
  <2>1. Fifo!Garbage \in BankContent /\ Fifo!Garbage \in SettingsContent
    BY DEF BankContent, SettingsContent
  <2> QED
    BY <1>1, <2>1, Zenon DEF TypeOK, FlashType
<1>3. FlashType'
  BY <1>1, <1>2, ClearRamType DEF FlashType
<1>4. MainType'
  BY <1>1, ClearRamType DEF MainType
<1> QED
  BY <1>1, <1>3, <1>4, ClearRamType DEF TypeOK

LEMMA CommandFinishedType ==
  ASSUME TypeOK, CommandFinished
  PROVE  TypeOK'
<1>1. /\ pending # <<>> /\ progress' = 0
      /\ flash' = flash /\ cache' = cache
      /\ UNCHANGED clockVars /\ UNCHANGED mainVars
  BY DEF CommandFinished
<1>2. Tail(pending) \in Seq(Command)
  BY <1>1, HeadTailProperties DEF TypeOK, FlashType
<1>3. \/ BankCleared /\ m_dfu_state = "PREPARING"
      \/ SettingsSaved
      \/ pending' = Tail(pending) /\ UNCHANGED <<sessionVars, bootVars>>
  BY DEF CommandFinished
<1>4. CASE BankCleared /\ m_dfu_state = "PREPARING"
  <2>1. Bank0Erased \in Record
    BY RecordsToSave
  <2>2. pending' \in Seq(Command)
    BY <1>2, <1>4, <2>1, SavedQueue DEF BankCleared
  <2>3. FlashType'
    BY <1>1, <2>2 DEF TypeOK, FlashType
  <2>4. SessionType'
    BY <1>4 DEF BankCleared, TypeOK, SessionType
  <2>5. BootType'
    BY <1>4, <2>1 DEF BankCleared, TypeOK, BootType
  <2> QED
    BY <1>1, <2>3, <2>4, <2>5 DEF clockVars, mainVars, TypeOK, ClockType, MainType
<1>5. CASE SettingsSaved
  <2>1. FlashType'
    BY <1>1, <1>2, <1>5 DEF SettingsSaved, TypeOK, FlashType
  <2>2. SessionType' /\ BootType'
    BY <1>5 DEF SettingsSaved, sessionVars, TypeOK, SessionType, BootType, Final
  <2> QED
    BY <1>1, <2>1, <2>2 DEF clockVars, mainVars, TypeOK, ClockType, MainType
<1>6. CASE pending' = Tail(pending) /\ UNCHANGED <<sessionVars, bootVars>>
  <2>1. FlashType'
    BY <1>1, <1>2, <1>6 DEF TypeOK, FlashType
  <2>2. SessionType' /\ BootType'
    BY <1>6 DEF sessionVars, bootVars, TypeOK, SessionType, BootType
  <2> QED
    BY <1>1, <2>1, <2>2 DEF clockVars, mainVars, TypeOK, ClockType, MainType
<1> QED
  BY <1>3, <1>4, <1>5, <1>6

-----------------------------------------------------------------------------
(* Initial states. *)

LEMMA InitTypeOK == Init => TypeOK
<1> SUFFICES ASSUME Init PROVE TypeOK
  OBVIOUS
<1>1. ASSUME NEW i \in Images \cup {NoImage}, NEW s \in SettingsContent
      PROVE  /\ Delivered(i, s) \in [Bank \cup {Settings, Below} ->
                                     BankContent \cup SettingsContent]
             /\ Delivered(i, s)[Settings] = s
  <2>1. ASSUME NEW p \in Bank \cup {Settings, Below}
        PROVE  Delivered(i, s)[p] \in BankContent \cup SettingsContent
    <3>1. CASE p = Settings
      <4>1. Delivered(i, s)[p] = s
        BY <3>1 DEF Delivered, Bank, Settings
      <4>2. s \in BankContent \cup SettingsContent
        OBVIOUS
      <4> QED
        BY <4>1, <4>2, Zenon
    <3>2. CASE p \in Bank /\ p < Size(i) /\ p # Settings
      <4>1. i \in Images /\ p \in Bank
        BY <3>2 DEF Bank, Size, NoImage
      <4>2. Delivered(i, s)[p] = Fifo!Stored(Chunk(i, p))
        BY <3>2 DEF Delivered
      <4>3. Fifo!Stored(Chunk(i, p)) \in BankContent
        BY <4>1 DEF BankContent
      <4> QED
        BY <4>2, <4>3, Zenon
    <3>3. CASE ~(p \in Bank /\ p < Size(i)) /\ p # Settings
      BY <3>3 DEF Delivered, BankContent
    <3> QED
      BY <3>1, <3>2, <3>3
  <2>2. Delivered(i, s) = [p \in Bank \cup {Settings, Below} |-> Delivered(i, s)[p]]
    BY DEF Delivered
  <2>3. Settings \notin Bank
    BY DEF Settings, Bank
  <2>4. Delivered(i, s)[Settings] = s
    BY <2>3 DEF Delivered
  <2> QED
    BY <2>1, <2>2, <2>4, Zenon
<1>2. /\ Fifo!Erased \in SettingsContent
      /\ Saved([NoRecord EXCEPT !.bank_0 = "VALID_APP", !.bank_1 = "INVALID_APP"])
           \in SettingsContent
  BY DEF SettingsContent, NoRecord, Record, Codes, ImageSizes
<1>3. \E i \in Images \cup {NoImage}, s \in SettingsContent :
        flash = Delivered(i, s)
  BY <1>2 DEF Init
<1>4. pending = <<>> /\ pending \in Seq(Command)
  BY DEF Init
<1>5. /\ flash \in [Bank \cup {Settings, Below} -> BankContent \cup SettingsContent]
      /\ flash[Settings] \in SettingsContent
  BY <1>1, <1>3, ZenonT(30)
<1>6. FlashType
  BY <1>4, <1>5 DEF Init, FlashType
<1>7. 0 \in 0 .. Word * BankSize
  BY DEF Word
<1>8. /\ m_dfu_state = "off" /\ m_start_packet = NoImage
      /\ m_activate = "none" /\ m_image_size = 0 /\ m_data_received = 0
      /\ m_init_packet = NoImage
  BY DEF Init, SessionInit
<1>9. SessionType
  BY <1>7, <1>8 DEF SessionType
<1>10. ClockType /\ BootType /\ MainType
  BY DEF Init, SessionInit, ClockType, BootType, MainType, NoRecord, Record,
         Codes, ImageSizes
<1> QED
  BY <1>6, <1>9, <1>10 DEF TypeOK

-----------------------------------------------------------------------------
(* Every step. *)

LEMMA BootStepType ==
  ASSUME TypeOK, NEW forced \in BOOLEAN,
         ContinueSdUpdate \/ NoSdUpdate \/ CheckDfuMode(forced)
  PROVE  TypeOK'
<1>1. CASE ContinueSdUpdate
  <2>1. SdSwapped \in Record
    BY RecordsToSave
  <2>2. pending' \in Seq(Command)
    BY <1>1, <2>1, SavedQueue DEF ContinueSdUpdate, TypeOK, FlashType
  <2>3. FlashType'
    BY <1>1, <2>2 DEF ContinueSdUpdate, TypeOK, FlashType
  <2>4. SessionType' /\ ClockType'
    BY <1>1 DEF ContinueSdUpdate, sessionVars, clockVars, TypeOK, SessionType,
                ClockType
  <2>5. BootType' /\ MainType'
    BY <1>1, <2>1 DEF ContinueSdUpdate, TypeOK, BootType, MainType
  <2> QED
    BY <2>3, <2>4, <2>5 DEF TypeOK
<1>2. CASE NoSdUpdate
  <2>1. FlashType' /\ SessionType' /\ ClockType' /\ BootType'
    BY <1>2 DEF NoSdUpdate, flashVars, sessionVars, clockVars, bootVars, TypeOK,
                FlashType, SessionType, ClockType, BootType
  <2>2. MainType'
    BY <1>2 DEF NoSdUpdate, TypeOK, MainType
  <2> QED
    BY <2>1, <2>2 DEF TypeOK
<1>3. CASE CheckDfuMode(forced)
  <2>1. FlashType' /\ BootType'
    BY <1>3 DEF CheckDfuMode, flashVars, bootVars, TypeOK, FlashType, BootType
  <2>2. SessionType'
    BY <1>3 DEF CheckDfuMode, TypeOK, SessionType
  <2>3. ClockType' /\ MainType'
    BY <1>3 DEF CheckDfuMode, TypeOK, ClockType, MainType
  <2> QED
    BY <2>1, <2>2, <2>3 DEF TypeOK
<1> QED
  BY <1>1, <1>2, <1>3

\* A handler that leaves main and the settings alone.
LEMMA HandlerType ==
  ASSUME TypeOK, UNCHANGED <<bootVars, mainVars>>,
         FlashType', SessionType', ClockType'
  PROVE  TypeOK'
BY DEF bootVars, mainVars, TypeOK, BootType, MainType

\* Only an announced image is activated.
LEMMA AnnouncedIfValid ==
  ASSUME SessionType, Validated = "WAIT_4_ACTIVATE"
  PROVE  m_activate # "none"
BY DEF SessionType, Validated

LEMMA BlePacketType ==
  ASSUME TypeOK, NEW i \in HostImages, StartsAgain = FALSE,
         BleStart(i) \/ BleInit(i) \/ BleData(i)
  PROVE  TypeOK'
<1>1. CASE BleStart(i)
  BY <1>1, StartPacketType, HandlerType DEF BleStart
<1>2. CASE BleInit(i)
  BY <1>2, InitPacketType, HandlerType DEF BleInit
<1>3. CASE BleData(i)
  BY <1>3, DataPacketType, HandlerType DEF BleData
<1> QED
  BY <1>1, <1>2, <1>3

LEMMA BleRequestType ==
  ASSUME TypeOK, NEW verdict \in BOOLEAN, BleInitComplete(verdict) \/ BleValidate
  PROVE  TypeOK'
<1>1. CASE BleInitComplete(verdict)
  BY <1>1, InitCompleteType, HandlerType DEF BleInitComplete
<1>2. CASE BleValidate
  BY <1>2, ImageValidateType, HandlerType DEF BleValidate
<1> QED
  BY <1>1, <1>2

\* Tearing the link down changes main's variables only.
LEMMA BleCloseType ==
  ASSUME TypeOK, BleClose
  PROVE  MainType'
BY DEF BleClose, BleCloseFails, TypeOK, MainType

LEMMA BleEndType ==
  ASSUME TypeOK, BleActivate \/ BleReset
  PROVE  TypeOK'
<1>1. CASE BleCloseFails
  BY <1>1, SystemResetType DEF BleActivate, BleReset, TypeOK, MainType
<1>2. ASSUME BleClose, DfuReset
      PROVE  TypeOK'
  <2>1. FlashType' /\ SessionType' /\ ClockType'
    BY <1>2 DEF DfuReset, flashVars, sessionVars, clockVars, TypeOK, FlashType,
                SessionType, ClockType
  <2>2. BootType'
    BY <1>2 DEF DfuReset, TypeOK, BootType, Final
  <2> QED
    BY <1>2, <2>1, <2>2, BleCloseType DEF TypeOK
<1>3. ASSUME BleClose, m_dfu_state = "WAIT_4_ACTIVATE", ImageActivate,
             UNCHANGED sessionVars
      PROVE  TypeOK'
  <2>1. m_activate # "none"
    BY <1>3 DEF TypeOK, SessionType
  <2>2. SessionType'
    BY <1>3 DEF sessionVars, TypeOK, SessionType
  <2> QED
    BY <1>3, <2>1, <2>2, ImageActivateType, BleCloseType DEF TypeOK
<1> QED
  BY <1>1, <1>2, <1>3 DEF BleActivate, BleReset

LEMMA SerialPacketType ==
  ASSUME TypeOK, NEW i \in HostImages, NEW verdict \in BOOLEAN,
         SerialStart(i) \/ SerialInit(i, verdict) \/ SerialData(i)
  PROVE  TypeOK'
<1>0. \A magic \in {gpregret} : SystemReset(magic) => TypeOK'
  BY SystemResetType DEF TypeOK, MainType
<1>1. CASE SerialStart(i)
  <2>1. CASE StartFails(i)
    BY <1>0, <1>1, <2>1 DEF SerialStart
  <2>2. CASE ~StartFails(i)
    BY <1>1, <2>2, StartPacketType, HandlerType DEF SerialStart, StartFails
  <2> QED
    BY <2>1, <2>2
<1>2. CASE SerialInit(i, verdict)
  <2>1. CASE SystemReset(gpregret)
    BY <1>0, <2>1
  <2>2. CASE ~SystemReset(gpregret)
    <3>1. /\ m_dfu_state \in {"RDY", "RX_INIT_PKT"}
          /\ m_dfu_state' = "RX_DATA_PKT" /\ m_init_packet' = i
          /\ RestartTimer
          /\ UNCHANGED <<flashVars, m_start_packet, m_activate, m_image_size,
                         m_data_received, bootVars, mainVars>>
      BY <1>2, <2>2 DEF SerialInit
    <3>2. FlashType'
      BY <3>1 DEF flashVars, TypeOK, FlashType
    <3>3. SessionType'
      BY <3>1 DEF TypeOK, SessionType
    <3>4. ClockType'
      BY <3>1 DEF RestartTimer, TypeOK, ClockType
    <3> QED
      BY <3>1, <3>2, <3>3, <3>4, HandlerType
  <2> QED
    BY <2>1, <2>2
<1>3. CASE SerialData(i)
  BY <1>3, DataPacketType, HandlerType DEF SerialData
<1> QED
  BY <1>1, <1>2, <1>3

LEMMA SerialStopType ==
  ASSUME TypeOK, SerialStop
  PROVE  TypeOK'
<1>1. CASE Validated = "WAIT_4_ACTIVATE"
  <2>1. /\ ImageActivate /\ m_dfu_state' = "WAIT_4_ACTIVATE"
        /\ UNCHANGED <<m_start_packet, m_activate, m_image_size,
                       m_data_received, m_init_packet, mainVars>>
    BY <1>1 DEF SerialStop
  <2>2. m_activate # "none" /\ m_dfu_state \notin {"off", "IDLE"}
    BY <1>1, AnnouncedIfValid DEF Validated, TypeOK
  <2>3. SessionType'
    BY <2>1, <2>2 DEF TypeOK, SessionType
  <2>4. MainType'
    BY <2>1 DEF mainVars, TypeOK, MainType
  <2> QED
    BY <2>1, <2>2, <2>3, <2>4, ImageActivateType DEF TypeOK
<1>2. CASE Validated # "WAIT_4_ACTIVATE"
  BY <1>2, ImageValidateType, HandlerType DEF SerialStop
<1> QED
  BY <1>1, <1>2

LEMMA LinkAndTimerType ==
  ASSUME TypeOK, Connect \/ Disconnect \/ TimerExpires \/ Timeout
  PROVE  TypeOK'
<1>1. CASE Connect \/ Disconnect
  <2>1. UNCHANGED <<flashVars, sessionVars, clockVars, bootVars>>
    BY <1>1 DEF Connect, Disconnect
  <2>2. FlashType' /\ SessionType' /\ ClockType' /\ BootType'
    BY <2>1 DEF flashVars, sessionVars, clockVars, bootVars, TypeOK, FlashType,
                SessionType, ClockType, BootType
  <2>3. MainType'
    BY <1>1 DEF Connect, Disconnect, TypeOK, MainType
  <2> QED
    BY <2>2, <2>3 DEF TypeOK
<1>2. CASE TimerExpires
  <2>1. ClockType'
    BY <1>2 DEF TimerExpires, TypeOK, ClockType
  <2>2. FlashType' /\ SessionType'
    BY <1>2 DEF TimerExpires, flashVars, sessionVars, TypeOK, FlashType,
                SessionType
  <2> QED
    BY <1>2, <2>1, <2>2, HandlerType DEF TimerExpires
<1>3. CASE Timeout
  <2>1. CASE ota /\ BleCloseFails
    BY <1>3, <2>1, SystemResetType DEF Timeout, TypeOK, MainType
  <2>2. CASE ~(ota /\ BleCloseFails)
    <3>1. FlashType' /\ SessionType'
      BY <1>3, <2>2 DEF Timeout, flashVars, sessionVars, TypeOK, FlashType,
                        SessionType
    <3>2. ClockType' /\ BootType'
      BY <1>3, <2>2 DEF Timeout, TypeOK, ClockType, BootType, Final
    <3>3. MainType'
      BY <1>3, <2>2, BleCloseType DEF Timeout, mainVars, TypeOK, MainType
    <3> QED
      BY <3>1, <3>2, <3>3 DEF TypeOK
  <2> QED
    BY <2>1, <2>2
<1> QED
  BY <1>1, <1>2, <1>3

LEMMA ExitType ==
  ASSUME TypeOK, NEW magic \in Modes \cup {"none"},
         LeaveDfu \/ StartApp \/ ResetInstead \/ AppResets(magic)
  PROVE  TypeOK'
<1>1. CASE LeaveDfu
  <2>1. pending' = <<>> /\ pending' \in Seq(Command)
    BY <1>1 DEF LeaveDfu
  <2>2. FlashType'
    BY <1>1, <2>1 DEF LeaveDfu, TypeOK, FlashType
  <2>3. SessionType' /\ ClockType' /\ BootType'
    BY <1>1 DEF LeaveDfu, sessionVars, clockVars, bootVars, TypeOK, SessionType,
                ClockType, BootType
  <2>4. MainType'
    BY <1>1 DEF LeaveDfu, TypeOK, MainType
  <2> QED
    BY <2>2, <2>3, <2>4 DEF TypeOK
<1>2. CASE StartApp
  <2>1. ClearRam /\ UNCHANGED <<flash, gpregret>> /\ phase' = "app"
    BY <1>2 DEF StartApp
  <2>2. FlashType'
    BY <2>1, ClearRamType, FlashKept DEF TypeOK
  <2> QED
    BY <2>1, <2>2, ClearRamType DEF TypeOK, MainType
<1>3. CASE ResetInstead
  BY <1>3, SystemResetType DEF ResetInstead, TypeOK, MainType
<1>4. CASE AppResets(magic)
  BY <1>4, SystemResetType DEF AppResets
<1> QED
  BY <1>1, <1>2, <1>3, <1>4

LEMMA NextTypeOK ==
  ASSUME StartsAgain = FALSE, TypeOK, [Next]_vars
  PROVE  TypeOK'
<1>1. CASE UNCHANGED vars
  BY <1>1 DEF vars, flashVars, sessionVars, clockVars, bootVars, mainVars,
              TypeOK, FlashType, SessionType, ClockType, BootType, MainType
<1>2. CASE Program
  <2>1. FlashType' /\ UNCHANGED <<sessionVars, clockVars, bootVars, mainVars>>
    BY <1>2, ProgramType DEF Program, TypeOK
  <2>2. SessionType' /\ ClockType'
    BY <2>1 DEF sessionVars, clockVars, TypeOK, SessionType, ClockType
  <2> QED
    BY <2>1, <2>2, HandlerType
<1>3. CASE CommandFinished \/ PowerFail
  BY <1>3, CommandFinishedType, PowerFailType
<1>4. ASSUME NEW forced \in BOOLEAN,
             ContinueSdUpdate \/ NoSdUpdate \/ CheckDfuMode(forced)
      PROVE  TypeOK'
  BY <1>4, BootStepType
<1>5. CASE HostPacket
  <2>1. ASSUME NEW i \in HostImages, BleStart(i) \/ BleInit(i) \/ BleData(i)
        PROVE  TypeOK'
    BY <2>1, BlePacketType
  <2>2. ASSUME NEW i \in HostImages, NEW verdict \in BOOLEAN,
               \/ SerialStart(i) \/ SerialData(i) \/ SerialInit(i, verdict)
        PROVE  TypeOK'
    BY <2>2, SerialPacketType
  <2>3. ASSUME NEW verdict \in BOOLEAN, BleInitComplete(verdict)
        PROVE  TypeOK'
    BY <2>3, BleRequestType
  <2>4. CASE BleValidate
    BY <2>4, BleRequestType
  <2>5. CASE BleActivate \/ BleReset
    BY <2>5, BleEndType
  <2>6. CASE SerialStop
    BY <2>6, SerialStopType
  <2> QED
    BY <1>5, <2>1, <2>2, <2>3, <2>4, <2>5, <2>6 DEF HostPacket
<1>6. CASE Connect \/ Disconnect \/ TimerExpires \/ Timeout
  BY <1>6, LinkAndTimerType
<1>7. ASSUME NEW magic \in Modes \cup {"none"},
             LeaveDfu \/ StartApp \/ ResetInstead \/ AppResets(magic)
      PROVE  TypeOK'
  BY <1>7, ExitType
<1> QED
  BY <1>1, <1>2, <1>3, <1>4, <1>5, <1>6, <1>7 DEF Next

\* Every variable keeps its type whatever is sent, lost, torn or overtaken; in
\* particular no packet of a session that announces one image makes
\* m_data_received anything but an offset in the bank or the mark of an overrun.
THEOREM TypeCorrect ==
  ASSUME StartsAgain = FALSE
  PROVE  Spec => []TypeOK
<1>1. TypeOK /\ [Next]_vars => TypeOK'
  BY NextTypeOK
<1> QED
  BY <1>1, InitTypeOK, PTL DEF Spec

-----------------------------------------------------------------------------
(* The settings in flash never say more than the bank holds, at whatever     *)
(* moment the chip is reset.  Why it holds: a bank is erased from its first  *)
(* page on, so that what was there is no application any more before         *)
(* anything else happens to it; then the settings are made harmless, and     *)
(* only behind them in the queue come the packets; and when an image is      *)
(* validated every page of it reads as it should, so that no store that      *)
(* could change it is still queued.                                          *)

\* At a reset the settings promise nothing that is not there.
AtRest == NeverBootsPartial /\ UpdateIsComplete
Quiet  == ~SdInProgress

\* The record that a session saves before its first packet.
Harmless(r)      == r.bank_0 = "INVALID_APP" /\ r.bank_1 # "VALID_BOOT"
HarmlessStore(c) == \E r \in Record : Harmless(r) /\ c = Store(Settings, Saved(r))
BankStore(c)     == c.op = "store" /\ c.addr # Settings

\* The settings are still to be erased or written.
SettingsAhead ==
  /\ pending # <<>>
  /\ \/ pending[1] = Clear(Settings, 1)
     \/ StoresSettings(pending[1]) /\ progress = 0
Settled ==
  /\ SettingsInFlash.bank_0 \notin {"VALID_APP", "EMPTY", "VALID_SD"}
  /\ SettingsInFlash.bank_1 # "VALID_BOOT"

\* The records that the activation of image i may save.
ActivationOf(i) == IF "sd" \in i.kind THEN "sd"
                   ELSE IF "bl" \in i.kind THEN "bl" ELSE "app"
Announces(r, i) ==
  CASE ActivationOf(i) = "app" ->
         r.bank_0 = "VALID_APP" /\ r.bank_1 = "INVALID_APP"
    [] ActivationOf(i) = "sd" ->
         /\ r.bank_0 = "VALID_SD" /\ r.bank_1 = "INVALID_APP"
         /\ r.sd = i.sd /\ r.bl = i.bl
    [] ActivationOf(i) = "bl" ->
         /\ r.bank_0 \notin {"VALID_APP", "VALID_SD"} /\ r.bank_1 = "VALID_BOOT"
         /\ r.sd = i.sd /\ r.bl = i.bl

Receiving == m_dfu_state \in {"RDY", "RX_INIT_PKT", "RX_DATA_PKT", "VALIDATE"}

\* Outside a session nothing is queued, but for the save of the finalization.
PhaseInv ==
  /\ phase \in {"boot", "mode", "app", "finalize"} =>
       m_dfu_state = "off" /\ m_init_packet = NoImage /\ m_data_received = 0
  /\ phase \in {"boot", "mode", "app", "exit"} =>
       pending = <<>> /\ progress = 0 /\ AtRest
  /\ phase = "mode" => Quiet
  /\ phase = "dfu" => m_dfu_state # "off"

\* The bank holds a SoftDevice or a bootloader while its announcement goes.
FinalizeInv ==
  phase = "finalize" =>
    /\ \E i \in Images : Holds(i) /\ "app" \notin i.kind
    /\ UpdateIsComplete /\ SettingsInFlash.bank_0 # "VALID_APP"
    /\ settings.bank_0 \notin {"VALID_APP", "VALID_SD"}
    /\ settings.bank_1 # "VALID_BOOT"
    /\ m_update_status = "COMPLETE" => pending = <<>>
    /\ \/ pending = <<Clear(Settings, 1), Store(Settings, Saved(settings))>>
       \/ /\ pending = <<Store(Settings, Saved(settings))>>
          /\ progress = 1 => Quiet
       \/ pending = <<>> /\ progress = 0 /\ Quiet

\* What is expected and what will be activated is what was announced.
AnnouncedInv ==
  m_dfu_state \notin {"off", "IDLE"} =>
    /\ m_start_packet \in Images /\ Size(m_start_packet) <= BankSize
    /\ ~NotSupported(m_start_packet)
    /\ m_image_size = Word * Size(m_start_packet)
    /\ m_activate = ActivationOf(m_start_packet)
    /\ m_init_packet \in {NoImage, m_start_packet}

IdleInv ==
  phase = "dfu" /\ m_dfu_state = "IDLE" =>
    /\ pending = <<>> /\ progress = 0 /\ AtRest /\ Quiet
    /\ m_init_packet = NoImage /\ m_data_received = 0

\* The bank is being erased from its first page on.
PreparingInv ==
  phase = "dfu" /\ m_dfu_state = "PREPARING" =>
    /\ pending = <<Prepare(m_start_packet)>> /\ AtRest /\ Quiet
    /\ m_init_packet = NoImage /\ m_data_received = 0
    /\ progress <= Size(m_start_packet)
    /\ \A k \in Bank : k < progress => flash[k] = Fifo!Erased

\* The settings are ahead of the packets; until they are harmless the first page
\* is still erased.
ReceivingInv ==
  phase = "dfu" /\ Receiving =>
    /\ m_dfu_state \in {"RDY", "RX_INIT_PKT"} => m_data_received = 0
    /\ m_dfu_state \in {"RX_DATA_PKT", "VALIDATE"} => m_init_packet = m_start_packet
    /\ Quiet
    /\ SettingsAhead => flash[0] = Fifo!Erased
    /\ ~SettingsAhead => Settled
    /\ \A n \in 1 .. Len(pending) :
         \/ BankStore(pending[n])
         \/ n = 1 /\ HarmlessStore(pending[1])
         \/ n = 2 /\ HarmlessStore(pending[2]) /\ pending[1] = Clear(Settings, 1)
         \/ /\ n = 1 /\ pending[1] = Clear(Settings, 1)
            /\ Len(pending) >= 2 /\ HarmlessStore(pending[2])

\* Over the air a page with a store in the queue is erased, and has only that one.
Unprogrammed(n) == ~(n = 1 /\ progress = 1)
StreamInv ==
  phase = "dfu" /\ Receiving /\ ota =>
    /\ \A n \in 1 .. Len(pending) : BankStore(pending[n]) =>
         /\ pending[n].addr \in Bank /\ pending[n].addr < Size(m_start_packet)
         /\ Word * pending[n].addr < m_data_received
         /\ Unprogrammed(n) => flash[pending[n].addr] = Fifo!Erased
    /\ \A m, n \in 1 .. Len(pending) :
         BankStore(pending[m]) /\ BankStore(pending[n]) /\ m # n
           => pending[m].addr # pending[n].addr
    /\ \A k \in Bank : k < Size(m_start_packet) /\ Word * k >= m_data_received
                         => flash[k] = Fifo!Erased

\* The bank holds the image, and nothing that is queued touches it any more.
ImageInPlace ==
  /\ Holds(m_start_packet) /\ m_init_packet = m_start_packet
  /\ \/ Quiet /\ SettingsInFlash.bank_0 # "VALID_APP"
     \/ \E r \in Record :
          flash[Settings] = Saved(r) /\ Announces(r, m_start_packet)
  /\ \A n \in 1 .. Len(pending) :
       \/ n = 1 /\ progress # 0 /\ pending[n].op = "store"
       \/ pending[n] = Clear(Settings, 1)
       \/ \E r \in Record : /\ pending[n] = Store(Settings, Saved(r))
                            /\ Announces(r, m_start_packet)
ValidatedInv ==
  phase = "dfu" /\ m_dfu_state = "WAIT_4_ACTIVATE" => ImageInPlace

IInv == /\ TypeOK /\ PhaseInv /\ FinalizeInv /\ AnnouncedInv /\ IdleInv
        /\ PreparingInv /\ ReceivingInv /\ StreamInv /\ ValidatedInv

-----------------------------------------------------------------------------
(* What the code reads from the flash. *)

LEMMA Kinds2 ==
  /\ Fifo!Erased # Fifo!Garbage
  /\ \A d : Fifo!Stored(d) # Fifo!Erased /\ Fifo!Stored(d) # Fifo!Garbage
  /\ \A d, e : Fifo!Stored(d) = Fifo!Stored(e) => d = e
  /\ \A i, j, k, l : Chunk(i, k) = Chunk(j, l) => i.name = j.name /\ k = l
BY DEF Fifo!Erased, Fifo!Garbage, Fifo!Stored, Chunk

\* The code reads an erased page, a damaged one and a record.
LEMMA Read ==
  /\ flash[Settings] = Fifo!Erased =>
       SettingsInFlash.bank_0 = "EMPTY" /\ SettingsInFlash.bank_1 = "EMPTY"
  /\ flash[Settings] = Fifo!Garbage =>
       SettingsInFlash.bank_0 = "none" /\ SettingsInFlash.bank_1 = "none"
  /\ \A r \in Record : flash[Settings] = Saved(r) => SettingsInFlash = r
<1>1. Fifo!Erased # Fifo!Garbage
  BY Kinds2
<1>2. flash[Settings] = Fifo!Erased =>
       SettingsInFlash.bank_0 = "EMPTY" /\ SettingsInFlash.bank_1 = "EMPTY"
  BY <1>1 DEF SettingsInFlash
<1>3. flash[Settings] = Fifo!Garbage =>
       SettingsInFlash.bank_0 = "none" /\ SettingsInFlash.bank_1 = "none"
  BY <1>1 DEF SettingsInFlash, NoRecord
<1>4. ASSUME NEW r \in Record, flash[Settings] = Saved(r)
      PROVE  SettingsInFlash = r
  <2>1. flash[Settings] # Fifo!Erased /\ flash[Settings] # Fifo!Garbage
    BY <1>4, Kinds2 DEF Saved
  <2>2. flash[Settings][2][2] = r
    BY <1>4 DEF Saved, Fifo!Stored
  <2> QED
    BY <2>1, <2>2 DEF SettingsInFlash
<1> QED
  BY <1>2, <1>3, <1>4

LEMMA ReadNext ==
  /\ flash'[Settings] = Fifo!Erased =>
       SettingsInFlash'.bank_0 = "EMPTY" /\ SettingsInFlash'.bank_1 = "EMPTY"
  /\ flash'[Settings] = Fifo!Garbage =>
       SettingsInFlash'.bank_0 = "none" /\ SettingsInFlash'.bank_1 = "none"
  /\ \A r \in Record : flash'[Settings] = Saved(r) => SettingsInFlash' = r
<1>1. Fifo!Erased # Fifo!Garbage
  BY Kinds2
<1>2. flash'[Settings] = Fifo!Erased =>
       SettingsInFlash'.bank_0 = "EMPTY" /\ SettingsInFlash'.bank_1 = "EMPTY"
  BY <1>1 DEF SettingsInFlash
<1>3. flash'[Settings] = Fifo!Garbage =>
       SettingsInFlash'.bank_0 = "none" /\ SettingsInFlash'.bank_1 = "none"
  BY <1>1 DEF SettingsInFlash, NoRecord
<1>4. ASSUME NEW r \in Record, flash'[Settings] = Saved(r)
      PROVE  SettingsInFlash' = r
  <2>1. flash'[Settings] # Fifo!Erased /\ flash'[Settings] # Fifo!Garbage
    BY <1>4, Kinds2 DEF Saved
  <2>2. flash'[Settings][2][2] = r
    BY <1>4 DEF Saved, Fifo!Stored
  <2> QED
    BY <2>1, <2>2 DEF SettingsInFlash
<1> QED
  BY <1>2, <1>3, <1>4

\* A step that leaves the flash alone changes nothing that is read from it.
LEMMA SameFlash ==
  ASSUME flash' = flash
  PROVE  /\ SettingsInFlash' = SettingsInFlash /\ (AtRest' <=> AtRest)
         /\ (UpdateIsComplete' <=> UpdateIsComplete)
         /\ (Quiet' <=> Quiet) /\ (Settled' <=> Settled)
         /\ (AppIsValid' <=> AppIsValid) /\ \A i : Holds(i)' <=> Holds(i)
<1>1. SettingsInFlash' = SettingsInFlash
  BY DEF SettingsInFlash
<1>2. ASSUME NEW i PROVE Holds(i)' <=> Holds(i)
  BY DEF Holds
<1>3. (Quiet' <=> Quiet) /\ (Settled' <=> Settled)
  BY <1>1 DEF Quiet, SdInProgress, Settled
<1>4. AppIsValid' <=> AppIsValid
  BY <1>1 DEF AppIsValid, PlausibleVectors
<1>5. NeverBootsPartial' <=> NeverBootsPartial
  BY <1>2, <1>4 DEF NeverBootsPartial
<1>6. UpdateIsComplete' <=> UpdateIsComplete
  BY <1>1, <1>2 DEF UpdateIsComplete, SdInProgress
<1> QED
  BY <1>1, <1>2, <1>3, <1>4, <1>5, <1>6 DEF AtRest

-----------------------------------------------------------------------------
(* States in which a reset does no harm. *)

\* Without its first page there is no application.
LEMMA ErasedIsAtRest ==
  ASSUME flash[0] = Fifo!Erased, Quiet
  PROVE  AtRest
BY DEF AtRest, Quiet, NeverBootsPartial, AppIsValid, UpdateIsComplete

LEMMA SettledIsAtRest ==
  ASSUME Settled
  PROVE  AtRest /\ Quiet
BY DEF AtRest, Quiet, Settled, NeverBootsPartial, AppIsValid, UpdateIsComplete,
       SdInProgress

\* An image that is not an application does not look like one.
LEMMA NotPlausible ==
  ASSUME NEW i \in Images, Holds(i), "app" \notin i.kind
  PROVE  ~PlausibleVectors
<1>1. flash[0] = Fifo!Stored(Chunk(i, 0))
  BY ImageFields DEF Holds
<1> QED
  BY <1>1, Kinds2 DEF PlausibleVectors

LEMMA HeldIsAtRest ==
  ASSUME NEW i \in Images, Holds(i), ~NotSupported(i),
         \/ Quiet /\ SettingsInFlash.bank_0 # "VALID_APP"
         \/ \E r \in Record : flash[Settings] = Saved(r) /\ Announces(r, i)
  PROVE  AtRest
<1>1. i.kind \in Kinds
  OBVIOUS
<1>2. CASE Quiet /\ SettingsInFlash.bank_0 # "VALID_APP"
  <2>1. CASE i.kind = {"app"}
    BY <1>2, <2>1 DEF AtRest, Quiet, NeverBootsPartial, UpdateIsComplete
  <2>2. CASE "app" \notin i.kind
    BY <1>2, <2>2, NotPlausible DEF AtRest, Quiet, NeverBootsPartial, AppIsValid,
       UpdateIsComplete
  <2> QED
    BY <2>1, <2>2 DEF NotSupported
<1>3. ASSUME NEW r \in Record, flash[Settings] = Saved(r), Announces(r, i)
      PROVE  AtRest
  <2>1. SettingsInFlash = r
    BY <1>3, Read
  <2>2. CASE ActivationOf(i) = "app"
    <3>1. i.kind = {"app"}
      BY <1>1, <2>2 DEF ActivationOf, Kinds
    <3>2. r.bank_0 = "VALID_APP" /\ r.bank_1 = "INVALID_APP"
      BY <1>3, <2>2 DEF Announces
    <3> QED
      BY <2>1, <3>1, <3>2 DEF AtRest, NeverBootsPartial, UpdateIsComplete,
         SdInProgress
  <2>3. CASE ActivationOf(i) = "sd"
    <3>1. "sd" \in i.kind /\ "app" \notin i.kind
      BY <2>3 DEF ActivationOf, NotSupported
    <3>2. /\ r.bank_0 = "VALID_SD" /\ r.bank_1 = "INVALID_APP"
          /\ r.sd = i.sd /\ r.bl = i.bl
      BY <1>3, <2>3 DEF Announces
    <3> QED
      BY <2>1, <3>1, <3>2 DEF AtRest, NeverBootsPartial, AppIsValid,
         UpdateIsComplete, SdInProgress
  <2>4. CASE ActivationOf(i) = "bl"
    <3>1. "bl" \in i.kind /\ "sd" \notin i.kind /\ "app" \notin i.kind
      BY <2>4 DEF ActivationOf, NotSupported
    <3>2. /\ r.bank_0 \notin {"VALID_APP", "VALID_SD"} /\ r.bank_1 = "VALID_BOOT"
          /\ r.sd = i.sd /\ r.bl = i.bl
      BY <1>3, <2>4 DEF Announces
    <3> QED
      BY <2>1, <3>1, <3>2, NotPlausible DEF AtRest, NeverBootsPartial,
         AppIsValid, UpdateIsComplete, SdInProgress
  <2> QED
    BY <2>2, <2>3, <2>4 DEF ActivationOf
<1> QED
  BY <1>2, <1>3

\* The phases of main and the states of a session.
LEMMA States ==
  ASSUME TypeOK
  PROVE  /\ phase \in {"boot", "finalize", "mode", "dfu", "exit", "app"}
         /\ m_dfu_state \in {"off", "IDLE", "PREPARING", "WAIT_4_ACTIVATE"}
            \/ Receiving
BY DEF TypeOK, MainType, SessionType, Receiving

\* The chip may be reset in any state.
LEMMA AtRestAlways ==
  ASSUME IInv
  PROVE  AtRest
<1>1. CASE phase \in {"boot", "mode", "app", "exit"}
  BY <1>1 DEF IInv, PhaseInv
<1>2. CASE phase = "finalize"
  <2>1. PICK i \in Images : Holds(i) /\ "app" \notin i.kind
    BY <1>2 DEF IInv, FinalizeInv
  <2>2. UpdateIsComplete /\ SettingsInFlash.bank_0 # "VALID_APP"
    BY <1>2 DEF IInv, FinalizeInv
  <2> QED
    BY <2>1, <2>2, NotPlausible DEF AtRest, NeverBootsPartial, AppIsValid
<1>3. CASE phase = "dfu"
  <2>1. CASE m_dfu_state \in {"IDLE", "PREPARING"}
    BY <1>3, <2>1 DEF IInv, IdleInv, PreparingInv
  <2>2. CASE Receiving
    BY <1>3, <2>2, ErasedIsAtRest, SettledIsAtRest DEF IInv, ReceivingInv
  <2>3. CASE m_dfu_state = "WAIT_4_ACTIVATE"
    BY <1>3, <2>3, HeldIsAtRest DEF IInv, AnnouncedInv, ValidatedInv, ImageInPlace
  <2> QED
    BY <1>3, <2>1, <2>2, <2>3, States DEF IInv, PhaseInv
<1> QED
  BY <1>1, <1>2, <1>3, States DEF IInv

-----------------------------------------------------------------------------
(* Resets. *)

LEMMA ClearedInv ==
  ASSUME TypeOK', ClearRam, phase' \in {"boot", "app"}, AtRest'
  PROVE  IInv'
<1>1. /\ m_dfu_state' = "off" /\ m_init_packet' = NoImage
      /\ m_data_received' = 0 /\ pending' = <<>> /\ progress' = 0
  BY DEF ClearRam
<1> QED
  BY <1>1 DEF IInv, PhaseInv, FinalizeInv, AnnouncedInv, IdleInv, PreparingInv,
     ReceivingInv, Receiving, StreamInv, ValidatedInv

LEMMA SystemResetInv ==
  ASSUME IInv, NEW magic \in {"ota", "serial", "none"}, SystemReset(magic)
  PROVE  IInv'
<1>1. TypeOK'
  BY SystemResetType DEF IInv
<1>2. AtRest'
  BY AtRestAlways, SameFlash DEF SystemReset
<1> QED
  BY <1>1, <1>2, ClearedInv DEF SystemReset

-----------------------------------------------------------------------------
(* Steps that change the flash. *)

LEMMA Pages ==
  /\ 0 \in Bank /\ Settings \notin Bank /\ Below \notin Bank /\ Below # Settings
  /\ 0 # Settings /\ \A k \in Bank : k \in Nat
BY DEF Bank, Settings, Below

LEMMA SameSettings ==
  ASSUME flash'[Settings] = flash[Settings]
  PROVE  /\ SettingsInFlash' = SettingsInFlash
         /\ (Quiet' <=> Quiet) /\ (Settled' <=> Settled)
<1>1. SettingsInFlash' = SettingsInFlash
  BY DEF SettingsInFlash
<1> QED
  BY <1>1 DEF Quiet, SdInProgress, Settled

\* The same bank goes on holding what it held.
LEMMA SameBank ==
  ASSUME \A k \in Bank : flash'[k] = flash[k], NEW i \in Images, Holds(i)
  PROVE  Holds(i)'
<1>1. \A k \in 0 .. Size(i) - 1 : k \in Bank
  BY ImageFields DEF Holds, Bank
<1> QED
  BY <1>1 DEF Holds

LEMMA DamagedIsQuiet ==
  ASSUME flash'[Settings] \in {Fifo!Garbage, Fifo!Erased}
  PROVE  /\ Quiet' /\ SettingsInFlash'.bank_0 # "VALID_APP"
         /\ UpdateIsComplete'
         /\ flash'[Settings] = Fifo!Garbage => AtRest' /\ Settled'
<1>1. /\ SettingsInFlash'.bank_0 \in {"none", "EMPTY"}
      /\ SettingsInFlash'.bank_1 \in {"none", "EMPTY"}
      /\ flash'[Settings] = Fifo!Garbage =>
           SettingsInFlash'.bank_0 = "none" /\ SettingsInFlash'.bank_1 = "none"
  BY ReadNext
<1> QED
  BY <1>1 DEF AtRest, Quiet, Settled, NeverBootsPartial, AppIsValid,
     UpdateIsComplete, SdInProgress

LEMMA ErasedNextIsAtRest ==
  ASSUME flash'[0] = Fifo!Erased, Quiet'
  PROVE  AtRest'
BY DEF AtRest, Quiet, NeverBootsPartial, AppIsValid, UpdateIsComplete

LEMMA SettledNextIsAtRest ==
  ASSUME Settled'
  PROVE  AtRest' /\ Quiet'
BY DEF AtRest, Quiet, Settled, NeverBootsPartial, AppIsValid, UpdateIsComplete,
       SdInProgress

\* The commands that sessions queue.
LEMMA CommandForms ==
  /\ Clear(Settings, 1).op = "clear" /\ Clear(Settings, 1).addr = Settings
  /\ Clear(Settings, 1).rounds = 1 /\ Clear(Settings, 1).data = Fifo!Erased
  /\ ~StoresSettings(Clear(Settings, 1)) /\ ~BankStore(Clear(Settings, 1))
  /\ \A r : LET s == Store(Settings, Saved(r))
            IN  /\ s.op = "store" /\ s.addr = Settings /\ s.rounds = 1
                /\ s.data = Saved(r) /\ StoresSettings(s) /\ ~BankStore(s)
                /\ s # Clear(Settings, 1)
  /\ \A p, v : LET s == Store(p, v)
               IN  /\ s.op = "store" /\ s.addr = p /\ s.rounds = 1 /\ s.data = v
                   /\ p # Settings => BankStore(s)
  /\ \A i : LET c == Prepare(i)
            IN  /\ c.op = "clear" /\ c.addr = 0 /\ c.rounds = Size(i)
                /\ c.data = Fifo!Erased
BY DEF Clear, Store, StoresSettings, BankStore, Prepare

LEMMA BankStoreForm ==
  ASSUME NEW c \in Command, BankStore(c)
  PROVE  /\ c.addr \in Bank \cup {Below} /\ c.rounds = 1 /\ c.op = "store"
         /\ c # Clear(Settings, 1) /\ ~StoresSettings(c)
BY DEF BankStore, Command, Clear, StoresSettings

\* The head of the queue.
LEMMA HeadOfQueue ==
  ASSUME TypeOK, pending # <<>>
  PROVE  /\ Head(pending) = pending[1] /\ pending[1] \in Command
         /\ Len(pending) \in Nat /\ Len(pending) >= 1 /\ 1 \in 1 .. Len(pending)
         /\ progress \in Nat
         /\ \A n \in 1 .. Len(pending) : pending[n] \in Command
BY DEF TypeOK, FlashType

LEMMA PowerFailInv ==
  ASSUME IInv, PowerFail
  PROVE  IInv'
<1> DEFINE c == pending[1]
           page == c.addr + progress
<1>0. TypeOK /\ TypeOK'
  BY PowerFailType DEF IInv
<1>1. ClearRam /\ phase' = "boot"
  BY DEF PowerFail
<1>2. SUFFICES AtRest'
  BY <1>0, <1>1, ClearedInv
<1>3. CASE UNCHANGED flash
  BY <1>3, AtRestAlways, SameFlash
<1>4. CASE /\ pending # <<>> /\ progress < Head(pending).rounds
           /\ \/ Head(pending).op = "clear" /\ Head(pending).addr + progress # 0
              \/ Head(pending).op = "store" /\ ~StoresSettings(Head(pending))
           /\ flash' = [flash EXCEPT ![Head(pending).addr + progress] =
                                       Fifo!Garbage]
  <2>1. /\ Head(pending) = c /\ c \in Command /\ progress \in Nat
        /\ 1 \in 1 .. Len(pending) /\ Len(pending) \in Nat
    BY <1>0, <1>4, HeadOfQueue
  <2>2. page \in Bank \cup {Settings, Below}
    BY <1>4, <2>1, PageOfCommand
  <2>3. \A q \in Bank \cup {Settings, Below} :
          flash'[q] = IF q = page THEN Fifo!Garbage ELSE flash[q]
    BY <1>0, <1>4, <2>1, <2>2 DEF TypeOK, FlashType
  <2>4. CASE page = Settings
    BY <2>3, <2>4, DamagedIsQuiet
  <2>5. CASE page # Settings
    <3>1. flash'[Settings] = flash[Settings] /\ (Quiet' <=> Quiet)
          /\ (Settled' <=> Settled)
      BY <2>3, <2>5, SameSettings
    <3>2. c # Clear(Settings, 1)
      BY <1>4, <2>1, <2>5, CommandForms DEF Settings
    <3>3. \A r : c # Store(Settings, Saved(r))
      BY <1>4, <2>1, CommandForms
    <3>4. phase = "dfu"
      <4>1. phase \notin {"boot", "mode", "app", "exit"}
        BY <1>4 DEF IInv, PhaseInv
      <4>2. phase # "finalize"
        BY <1>4, <3>2, <3>3 DEF IInv, FinalizeInv
      <4> QED
        BY <1>0, <4>1, <4>2, States
    <3>5. CASE m_dfu_state = "PREPARING"
      <4>1. /\ c = Prepare(m_start_packet) /\ Quiet
            /\ \A k \in Bank : k < progress => flash[k] = Fifo!Erased
        BY <3>4, <3>5 DEF IInv, PreparingInv
      <4>2. page = progress /\ progress # 0 /\ 0 < progress
        BY <1>4, <2>1, <4>1, CommandForms
      <4>3. flash'[0] = Fifo!Erased
        BY <2>3, <4>1, <4>2, Pages
      <4> QED
        BY <3>1, <4>1, <4>3, ErasedNextIsAtRest
    <3>6. CASE Receiving
      <4>1. BankStore(c)
        BY <2>1, <3>2, <3>3, <3>4, <3>6 DEF IInv, ReceivingInv, HarmlessStore
      <4>2. ~SettingsAhead
        BY <2>1, <4>1, BankStoreForm DEF SettingsAhead
      <4>3. Settled'
        BY <3>1, <3>4, <3>6, <4>2 DEF IInv, ReceivingInv
      <4> QED
        BY <4>3, SettledNextIsAtRest
    <3>7. CASE m_dfu_state = "WAIT_4_ACTIVATE"
      <4>1. progress # 0 /\ c.op = "store"
        BY <2>1, <3>2, <3>3, <3>4, <3>7 DEF IInv, ValidatedInv, ImageInPlace
      <4>2. c.rounds = 1
        BY <2>1, <4>1 DEF Command
      <4> QED
        BY <1>4, <2>1, <4>1, <4>2
    <3>8. m_dfu_state \notin {"off", "IDLE"}
      BY <1>4, <3>4 DEF IInv, PhaseInv, IdleInv
    <3> QED
      BY <1>0, <3>5, <3>6, <3>7, <3>8, States
  <2> QED
    BY <2>4, <2>5
<1> QED
  BY <1>3, <1>4 DEF PowerFail

LEMMA ProgramInv ==
  ASSUME IInv, StartsAgain = FALSE, Program
  PROVE  IInv'
<1> DEFINE c == pending[1]
           page == c.addr + progress
<1>0. TypeOK /\ TypeOK'
  <2>1. [Next]_vars
    BY DEF Next
  <2> QED
    BY <2>1, NextTypeOK DEF IInv
<1>1. /\ pending # <<>> /\ progress < Head(pending).rounds
      /\ flash' = [flash EXCEPT ![Head(pending).addr + progress] =
                     Fifo!Programmed(flash[Head(pending).addr + progress],
                                     Head(pending).data)]
      /\ progress' = progress + 1
      /\ UNCHANGED <<pending, m_dfu_state, m_start_packet, m_activate, m_image_size,
                     m_data_received, m_init_packet, m_update_status, settings,
                     phase, ota>>
  BY DEF Program, Fifo!Program, sessionVars, bootVars, mainVars
<1>2. /\ Head(pending) = c /\ c \in Command /\ progress \in Nat
      /\ 1 \in 1 .. Len(pending) /\ Len(pending) \in Nat
      /\ progress < c.rounds
      /\ \A n \in 1 .. Len(pending) : pending[n] \in Command
  BY <1>0, <1>1, HeadOfQueue
<1>3. page \in Bank \cup {Settings, Below}
  BY <1>2, PageOfCommand
<1>4. \A q \in Bank \cup {Settings, Below} :
        /\ q = page => flash'[q] \in {c.data, Fifo!Garbage}
                       /\ (c.data = Fifo!Erased => flash'[q] = Fifo!Erased)
        /\ q # page => flash'[q] = flash[q]
  <2>1. \A q \in Bank \cup {Settings, Below} :
          flash'[q] = IF q = page THEN Fifo!Programmed(flash[q], c.data)
                      ELSE flash[q]
    BY <1>0, <1>1, <1>2, <1>3 DEF TypeOK, FlashType
  <2> QED
    BY <2>1 DEF Fifo!Programmed
<1>5. page # Settings => /\ flash'[Settings] = flash[Settings]
                         /\ SettingsInFlash' = SettingsInFlash
                         /\ (Quiet' <=> Quiet) /\ (Settled' <=> Settled)
  BY <1>4, SameSettings
<1>6. c = Clear(Settings, 1) =>
        /\ page = Settings /\ progress = 0 /\ flash'[Settings] = Fifo!Erased
        /\ \A k \in Bank : flash'[k] = flash[k]
        /\ Quiet' /\ SettingsInFlash'.bank_0 # "VALID_APP" /\ UpdateIsComplete'
  <2>1. c = Clear(Settings, 1) => page = Settings /\ progress = 0
    BY <1>2, CommandForms DEF Settings
  <2> QED
    BY <1>4, <2>1, CommandForms, Pages, DamagedIsQuiet
<1>7. \A r \in Record : c = Store(Settings, Saved(r)) =>
        /\ page = Settings /\ progress = 0
        /\ flash'[Settings] \in {Saved(r), Fifo!Garbage}
        /\ \A k \in Bank : flash'[k] = flash[k]
        /\ \/ Quiet' /\ SettingsInFlash'.bank_0 # "VALID_APP" /\ Settled'
              /\ UpdateIsComplete' /\ flash'[Settings] = Fifo!Garbage
           \/ flash'[Settings] = Saved(r) /\ SettingsInFlash' = r
  <2>1. ASSUME NEW r \in Record, c = Store(Settings, Saved(r))
        PROVE  page = Settings /\ progress = 0 /\ c.data = Saved(r)
    BY <1>2, <2>1, CommandForms DEF Settings
  <2> QED
    BY <1>4, <2>1, Pages, DamagedIsQuiet, ReadNext
<1> HIDE DEF c, page
<1>8. PhaseInv'
  BY <1>1 DEF IInv, PhaseInv
<1>9. FinalizeInv'
  <2> SUFFICES ASSUME phase = "finalize" PROVE FinalizeInv'
    BY <1>1 DEF FinalizeInv
  <2>1. settings \in Record
    BY <1>0 DEF TypeOK, BootType
  <2>2. PICK i \in Images : Holds(i) /\ "app" \notin i.kind
    BY DEF IInv, FinalizeInv
  <2>3. /\ settings.bank_0 \notin {"VALID_APP", "VALID_SD"}
        /\ settings.bank_1 # "VALID_BOOT"
        /\ m_update_status # "COMPLETE"
    BY <1>1 DEF IInv, FinalizeInv
  <2>4. CASE pending = <<Clear(Settings, 1), Store(Settings, Saved(settings))>>
    <3>1. c = Clear(Settings, 1)
      BY <2>4 DEF c
    <3>2. Holds(i)'
      BY <1>6, <2>2, <3>1, SameBank
    <3> QED
      BY <1>1, <1>6, <2>2, <2>3, <2>4, <3>1, <3>2 DEF FinalizeInv
  <2>5. CASE pending = <<Store(Settings, Saved(settings))>>
    <3>1. c = Store(Settings, Saved(settings))
      BY <2>5 DEF c
    <3>2. Holds(i)'
      BY <1>7, <2>1, <2>2, <3>1, SameBank
    <3>3. Quiet' /\ SettingsInFlash'.bank_0 # "VALID_APP" /\ UpdateIsComplete'
      <4>1. CASE SettingsInFlash' = settings
        BY <2>3, <4>1 DEF Quiet, SdInProgress, UpdateIsComplete
      <4> QED
        BY <1>7, <2>1, <3>1, <4>1
    <3> QED
      BY <1>1, <2>2, <2>3, <2>5, <3>2, <3>3 DEF FinalizeInv
  <2> QED
    BY <1>1, <2>4, <2>5 DEF IInv, FinalizeInv
<1>10. AnnouncedInv' /\ IdleInv'
  BY <1>1 DEF IInv, AnnouncedInv, IdleInv
<1>11. PreparingInv'
  <2> SUFFICES ASSUME phase = "dfu", m_dfu_state = "PREPARING"
               PROVE  PreparingInv'
    BY <1>1 DEF PreparingInv
  <2>1. /\ pending = <<Prepare(m_start_packet)>> /\ Quiet
        /\ \A k \in Bank : k < progress => flash[k] = Fifo!Erased
        /\ m_init_packet = NoImage /\ m_data_received = 0
        /\ m_start_packet \in Images /\ Size(m_start_packet) <= BankSize
        /\ Size(m_start_packet) \in Nat
    BY ImageFields DEF IInv, PreparingInv, AnnouncedInv
  <2>2. c = Prepare(m_start_packet)
    BY <2>1 DEF c
  <2>3. page = progress /\ progress < Size(m_start_packet) /\ page \in Bank
        /\ c.data = Fifo!Erased /\ page # Settings
    BY <1>2, <2>1, <2>2, CommandForms DEF page, Bank, Settings
  <2>4. \A k \in Bank : k < progress' => flash'[k] = Fifo!Erased
    BY <1>1, <1>2, <1>4, <2>1, <2>3, Pages
  <2>5. flash'[0] = Fifo!Erased
    BY <1>1, <1>2, <2>4, Pages
  <2>6. AtRest' /\ Quiet'
    BY <1>5, <2>1, <2>3, <2>5, ErasedNextIsAtRest
  <2>7. Prepare(m_start_packet)' = Prepare(m_start_packet)
    BY <1>1 DEF Prepare, Clear
  <2> QED
    BY <1>1, <1>2, <2>1, <2>3, <2>4, <2>6, <2>7 DEF PreparingInv
<1>12. ReceivingInv'
  <2> SUFFICES ASSUME phase = "dfu", Receiving PROVE ReceivingInv'
    BY <1>1 DEF ReceivingInv, Receiving
  <2>1. /\ Quiet /\ (SettingsAhead => flash[0] = Fifo!Erased)
        /\ (~SettingsAhead => Settled)
        /\ \/ BankStore(c) \/ HarmlessStore(c) \/ c = Clear(Settings, 1)
    BY <1>2 DEF IInv, ReceivingInv, c
  <2>2. CASE BankStore(c)
    <3>0. c.addr \in Bank \cup {Below} /\ c.rounds = 1
      BY <1>2, <2>2, BankStoreForm
    <3>1. page # Settings
      BY <1>2, <3>0 DEF page, Bank, Below, Settings
    <3>2. ~SettingsAhead /\ ~SettingsAhead'
      BY <1>1, <1>2, <2>2, BankStoreForm DEF SettingsAhead, c
    <3>3. Quiet' /\ Settled'
      BY <1>5, <2>1, <3>1, <3>2
    <3> QED
      BY <1>1, <3>2, <3>3 DEF IInv, ReceivingInv
  <2>3. CASE c = Clear(Settings, 1)
    <3>1. SettingsAhead /\ SettingsAhead'
      BY <1>1, <2>3 DEF SettingsAhead, c
    <3>2. flash'[0] = Fifo!Erased /\ Quiet'
      BY <1>6, <2>1, <2>3, <3>1, Pages
    <3> QED
      BY <1>1, <3>1, <3>2 DEF IInv, ReceivingInv
  <2>4. ASSUME NEW r \in Record, Harmless(r), c = Store(Settings, Saved(r))
        PROVE  ReceivingInv'
    <3>1. Quiet' /\ Settled'
      <4>1. CASE SettingsInFlash' = r
        BY <2>4, <4>1 DEF Quiet, SdInProgress, Settled, Harmless
      <4> QED
        BY <1>7, <2>4, <4>1
    <3>2. ~SettingsAhead'
      BY <1>1, <1>2, <2>4, CommandForms DEF SettingsAhead, c
    <3> QED
      BY <1>1, <3>1, <3>2 DEF IInv, ReceivingInv
  <2> QED
    BY <2>1, <2>2, <2>3, <2>4 DEF HarmlessStore
<1>13. StreamInv'
  <2> SUFFICES ASSUME phase = "dfu", Receiving, ota PROVE StreamInv'
    BY <1>1 DEF StreamInv, Receiving
  <2>1. /\ \A n \in 1 .. Len(pending) : BankStore(pending[n]) =>
             /\ pending[n].addr \in Bank /\ pending[n].addr < Size(m_start_packet)
             /\ Word * pending[n].addr < m_data_received
             /\ Unprogrammed(n) => flash[pending[n].addr] = Fifo!Erased
        /\ \A m, n \in 1 .. Len(pending) :
             BankStore(pending[m]) /\ BankStore(pending[n]) /\ m # n
               => pending[m].addr # pending[n].addr
        /\ \A k \in Bank : k < Size(m_start_packet) /\ Word * k >= m_data_received
                             => flash[k] = Fifo!Erased
    BY DEF IInv, StreamInv
  <2>2. \/ BankStore(c) \/ HarmlessStore(c) \/ c = Clear(Settings, 1)
    BY <1>2 DEF IInv, ReceivingInv, c
  <2>3. CASE ~BankStore(c)
    <3>1. \A k \in Bank : flash'[k] = flash[k]
      BY <1>6, <1>7, <2>2, <2>3 DEF HarmlessStore
    <3>2. \A n \in 1 .. Len(pending) : BankStore(pending[n]) => Unprogrammed(n)
      BY <2>3 DEF c, Unprogrammed
    <3> QED
      BY <1>1, <2>1, <3>1, <3>2 DEF StreamInv
  <2>4. CASE BankStore(c)
    <3>1. progress = 0 /\ progress' = 1 /\ page = c.addr
      BY <1>1, <1>2, <2>4, BankStoreForm, Pages DEF page, Below
    <3>2. /\ page \in Bank /\ page < Size(m_start_packet)
          /\ Word * page < m_data_received
      BY <1>2, <2>1, <2>4, <3>1 DEF c
    <3>3. \A k \in Bank : k # page => flash'[k] = flash[k]
      BY <1>4
    <3>4. \A n \in 1 .. Len(pending) :
            BankStore(pending[n]) /\ n # 1 => pending[n].addr # page
      BY <1>2, <2>1, <2>4, <3>1 DEF c
    <3>5. \A n \in 1 .. Len(pending) : BankStore(pending[n]) /\ n # 1
             => flash'[pending[n].addr] = Fifo!Erased
      BY <2>1, <3>3, <3>4 DEF Unprogrammed
    <3>6. \A k \in Bank : k < Size(m_start_packet) /\ Word * k >= m_data_received
                            => flash'[k] = Fifo!Erased
      <4>1. Word * page \in Nat /\ m_data_received \in Nat
        BY <1>0, <3>2, Pages DEF Word, TypeOK, SessionType, Top
      <4>2. \A k \in Bank : Word * k >= m_data_received => k # page
        BY <3>2, <4>1
      <4> QED
        BY <2>1, <3>3, <4>2
    <3> QED
      BY <1>1, <2>1, <3>1, <3>5, <3>6 DEF StreamInv, Unprogrammed
  <2> QED
    BY <2>3, <2>4
<1>14. ValidatedInv'
  <2> SUFFICES ASSUME phase = "dfu", m_dfu_state = "WAIT_4_ACTIVATE"
               PROVE  ValidatedInv'
    BY <1>1 DEF ValidatedInv
  <2>1. /\ Holds(m_start_packet) /\ m_init_packet = m_start_packet
        /\ m_start_packet \in Images
        /\ \A n \in 1 .. Len(pending) :
             \/ n = 1 /\ progress # 0 /\ pending[n].op = "store"
             \/ pending[n] = Clear(Settings, 1)
             \/ \E r \in Record : /\ pending[n] = Store(Settings, Saved(r))
                                  /\ Announces(r, m_start_packet)
    BY DEF IInv, ValidatedInv, ImageInPlace, AnnouncedInv
  <2>2. c.op = "store" => progress = 0
    BY <1>2 DEF Command
  <2>3. \A n \in 1 .. Len(pending) :
             \/ pending[n] = Clear(Settings, 1)
             \/ \E r \in Record : /\ pending[n] = Store(Settings, Saved(r))
                                  /\ Announces(r, m_start_packet)
    BY <2>1, <2>2 DEF c
  <2>4. CASE c = Clear(Settings, 1)
    <3>1. Holds(m_start_packet)'
      BY <1>1, <1>6, <2>1, <2>4, SameBank DEF Holds
    <3> QED
      BY <1>1, <1>6, <2>1, <2>3, <2>4, <3>1 DEF ValidatedInv, ImageInPlace
  <2>5. ASSUME NEW r \in Record, c = Store(Settings, Saved(r)),
               Announces(r, m_start_packet)
        PROVE  ValidatedInv'
    <3>1. Holds(m_start_packet)'
      BY <1>1, <1>7, <2>1, <2>5, SameBank DEF Holds
    <3>2. \/ Quiet' /\ SettingsInFlash'.bank_0 # "VALID_APP"
          \/ flash'[Settings] = Saved(r)
      BY <1>7, <2>5
    <3> QED
      BY <1>1, <2>1, <2>3, <2>5, <3>1, <3>2 DEF ValidatedInv, ImageInPlace
  <2> QED
    BY <1>2, <2>3, <2>4, <2>5 DEF c
<1> QED
  BY <1>0, <1>8, <1>9, <1>10, <1>11, <1>12, <1>13, <1>14 DEF IInv

-----------------------------------------------------------------------------
(* A command has finished. *)

LEMMA TailOfQueue ==
  ASSUME NEW queue \in Seq(Command), queue # <<>>
  PROVE  /\ Tail(queue) \in Seq(Command)
         /\ Len(Tail(queue)) = Len(queue) - 1 /\ Len(queue) \in Nat
         /\ \A n \in 1 .. Len(Tail(queue)) :
              Tail(queue)[n] = queue[n + 1] /\ n + 1 \in 1 .. Len(queue)
OBVIOUS

\* The two commands of a save are appended; older stores of the settings read the
\* buffer anew.
LEMMA SaveForm ==
  ASSUME NEW queue \in Seq(Command), NEW rec \in Record
  PROVE  LET saved == SettingsSave(queue, rec)
         IN  /\ saved \in Seq(Command) /\ Len(saved) = Len(queue) + 2
             /\ Len(queue) \in Nat
             /\ \A n \in 1 .. Len(queue) :
                  saved[n] = IF StoresSettings(queue[n])
                               THEN Store(Settings, Saved(rec)) ELSE queue[n]
             /\ saved[Len(queue) + 1] = Clear(Settings, 1)
             /\ saved[Len(queue) + 2] = Store(Settings, Saved(rec))
<1> DEFINE new == Store(Settings, Saved(rec))
           clear == Clear(Settings, 1)
           renewed == [n \in DOMAIN queue |->
                         IF StoresSettings(queue[n]) THEN new ELSE queue[n]]
<1>1. new \in Command /\ clear \in Command
  BY ClearAndStore
<1>2. /\ DOMAIN queue = 1 .. Len(queue) /\ Len(queue) \in Nat
      /\ \A n \in 1 .. Len(queue) : queue[n] \in Command
  OBVIOUS
<1>3. renewed \in [1 .. Len(queue) -> Command]
  BY <1>1, <1>2, Zenon
<1>4. \A n \in 1 .. Len(queue) :
        renewed[n] = IF StoresSettings(queue[n]) THEN new ELSE queue[n]
  BY <1>2, Zenon
<1>5. SettingsSave(queue, rec) = renewed \o <<clear, new>>
  BY Zenon DEF SettingsSave
<1> HIDE DEF new, clear, renewed
<1>6. renewed \in Seq(Command) /\ Len(renewed) = Len(queue)
  BY <1>2, <1>3
<1> DEFINE both == renewed \o <<clear, new>>
<1>7. /\ both \in Seq(Command) /\ Len(both) = Len(queue) + 2
      /\ \A n \in 1 .. Len(queue) : both[n] = renewed[n]
      /\ both[Len(queue) + 1] = clear /\ both[Len(queue) + 2] = new
  BY <1>1, <1>2, <1>6
<1> HIDE DEF both
<1>8. SettingsSave(queue, rec) = both
  BY <1>5 DEF both
<1> QED
  BY <1>2, <1>4, <1>7, <1>8 DEF new, clear

\* With nothing queued the two commands are all there is.
LEMMA SaveAlone ==
  ASSUME NEW rec \in Record
  PROVE  SettingsSave(<<>>, rec) =
           <<Clear(Settings, 1), Store(Settings, Saved(rec))>>
<1>1. <<>> \in Seq(Command) /\ Len(<<>>) = 0
  OBVIOUS
<1> DEFINE saved == SettingsSave(<<>>, rec)
           clear == Clear(Settings, 1)
           new == Store(Settings, Saved(rec))
<1>2. /\ saved \in Seq(Command) /\ Len(saved) = Len(<<>>) + 2
      /\ saved[Len(<<>>) + 1] = clear /\ saved[Len(<<>>) + 2] = new
  BY <1>1, SaveForm, Zenon
<1> HIDE DEF saved, clear, new
<1>3. Len(saved) = 2 /\ saved[1] = clear /\ saved[2] = new
  BY <1>1, <1>2
<1>4. saved = <<clear, new>>
  BY <1>2, <1>3
<1> QED
  BY <1>4 DEF saved, clear, new

\* What a session that has cleared the bank goes on with.
LEMMA BankClearedInv ==
  ASSUME IInv, TypeOK', phase = "dfu", m_dfu_state = "PREPARING", pending # <<>>,
         progress = Head(pending).rounds, BankCleared, progress' = 0,
         UNCHANGED <<flash, phase>>
  PROVE  IInv'
<1>1. /\ pending = <<Prepare(m_start_packet)>> /\ Quiet
      /\ m_init_packet = NoImage /\ m_data_received = 0
      /\ \A k \in Bank : k < progress => flash[k] = Fifo!Erased
      /\ m_start_packet \in Images /\ Size(m_start_packet) \in Nat
      /\ Size(m_start_packet) > 0
  BY ImageFields DEF IInv, PreparingInv, AnnouncedInv
<1>2. progress = Size(m_start_packet)
  BY <1>1, CommandForms
<1>3. Bank0Erased \in Record /\ Harmless(Bank0Erased)
  <2>1. Bank0Erased \in Record /\ settings \in Record
    BY RecordsToSave DEF IInv, TypeOK, BootType
  <2>2. SettingsInFlash.bank_1 # "VALID_BOOT"
    BY <1>1 DEF Quiet, SdInProgress
  <2> QED
    BY <2>1, <2>2 DEF Bank0Erased, Harmless, Record
<1>4. /\ pending' = <<Clear(Settings, 1), Store(Settings, Saved(Bank0Erased))>>
      /\ m_dfu_state' = "RDY"
      /\ UNCHANGED <<m_start_packet, m_activate, m_image_size, m_data_received,
                     m_init_packet>>
  <2>1. Tail(pending) = <<>>
    BY <1>1
  <2> QED
    BY <1>3, <2>1, SaveAlone DEF BankCleared
<1>5. PhaseInv' /\ FinalizeInv' /\ IdleInv' /\ PreparingInv' /\ ValidatedInv'
  BY <1>4 DEF PhaseInv, FinalizeInv, IdleInv, PreparingInv, ValidatedInv
<1>6. AnnouncedInv'
  BY <1>4 DEF IInv, AnnouncedInv
<1>7. HarmlessStore(Store(Settings, Saved(Bank0Erased)))
  BY <1>3 DEF HarmlessStore
<1> DEFINE new == Store(Settings, Saved(Bank0Erased))
<1> HIDE DEF new
<1>8. /\ Len(pending') = 2 /\ pending' # <<>>
      /\ pending'[1] = Clear(Settings, 1) /\ pending'[2] = new
  BY <1>4 DEF new
<1>9. ReceivingInv'
  <2>1. SettingsAhead'
    BY <1>8 DEF SettingsAhead
  <2>2. flash'[0] = Fifo!Erased /\ Quiet'
    BY <1>1, <1>2, Pages, SameFlash
  <2> QED
    BY <1>1, <1>4, <1>7, <1>8, <2>1, <2>2 DEF ReceivingInv, new
<1>10. StreamInv'
  <2>1. \A n \in 1 .. Len(pending') : ~BankStore(pending'[n])
    BY <1>8, CommandForms DEF new
  <2> QED
    BY <1>1, <1>2, <1>4, <2>1 DEF StreamInv
<1> QED
  BY <1>5, <1>6, <1>9, <1>10 DEF IInv

LEMMA CommandFinishedInv ==
  ASSUME IInv, CommandFinished
  PROVE  IInv'
<1> DEFINE c == pending[1]
<1>0. TypeOK /\ TypeOK'
  BY CommandFinishedType DEF IInv
<1>1. /\ pending # <<>> /\ progress = Head(pending).rounds /\ progress' = 0
      /\ UNCHANGED <<flash, phase, ota>>
  BY DEF CommandFinished, mainVars
<1>2. /\ Head(pending) = c /\ c \in Command /\ progress \in Nat
      /\ 1 \in 1 .. Len(pending) /\ Len(pending) \in Nat
      /\ \A n \in 1 .. Len(pending) : pending[n] \in Command
  BY <1>0, <1>1, HeadOfQueue
<1>3. phase \in {"finalize", "dfu"} /\ m_dfu_state # "IDLE"
  BY <1>0, <1>1, States DEF IInv, PhaseInv, IdleInv
<1>4. CASE m_dfu_state = "PREPARING"
  <2>1. phase = "dfu"
    BY <1>3, <1>4 DEF IInv, PhaseInv
  <2>2. pending = <<Prepare(m_start_packet)>>
    BY <1>4, <2>1 DEF IInv, PreparingInv
  <2>3. Head(pending).op = "clear" /\ Head(pending).addr # Settings
    BY <2>2, CommandForms, Pages
  <2>4. BankCleared
    BY <1>4, <2>3 DEF CommandFinished, StoresSettings
  <2> QED
    BY <1>0, <1>1, <1>4, <2>1, <2>4, BankClearedInv
<1>5. CASE m_dfu_state # "PREPARING"
  <2>1. /\ pending' = Tail(pending)
        /\ UNCHANGED <<m_dfu_state, m_start_packet, m_activate, m_image_size,
                       m_data_received, m_init_packet, settings>>
        /\ m_update_status' \in {m_update_status, "COMPLETE"}
        /\ ~StoresSettings(c) => m_update_status' = m_update_status
    BY <1>2, <1>5 DEF CommandFinished, SettingsSaved, sessionVars, bootVars
  <2>2. /\ Len(pending') = Len(pending) - 1
        /\ \A n \in 1 .. Len(pending') :
             pending'[n] = pending[n + 1] /\ n + 1 \in 1 .. Len(pending)
    BY <1>0, <1>1, <2>1, TailOfQueue DEF TypeOK, FlashType
  <2>3. PhaseInv' /\ AnnouncedInv' /\ IdleInv' /\ PreparingInv'
    BY <1>1, <1>3, <1>5, <2>1 DEF IInv, PhaseInv, AnnouncedInv, IdleInv,
       PreparingInv
  <2>4. FinalizeInv'
    <3> SUFFICES ASSUME phase = "finalize" PROVE FinalizeInv'
      BY <1>1 DEF FinalizeInv
    <3>1. PICK i \in Images : Holds(i) /\ "app" \notin i.kind
      BY DEF IInv, FinalizeInv
    <3>2. Holds(i)' /\ SettingsInFlash' = SettingsInFlash
          /\ UpdateIsComplete' /\ (Quiet' <=> Quiet)
      BY <1>1, <3>1, SameFlash DEF IInv, FinalizeInv
    <3>3. CASE pending = <<Clear(Settings, 1), Store(Settings, Saved(settings))>>
      <4>1. c = Clear(Settings, 1)
        BY <3>3
      <4>2. pending' = <<Store(Settings, Saved(settings))>>
        BY <2>1, <3>3
      <4>3. m_update_status' # "COMPLETE"
        BY <1>1, <2>1, <4>1, CommandForms DEF IInv, FinalizeInv
      <4>4. /\ pending' = <<Store(Settings, Saved(settings'))>> /\ progress' # 1
            /\ UpdateIsComplete'
        <5>1. settings' = settings
          BY <2>1
        <5>2. progress' # 1
          BY <1>1
        <5> QED
          BY <3>2, <4>2, <5>1, <5>2, Zenon
      <4>5. /\ settings'.bank_0 \notin {"VALID_APP", "VALID_SD"}
            /\ settings'.bank_1 # "VALID_BOOT"
            /\ SettingsInFlash'.bank_0 # "VALID_APP"
        BY <2>1, <3>2 DEF IInv, FinalizeInv
      <4>6. \E j \in Images : Holds(j)' /\ "app" \notin j.kind
        BY <3>1, <3>2
      <4>7. Store(Settings, Saved(settings))' = Store(Settings, Saved(settings'))
        BY DEF Store, Saved, Settings
      <4> QED
        BY <4>3, <4>4, <4>5, <4>6, <4>7, Zenon DEF FinalizeInv
    <3>4. CASE pending = <<Store(Settings, Saved(settings))>>
      <4>1. progress = 1 /\ Quiet
        BY <1>1, <1>2, <3>4, CommandForms DEF IInv, FinalizeInv
      <4>2. pending' = <<>>
        BY <2>1, <3>4
      <4>3. /\ settings'.bank_0 \notin {"VALID_APP", "VALID_SD"}
            /\ settings'.bank_1 # "VALID_BOOT"
            /\ SettingsInFlash'.bank_0 # "VALID_APP"
        BY <2>1, <3>2 DEF IInv, FinalizeInv
      <4>4. pending' = <<>> /\ progress' = 0 /\ Quiet' /\ UpdateIsComplete'
        BY <1>1, <3>2, <4>1, <4>2
      <4>5. \E j \in Images : Holds(j)' /\ "app" \notin j.kind
        BY <3>1, <3>2
      <4> QED
        BY <4>3, <4>4, <4>5, Zenon DEF FinalizeInv
    <3> QED
      BY <1>1, <3>3, <3>4 DEF IInv, FinalizeInv
  <2>5. ASSUME phase = "dfu", Receiving
        PROVE  ReceivingInv' /\ StreamInv'
    <3>1. /\ Quiet /\ (SettingsAhead => flash[0] = Fifo!Erased)
          /\ (~SettingsAhead => Settled)
          /\ \A n \in 1 .. Len(pending) :
               \/ BankStore(pending[n])
               \/ n = 1 /\ HarmlessStore(pending[1])
               \/ n = 2 /\ HarmlessStore(pending[2])
                        /\ pending[1] = Clear(Settings, 1)
               \/ /\ n = 1 /\ pending[1] = Clear(Settings, 1)
                  /\ Len(pending) >= 2 /\ HarmlessStore(pending[2])
      BY <2>5 DEF IInv, ReceivingInv
    <3>2. (Quiet' <=> Quiet) /\ (Settled' <=> Settled)
      BY <1>1, SameFlash
    <3>3. StreamInv'
      <4> SUFFICES ASSUME ota PROVE StreamInv'
        BY <1>1 DEF StreamInv
      <4>1. /\ \A n \in 1 .. Len(pending) : BankStore(pending[n]) =>
                 /\ pending[n].addr \in Bank
                 /\ pending[n].addr < Size(m_start_packet)
                 /\ Word * pending[n].addr < m_data_received
                 /\ n # 1 => flash[pending[n].addr] = Fifo!Erased
            /\ \A m, n \in 1 .. Len(pending) :
                 BankStore(pending[m]) /\ BankStore(pending[n]) /\ m # n
                   => pending[m].addr # pending[n].addr
            /\ \A k \in Bank :
                 k < Size(m_start_packet) /\ Word * k >= m_data_received
                   => flash[k] = Fifo!Erased
        BY <2>5 DEF IInv, StreamInv, Unprogrammed
      <4>2. \A n \in 1 .. Len(pending') : BankStore(pending'[n]) =>
              /\ pending'[n].addr \in Bank
              /\ pending'[n].addr < Size(m_start_packet)
              /\ Word * pending'[n].addr < m_data_received
              /\ flash[pending'[n].addr] = Fifo!Erased
        BY <2>2, <4>1
      <4>3. \A m, n \in 1 .. Len(pending') :
              BankStore(pending'[m]) /\ BankStore(pending'[n]) /\ m # n
                => pending'[m].addr # pending'[n].addr
        <5> SUFFICES ASSUME NEW m \in 1 .. Len(pending'),
                            NEW n \in 1 .. Len(pending'), m # n,
                            BankStore(pending'[m]), BankStore(pending'[n])
                     PROVE  pending'[m].addr # pending'[n].addr
          OBVIOUS
        <5>1. /\ pending'[m] = pending[m + 1] /\ m + 1 \in 1 .. Len(pending)
              /\ pending'[n] = pending[n + 1] /\ n + 1 \in 1 .. Len(pending)
          BY <2>2
        <5>2. m + 1 # n + 1
          OBVIOUS
        <5> QED
          BY <4>1, <5>1, <5>2, ZenonT(30)
      <4> QED
        BY <1>1, <2>1, <4>1, <4>2, <4>3 DEF StreamInv
    <3>4. CASE c = Clear(Settings, 1)
      <4>0. /\ ~BankStore(c) /\ ~HarmlessStore(c)
            /\ Len(pending) >= 2 /\ HarmlessStore(pending[2])
        <5>1. ~BankStore(c) /\ ~HarmlessStore(c)
          BY <3>4, CommandForms DEF HarmlessStore
        <5> QED
          BY <1>2, <3>1, <5>1
      <4>1. /\ HarmlessStore(pending'[1]) /\ pending' # <<>>
            /\ \A n \in 1 .. Len(pending') : n # 1 => BankStore(pending'[n])
        <5>1. Len(pending') >= 1 /\ 1 \in 1 .. Len(pending') /\ pending' # <<>>
          BY <1>2, <2>2, <4>0
        <5>2. pending'[1] = pending[2]
          BY <2>2, <5>1
        <5>3. \A n \in 1 .. Len(pending') : n # 1 =>
                 n + 1 # 1 /\ n + 1 # 2 /\ pending'[n] = pending[n + 1]
                 /\ n + 1 \in 1 .. Len(pending)
          BY <2>2
        <5> QED
          BY <3>1, <4>0, <5>1, <5>2, <5>3
      <4>2. SettingsAhead'
        BY <1>1, <4>1, CommandForms DEF SettingsAhead, HarmlessStore
      <4>3. SettingsAhead
        BY <1>1, <3>4 DEF SettingsAhead
      <4>4. ReceivingInv'
        BY <1>1, <2>1, <2>2, <3>1, <3>2, <4>1, <4>2, <4>3
           DEF IInv, ReceivingInv, Receiving
      <4> QED
        BY <3>3, <4>4
    <3>5. CASE c # Clear(Settings, 1)
      <4>1. c.op = "store" /\ progress = 1
        BY <1>1, <1>2, <3>1, <3>5, CommandForms, BankStoreForm DEF HarmlessStore
      <4>2. Settled'
        BY <3>1, <3>2, <3>5, <4>1 DEF SettingsAhead
      <4>3. \A n \in 1 .. Len(pending') : BankStore(pending'[n])
        BY <1>2, <2>2, <3>1, <3>5
      <4>4. ~SettingsAhead'
        <5>1. pending' # <<>> => pending'[1] \in Command /\ BankStore(pending'[1])
          BY <1>2, <2>2, <4>3
        <5> QED
          BY <5>1, BankStoreForm DEF SettingsAhead
      <4>5. ReceivingInv'
        BY <2>1, <2>5, <3>1, <3>2, <4>2, <4>3, <4>4 DEF IInv, ReceivingInv, Receiving
      <4> QED
        BY <3>3, <4>5
    <3> QED
      BY <3>4, <3>5
  <2>6. ReceivingInv' /\ StreamInv'
    BY <1>1, <2>1, <2>5 DEF ReceivingInv, StreamInv, Receiving
  <2>7. ValidatedInv'
    <3> SUFFICES ASSUME phase = "dfu", m_dfu_state = "WAIT_4_ACTIVATE"
                 PROVE  ValidatedInv'
      BY <1>1, <2>1 DEF ValidatedInv
    <3>1. /\ Holds(m_start_packet) /\ m_init_packet = m_start_packet
          /\ \/ Quiet /\ SettingsInFlash.bank_0 # "VALID_APP"
             \/ \E r \in Record :
                  flash[Settings] = Saved(r) /\ Announces(r, m_start_packet)
          /\ \A n \in 1 .. Len(pending) : n # 1 =>
               \/ pending[n] = Clear(Settings, 1)
               \/ \E r \in Record : /\ pending[n] = Store(Settings, Saved(r))
                                    /\ Announces(r, m_start_packet)
      BY DEF IInv, ValidatedInv, ImageInPlace
    <3>2. /\ Holds(m_start_packet)'
          /\ \/ Quiet' /\ SettingsInFlash'.bank_0 # "VALID_APP"
             \/ \E r \in Record :
                  flash'[Settings] = Saved(r) /\ Announces(r, m_start_packet)
      BY <1>1, <2>1, <3>1, SameFlash DEF Holds
    <3>3. \A n \in 1 .. Len(pending') :
               \/ pending'[n] = Clear(Settings, 1)
               \/ \E r \in Record : /\ pending'[n] = Store(Settings, Saved(r))
                                    /\ Announces(r, m_start_packet)
      BY <1>2, <2>2, <3>1
    <3> QED
      BY <2>1, <3>1, <3>2, <3>3 DEF ValidatedInv, ImageInPlace
  <2> QED
    BY <1>0, <2>3, <2>4, <2>6, <2>7 DEF IInv
<1> QED
  BY <1>4, <1>5

-----------------------------------------------------------------------------
(* Starting up. *)

LEMMA ContinueInv ==
  ASSUME IInv, TypeOK', ContinueSdUpdate
  PROVE  IInv'
<1>1. /\ phase = "boot" /\ phase' = "finalize" /\ SdInProgress
      /\ m_update_status' = "SETTINGS_SAVING" /\ settings' = SdSwapped
      /\ pending' = SettingsSave(pending, SdSwapped)
      /\ UNCHANGED <<progress, flash, m_dfu_state, m_init_packet,
                     m_data_received>>
  BY DEF ContinueSdUpdate, sessionVars
<1>2. /\ pending = <<>> /\ AtRest /\ m_dfu_state = "off"
      /\ m_init_packet = NoImage /\ m_data_received = 0
  BY <1>1 DEF IInv, PhaseInv
<1>3. PICK i \in Images : Holds(i) /\ "app" \notin i.kind
  BY <1>1, <1>2 DEF AtRest, UpdateIsComplete
<1>4. SettingsInFlash.bank_0 # "VALID_APP"
  <2> SUFFICES ASSUME SettingsInFlash.bank_0 = "VALID_APP" PROVE FALSE
    OBVIOUS
  <2>1. flash[0] = Fifo!Stored(Chunk(i, 0))
    BY <1>3, ImageFields DEF Holds
  <2>2. AppIsValid
    BY <2>1, Kinds2 DEF AppIsValid
  <2>3. PICK j \in Images : j.kind = {"app"} /\ Holds(j)
    BY <1>2, <2>2 DEF AtRest, NeverBootsPartial
  <2>4. flash[0] = Fifo!Stored(Chunk(j, 0))
    BY <2>3, ImageFields DEF Holds
  <2>5. i = j
    BY <2>1, <2>4, Kinds2
  <2> QED
    BY <1>3, <2>3, <2>5
<1>5. /\ SdSwapped.bank_0 \notin {"VALID_APP", "VALID_SD"}
      /\ SdSwapped.bank_1 # "VALID_BOOT" /\ SdSwapped \in Record
  BY <1>4, RecordsToSave DEF SdSwapped, IInv
<1>6. pending' = <<Clear(Settings, 1), Store(Settings, Saved(SdSwapped))>>
  BY <1>1, <1>2, <1>5, SaveAlone
<1>7. Store(Settings, Saved(settings)) ' = Store(Settings, Saved(SdSwapped))
  BY <1>1 DEF Store, Saved, Settings
<1>8. /\ Holds(i)' /\ "app" \notin i.kind /\ UpdateIsComplete'
      /\ SettingsInFlash'.bank_0 # "VALID_APP"
  BY <1>1, <1>2, <1>3, <1>4, SameFlash DEF AtRest
<1>9. FinalizeInv'
  <2>1. \E j \in Images : Holds(j)' /\ "app" \notin j.kind
    BY <1>8
  <2>2. Clear(Settings, 1)' = Clear(Settings, 1)
    BY DEF Clear, Settings
  <2>3. /\ settings'.bank_0 \notin {"VALID_APP", "VALID_SD"}
        /\ settings'.bank_1 # "VALID_BOOT" /\ m_update_status' # "COMPLETE"
    BY <1>1, <1>5
  <2>4. pending' = <<Clear(Settings, 1), Store(Settings, Saved(settings'))>>
    BY <1>1, <1>6, Zenon
  <2> QED
    BY <1>8, <2>1, <2>3, <2>4, Zenon DEF FinalizeInv
<1>10. PhaseInv' /\ AnnouncedInv'
  BY <1>1, <1>2 DEF PhaseInv, AnnouncedInv
<1>11. IdleInv' /\ PreparingInv' /\ ReceivingInv' /\ StreamInv' /\ ValidatedInv'
  BY <1>1 DEF IdleInv, PreparingInv, ReceivingInv, StreamInv, ValidatedInv
<1> QED
  BY <1>9, <1>10, <1>11 DEF IInv

LEMMA ModeInv ==
  ASSUME IInv, TypeOK', NEW forced \in BOOLEAN, NoSdUpdate \/ CheckDfuMode(forced)
  PROVE  IInv'
<1>1. CASE NoSdUpdate
  <2>1. /\ phase' = "mode"
        /\ UNCHANGED <<pending, progress, flash, m_dfu_state, m_init_packet,
                       m_data_received>>
        /\ \/ phase = "boot" /\ ~SdInProgress
           \/ phase = "finalize" /\ m_update_status = "COMPLETE"
    BY <1>1 DEF NoSdUpdate, flashVars, sessionVars
  <2>2. /\ pending = <<>> /\ progress = 0 /\ Quiet /\ m_dfu_state = "off"
        /\ m_init_packet = NoImage /\ m_data_received = 0
    <3>1. PhaseInv /\ FinalizeInv
      BY DEF IInv
    <3>2. CASE phase = "boot" /\ ~SdInProgress
      BY <3>1, <3>2 DEF PhaseInv, Quiet
    <3>3. CASE phase = "finalize" /\ m_update_status = "COMPLETE"
      <4>1. m_dfu_state = "off" /\ m_init_packet = NoImage /\ m_data_received = 0
        BY <3>1, <3>3 DEF PhaseInv
      <4>2. /\ pending = <<>>
            /\ \/ pending = <<Clear(Settings, 1), Store(Settings, Saved(settings))>>
               \/ pending = <<Store(Settings, Saved(settings))>>
               \/ pending = <<>> /\ progress = 0 /\ Quiet
        BY <3>1, <3>3 DEF FinalizeInv
      <4>3. /\ <<Clear(Settings, 1), Store(Settings, Saved(settings))>> # <<>>
            /\ <<Store(Settings, Saved(settings))>> # <<>>
        OBVIOUS
      <4> QED
        BY <4>1, <4>2, <4>3
    <3> QED
      BY <2>1, <3>2, <3>3
  <2>3. AtRest' /\ Quiet'
    BY <2>1, <2>2, AtRestAlways, SameFlash
  <2> QED
    BY <2>1, <2>2, <2>3 DEF IInv, PhaseInv, FinalizeInv, AnnouncedInv, IdleInv,
       PreparingInv, ReceivingInv, StreamInv, ValidatedInv
<1>2. CASE CheckDfuMode(forced)
  <2>1. /\ phase = "mode"
        /\ UNCHANGED <<pending, progress, flash, m_init_packet, m_data_received>>
        /\ \/ phase' = "dfu" /\ m_dfu_state' = "IDLE"
           \/ phase' = "exit" /\ m_dfu_state' = m_dfu_state
    BY <1>2 DEF CheckDfuMode, flashVars
  <2>2. /\ pending = <<>> /\ progress = 0 /\ Quiet /\ m_dfu_state = "off"
        /\ m_init_packet = NoImage /\ m_data_received = 0
    BY <2>1 DEF IInv, PhaseInv
  <2>3. AtRest' /\ Quiet'
    BY <2>1, <2>2, AtRestAlways, SameFlash
  <2> QED
    BY <2>1, <2>2, <2>3 DEF IInv, PhaseInv, FinalizeInv, AnnouncedInv, IdleInv,
       PreparingInv, ReceivingInv, Receiving, StreamInv, ValidatedInv
<1> QED
  BY <1>1, <1>2

-----------------------------------------------------------------------------
(* Steps of a session that leave the flash and its queue alone. *)

\* Neither a link nor a timer nor a status says anything of the bank.
LEMMA Frame ==
  ASSUME IInv, TypeOK',
         UNCHANGED <<pending, progress, flash, m_dfu_state, m_start_packet,
                     m_activate, m_image_size, m_data_received, m_init_packet,
                     settings, phase, ota>>,
         phase = "finalize" => m_update_status' = m_update_status
  PROVE  IInv'
<1>1. /\ SettingsInFlash' = SettingsInFlash /\ (AtRest' <=> AtRest)
      /\ (UpdateIsComplete' <=> UpdateIsComplete)
      /\ (Quiet' <=> Quiet) /\ (Settled' <=> Settled)
      /\ \A i : Holds(i)' <=> Holds(i)
  BY SameFlash
<1>2. PhaseInv' /\ AnnouncedInv' /\ IdleInv'
  BY <1>1 DEF IInv, PhaseInv, AnnouncedInv, IdleInv
<1>3. FinalizeInv'
  BY <1>1 DEF IInv, FinalizeInv
<1>4. PreparingInv'
  BY <1>1 DEF IInv, PreparingInv, Prepare, Clear
<1>5. ReceivingInv'
  BY <1>1 DEF IInv, ReceivingInv, Receiving, SettingsAhead
<1>6. StreamInv'
  BY DEF IInv, StreamInv, Receiving, Unprogrammed
<1>7. ValidatedInv'
  <2>1. Holds(m_start_packet)' <=> Holds(m_start_packet)
    BY DEF Holds
  <2> QED
    BY <1>1, <2>1 DEF IInv, ValidatedInv, ImageInPlace
<1> QED
  BY <1>2, <1>3, <1>4, <1>5, <1>6, <1>7 DEF IInv

\* The session moves on among the states in which packets are received; the queue
\* is not touched.
LEMMA ReceivingOn ==
  ASSUME IInv, TypeOK', phase = "dfu", Receiving, Receiving',
         UNCHANGED <<pending, progress, flash, m_start_packet, m_activate,
                     m_image_size, m_data_received, phase, ota>>,
         m_dfu_state' \in {"RDY", "RX_INIT_PKT"} =>
           m_dfu_state \in {"RDY", "RX_INIT_PKT"},
         m_dfu_state' \in {"RX_DATA_PKT", "VALIDATE"} =>
           m_init_packet' = m_start_packet,
         m_init_packet' \in {NoImage, m_start_packet}
  PROVE  IInv'
<1>1. (Quiet' <=> Quiet) /\ (Settled' <=> Settled)
  BY SameFlash
<1>2. PhaseInv' /\ FinalizeInv' /\ IdleInv' /\ PreparingInv' /\ ValidatedInv'
  BY DEF PhaseInv, FinalizeInv, IdleInv, PreparingInv, ValidatedInv, Receiving
<1>3. AnnouncedInv'
  BY DEF IInv, AnnouncedInv, Receiving
<1>4. ReceivingInv'
  BY <1>1 DEF IInv, ReceivingInv, SettingsAhead
<1>5. StreamInv'
  BY DEF IInv, StreamInv, Unprogrammed
<1> QED
  BY <1>2, <1>3, <1>4, <1>5 DEF IInv

-----------------------------------------------------------------------------
(* Packets. *)

LEMMA StartPacketInv ==
  ASSUME IInv, TypeOK', NEW i \in HostImages, phase = "dfu", phase' = "dfu",
         m_dfu_state = "IDLE", StartPacket(i), UNCHANGED ota
  PROVE  IInv'
<1>1. /\ pending = <<>> /\ progress = 0 /\ AtRest /\ Quiet
      /\ m_init_packet = NoImage /\ m_data_received = 0
  BY DEF IInv, IdleInv
<1>2. /\ UNCHANGED <<progress, flash, m_data_received, m_init_packet>>
      /\ m_start_packet' = i
  BY DEF StartPacket
<1>3. AtRest' /\ Quiet'
  BY <1>1, <1>2, SameFlash
<1>4. CASE StartFails(i)
  <2>1. m_dfu_state' = "IDLE" /\ pending' = pending
    BY <1>4 DEF StartPacket
  <2> QED
    BY <1>1, <1>2, <1>3, <2>1 DEF IInv, PhaseInv, FinalizeInv, AnnouncedInv,
       IdleInv, PreparingInv, ReceivingInv, Receiving, StreamInv, ValidatedInv
<1>5. CASE ~StartFails(i)
  <2>1. /\ i \in Images /\ Size(i) <= BankSize /\ Size(i) \in Nat
        /\ ~NotSupported(i) /\ ~TooLarge(i)
    BY <1>5, ImageFields DEF StartFails, TooLarge
  <2>2. /\ m_dfu_state' = "PREPARING" /\ m_image_size' = Word * Size(i)
        /\ pending' = Append(pending, Prepare(i))
        /\ m_activate' = ActivationOf(i)
    BY <1>5, <2>1 DEF StartPacket, ActivationOf
  <2>3. pending' = <<Prepare(i)>>
    BY <1>1, <2>2
  <2>4. Prepare(m_start_packet)' = Prepare(i)
    BY <1>2 DEF Prepare, Clear
  <2>5. PreparingInv'
    <3>1. pending' = <<Prepare(m_start_packet')>>
      BY <1>2, <2>3, Zenon
    <3>2. /\ AtRest' /\ Quiet' /\ m_init_packet' = NoImage
          /\ m_data_received' = 0 /\ progress' <= Size(m_start_packet')
      BY <1>1, <1>2, <1>3, <2>1
    <3>3. \A k \in Bank : k < progress' => flash'[k] = Fifo!Erased
      BY <1>1, <1>2, Pages
    <3> QED
      BY <3>1, <3>2, <3>3, Zenon DEF PreparingInv
  <2>6. AnnouncedInv'
    BY <1>1, <1>2, <2>1, <2>2 DEF AnnouncedInv
  <2> QED
    BY <2>2, <2>5, <2>6 DEF IInv, PhaseInv, FinalizeInv, IdleInv, ReceivingInv,
       Receiving, StreamInv, ValidatedInv
<1> QED
  BY <1>4, <1>5

\* The init packet belongs to what was announced.
LEMMA OnePackage ==
  ASSUME IInv, NEW i \in HostImages, FromOnePackage(i),
         m_dfu_state \notin {"off", "IDLE"}
  PROVE  m_start_packet = i
<1>1. m_start_packet # NoImage
  BY ImageFields DEF IInv, AnnouncedInv, Size, NoImage
<1> QED
  BY <1>1 DEF FromOnePackage

LEMMA InitPacketInv ==
  ASSUME IInv, TypeOK', NEW i \in HostImages, phase = "dfu", FromOnePackage(i),
         InitPacket(i), UNCHANGED <<bootVars, mainVars>>
  PROVE  IInv'
<1>1. /\ UNCHANGED <<pending, progress, flash, m_start_packet, m_activate,
                     m_image_size, m_data_received, settings, m_update_status,
                     phase, ota>>
  BY DEF InitPacket, flashVars, bootVars, mainVars
<1>2. CASE m_dfu_state \in {"RDY", "RX_INIT_PKT"}
  <2>1. m_start_packet = i /\ m_init_packet \in {NoImage, m_start_packet}
    BY <1>2, OnePackage DEF IInv, AnnouncedInv
  <2>2. m_dfu_state' = "RX_INIT_PKT" /\ m_init_packet' \in {m_init_packet, i}
    BY <1>2 DEF InitPacket
  <2> QED
    BY <1>1, <1>2, <2>1, <2>2, ReceivingOn DEF Receiving
<1>3. CASE m_dfu_state \notin {"RDY", "RX_INIT_PKT"}
  BY <1>1, <1>3, Frame DEF InitPacket
<1> QED
  BY <1>2, <1>3

LEMMA InitCompleteInv ==
  ASSUME IInv, TypeOK', NEW verdict \in BOOLEAN, phase = "dfu",
         InitComplete(verdict), UNCHANGED <<bootVars, mainVars>>
  PROVE  IInv'
<1>1. /\ UNCHANGED <<pending, progress, flash, m_start_packet, m_activate,
                     m_image_size, m_data_received, settings, m_update_status,
                     phase, ota>>
  BY DEF InitComplete, flashVars, bootVars, mainVars
<1>2. CASE m_dfu_state = "RX_INIT_PKT"
  <2>1. m_init_packet \in {NoImage, m_start_packet}
    BY <1>2 DEF IInv, AnnouncedInv
  <2>2. \/ m_dfu_state' = "RX_DATA_PKT" /\ m_init_packet' = m_init_packet
           /\ m_init_packet # NoImage
        \/ m_dfu_state' = m_dfu_state /\ m_init_packet' = NoImage
    BY <1>2 DEF InitComplete
  <2> QED
    BY <1>1, <1>2, <2>1, <2>2, ReceivingOn DEF Receiving
<1>3. CASE m_dfu_state # "RX_INIT_PKT"
  BY <1>1, <1>3, Frame DEF InitComplete
<1> QED
  BY <1>2, <1>3

\* dfu_init_pkt_handle and dfu_init_pkt_complete of the serial transport.
LEMMA SerialInitInv ==
  ASSUME IInv, TypeOK', NEW i \in HostImages, phase = "dfu", FromOnePackage(i),
         m_dfu_state \in {"RDY", "RX_INIT_PKT"},
         m_dfu_state' = "RX_DATA_PKT", m_init_packet' = i,
         UNCHANGED <<flashVars, m_start_packet, m_activate, m_image_size,
                     m_data_received, bootVars, mainVars>>
  PROVE  IInv'
<1>1. m_start_packet = i
  BY OnePackage
<1>2. UNCHANGED <<pending, progress, flash, phase, ota>>
  BY DEF flashVars, mainVars
<1> QED
  BY <1>1, <1>2, ReceivingOn DEF Receiving

\* The page that an accepted packet of the stream goes to.
LEMMA NextPage ==
  ASSUME SessionType, m_dfu_state = "RX_DATA_PKT", m_data_received % Word = 0,
         ~(Received(Word) > m_image_size), NEW s \in Nat, m_image_size = Word * s
  PROVE  LET k == m_data_received \div Word
         IN  /\ k \in Bank /\ k < s /\ m_data_received = Word * k
             /\ Received(Word) = Word * k + Word /\ Received(Word) # Top
             /\ m_data_received \in Nat
<1>1. /\ m_data_received \in 0 .. 4 * BankSize \cup {Modulus - 1}
      /\ m_image_size \in Nat /\ m_image_size <= 4 * BankSize
      /\ Modulus > 4 * (BankSize + 2) /\ Modulus % 4 = 0 /\ BankSize \in Nat
      /\ Modulus \in Nat
  BY DEF SessionType, Word, Top
<1>2. Received(Word) = IF m_data_received = Modulus - 1 THEN 3
                       ELSE m_data_received + 4
  BY <1>1 DEF Received, Word, Top
<1>3. (Modulus - 1) % 4 # 0 /\ m_data_received # Modulus - 1
  BY <1>1 DEF Word
<1>4. m_data_received + 4 <= 4 * s
  BY <1>1, <1>2, <1>3 DEF Word
<1> QED
  BY <1>1, <1>2, <1>3, <1>4 DEF Word, Bank, Top

\* A packet changes the queue and the count only.
LEMMA DataPacketForm ==
  ASSUME NEW i, DataPacket(i), UNCHANGED <<bootVars, mainVars>>
  PROVE  UNCHANGED <<progress, flash, m_dfu_state, m_start_packet, m_activate,
                     m_image_size, m_init_packet, settings, m_update_status,
                     phase, ota>>
BY DEF DataPacket, OtaWrite, SerialWrite, bootVars, mainVars

\* Over the air: the page behind the last one is appended to the queue.
LEMMA OtaWriteInv ==
  ASSUME IInv, TypeOK', NEW i \in HostImages, phase = "dfu", ota,
         m_dfu_state = "RX_DATA_PKT", m_data_received % Word = 0,
         ~(Received(Word) > m_image_size), OtaWrite(i),
         UNCHANGED <<progress, flash, m_dfu_state, m_start_packet, m_activate,
                     m_image_size, m_init_packet, settings, m_update_status,
                     phase, ota>>
  PROVE  IInv'
<1> DEFINE k == m_data_received \div Word
           c == Store(k, Fifo!Stored(Chunk(i, k)))
<1>0. /\ TypeOK /\ m_start_packet \in Images /\ Size(m_start_packet) \in Nat
      /\ m_image_size = Word * Size(m_start_packet)
  BY ImageFields DEF IInv, AnnouncedInv
<1>1. /\ k \in Bank /\ k < Size(m_start_packet) /\ m_data_received = Word * k
      /\ Received(Word) = Word * k + Word /\ k \in Nat
  BY <1>0, NextPage, Pages DEF TypeOK
<1>2. /\ pending' = Append(pending, c) /\ m_data_received' = Word * k + Word
  BY <1>1 DEF OtaWrite
<1>3. pending \in Seq(Command) /\ c \in Command
  BY <1>0, <1>1, ClearAndStore DEF TypeOK, FlashType, BankContent
<1>4. BankStore(c) /\ c.addr = k
  BY <1>1, CommandForms, Pages
<1> HIDE DEF c, k
<1>5. /\ Len(pending') = Len(pending) + 1 /\ Len(pending) \in Nat
      /\ \A n \in 1 .. Len(pending) : pending'[n] = pending[n]
      /\ pending'[Len(pending) + 1] = c /\ pending' # <<>>
      /\ Len(pending) > 0 <=> pending # <<>>
  BY <1>2, <1>3
<1>6. /\ \A n \in 1 .. Len(pending) : BankStore(pending[n]) =>
           /\ pending[n].addr \in Bank /\ pending[n].addr < Size(m_start_packet)
           /\ Word * pending[n].addr < m_data_received
           /\ Unprogrammed(n) => flash[pending[n].addr] = Fifo!Erased
      /\ \A m, n \in 1 .. Len(pending) :
           BankStore(pending[m]) /\ BankStore(pending[n]) /\ m # n
             => pending[m].addr # pending[n].addr
      /\ \A p \in Bank : p < Size(m_start_packet) /\ Word * p >= m_data_received
                           => flash[p] = Fifo!Erased
  BY DEF IInv, StreamInv, Receiving
<1>7. \A n \in 1 .. Len(pending) : BankStore(pending[n]) =>
        /\ pending[n].addr < k /\ pending[n].addr # k
        /\ Word * pending[n].addr < Word * k + Word
  <2> SUFFICES ASSUME NEW n \in 1 .. Len(pending), BankStore(pending[n])
               PROVE  /\ pending[n].addr < k /\ pending[n].addr # k
                      /\ Word * pending[n].addr < Word * k + Word
    OBVIOUS
  <2> DEFINE a == pending[n].addr
  <2>1. a \in Nat /\ k \in Nat /\ Word * a < Word * k
    BY <1>1, <1>6, Pages
  <2> HIDE DEF a
  <2>2. 4 * a < 4 * k
    BY <2>1 DEF Word
  <2>3. a < k
    BY <2>1, <2>2
  <2>4. Word * a < Word * k + Word /\ a # k
    BY <2>1, <2>3 DEF Word
  <2> QED
    BY <2>3, <2>4 DEF a
<1>8. StreamInv'
  <2>1. \A n \in 1 .. Len(pending') : BankStore(pending'[n]) =>
          /\ pending'[n].addr \in Bank /\ pending'[n].addr < Size(m_start_packet)
          /\ Word * pending'[n].addr < m_data_received'
          /\ Unprogrammed(n) => flash[pending'[n].addr] = Fifo!Erased
    <3>1. ASSUME NEW n \in 1 .. Len(pending), BankStore(pending'[n])
          PROVE  /\ pending'[n].addr \in Bank
                 /\ pending'[n].addr < Size(m_start_packet)
                 /\ Word * pending'[n].addr < m_data_received'
                 /\ Unprogrammed(n) => flash[pending'[n].addr] = Fifo!Erased
      BY <1>2, <1>5, <1>6, <1>7, <3>1
    <3>2. Word * k < Word * k + Word /\ Word * k >= m_data_received
      BY <1>1 DEF Word
    <3>3. flash[k] = Fifo!Erased
      BY <1>1, <1>6, <3>2
    <3> QED
      BY <1>1, <1>2, <1>4, <1>5, <3>1, <3>2, <3>3
  <2>2. \A m, n \in 1 .. Len(pending') :
          BankStore(pending'[m]) /\ BankStore(pending'[n]) /\ m # n
            => pending'[m].addr # pending'[n].addr
    BY <1>4, <1>5, <1>6, <1>7
  <2>3. \A p \in Bank : p < Size(m_start_packet) /\ Word * p >= m_data_received'
                          => flash[p] = Fifo!Erased
    BY <1>1, <1>2, <1>6, Pages DEF Word
  <2> QED
    BY <2>1, <2>2, <2>3 DEF StreamInv, Unprogrammed
<1>9. ReceivingInv'
  <2>1. (Quiet' <=> Quiet) /\ (Settled' <=> Settled)
    BY SameFlash
  <2>2. SettingsAhead' <=> SettingsAhead
    <3>1. CASE pending = <<>>
      <4>1. pending'[1] = c /\ c # Clear(Settings, 1) /\ ~StoresSettings(c)
        BY <1>3, <1>4, <1>5, <3>1, BankStoreForm
      <4> QED
        BY <3>1, <4>1 DEF SettingsAhead
    <3>2. CASE pending # <<>>
      <4>1. pending'[1] = pending[1]
        BY <1>5, <3>2
      <4> QED
        BY <1>5, <3>2, <4>1 DEF SettingsAhead
    <3> QED
      BY <3>1, <3>2
  <2>3. \A n \in 1 .. Len(pending') :
          \/ BankStore(pending'[n])
          \/ n = 1 /\ HarmlessStore(pending'[1])
          \/ n = 2 /\ HarmlessStore(pending'[2]) /\ pending'[1] = Clear(Settings, 1)
          \/ /\ n = 1 /\ pending'[1] = Clear(Settings, 1)
             /\ Len(pending') >= 2 /\ HarmlessStore(pending'[2])
    <3>1. \A n \in 1 .. Len(pending) :
          \/ BankStore(pending[n])
          \/ n = 1 /\ HarmlessStore(pending[1])
          \/ n = 2 /\ HarmlessStore(pending[2]) /\ pending[1] = Clear(Settings, 1)
          \/ /\ n = 1 /\ pending[1] = Clear(Settings, 1)
             /\ Len(pending) >= 2 /\ HarmlessStore(pending[2])
      BY DEF IInv, ReceivingInv, Receiving
    <3> QED
      BY <1>4, <1>5, <3>1
  <2>4. /\ Quiet /\ (SettingsAhead => flash[0] = Fifo!Erased)
        /\ (~SettingsAhead => Settled) /\ m_init_packet = m_start_packet
    BY DEF IInv, ReceivingInv, Receiving
  <2> QED
    BY <2>1, <2>2, <2>3, <2>4 DEF ReceivingInv
<1>10. PhaseInv' /\ FinalizeInv' /\ AnnouncedInv' /\ IdleInv' /\ PreparingInv'
       /\ ValidatedInv'
  BY DEF IInv, PhaseInv, FinalizeInv, AnnouncedInv, IdleInv, PreparingInv,
     ValidatedInv
<1> QED
  BY <1>8, <1>9, <1>10 DEF IInv

\* In serial mode only stores for the bank, and for the page below it, are queued.
LEMMA SerialCommands ==
  ASSUME IInv, TypeOK', NEW i \in HostImages, m_dfu_state = "RX_DATA_PKT",
         ~(Received(Word) > m_image_size), SerialWrite(i)
  PROVE  \A n \in 1 .. Len(pending') :
           pending'[n] \in Command /\ BankStore(pending'[n])
<1> DEFINE PageStore == {e \in Command : BankStore(e)}
<1>0. <<>> \in Seq(PageStore)
  <2> HIDE DEF PageStore
  <2> QED
    OBVIOUS
<1>1. \A p \in Bank \cup {Below}, v \in BankContent :
        <<Store(p, v)>> \in Seq(PageStore)
  <2>1. \A p \in Bank \cup {Below}, v \in BankContent :
          Store(p, v) \in PageStore
    BY ClearAndStore, CommandForms, Pages
  <2> HIDE DEF PageStore
  <2> QED
    BY <2>1
<1>2. \A e \in [page : Bank, value : BankContent] \cup {NoCache} :
        Flush(e) \in Seq(PageStore)
  <2> SUFFICES ASSUME NEW e \in [page : Bank, value : BankContent],
                      e # NoCache
               PROVE  <<Store(e.page, e.value)>> \in Seq(PageStore)
    BY <1>0, Zenon DEF Flush
  <2>1. e.page \in Bank \cup {Below} /\ e.value \in BankContent
    OBVIOUS
  <2> QED
    BY <1>1, <2>1, Zenon
<1>3. cache \in [page : Bank, value : BankContent] \cup {NoCache}
  BY DEF IInv, TypeOK, FlashType
<1>4. /\ m_data_received % Word = 0 => m_data_received \div Word \in Bank
      /\ m_data_received % Word # 0 /\ m_data_received # Top =>
           m_data_received \div Word \in Bank
  BY AcceptedPacket DEF IInv, TypeOK
<1>5. \A s, t \in Seq(PageStore) : s \o t \in Seq(PageStore)
  <2> HIDE DEF PageStore
  <2> QED
    OBVIOUS
<1>6. pending' \in Seq(PageStore)
  <2>1. CASE m_data_received % Word = 0
    <3> DEFINE k == m_data_received \div Word
               written == [page |-> k, value |-> Fifo!Stored(Chunk(i, k))]
    <3>1. written \in [page : Bank, value : BankContent]
      BY <1>4, <2>1 DEF BankContent
    <3>2. \/ pending' = Flush(cache) \o Flush(written)
          \/ pending' = Flush(cache) \o <<>>
      BY <2>1, Zenon DEF SerialWrite
    <3> HIDE DEF written, PageStore
    <3>3. Flush(cache) \in Seq(PageStore) /\ Flush(written) \in Seq(PageStore)
      BY <1>2, <1>3, <3>1, Zenon
    <3>4. /\ Flush(cache) \o Flush(written) \in Seq(PageStore)
          /\ Flush(cache) \o <<>> \in Seq(PageStore)
      BY <1>0, <1>5, <3>3, Zenon
    <3> QED
      BY <3>2, <3>4, Zenon
  <2>2. CASE m_data_received % Word # 0
    <3> DEFINE first == IF m_data_received = Top THEN Below
                        ELSE m_data_received \div Word
               last == <<Store(first, Fifo!Garbage)>>
    <3>1. first \in Bank \cup {Below} /\ Fifo!Garbage \in BankContent
      BY <1>4, <2>2 DEF BankContent
    <3>2. pending' = Flush(cache) \o last \/ pending' = <<>> \o last
      BY <2>2, Zenon DEF SerialWrite
    <3> HIDE DEF first, PageStore
    <3>3. last \in Seq(PageStore) /\ Flush(cache) \in Seq(PageStore)
      BY <1>1, <1>2, <1>3, <3>1, Zenon
    <3> HIDE DEF last
    <3>4. /\ Flush(cache) \o last \in Seq(PageStore)
          /\ <<>> \o last \in Seq(PageStore)
      BY <1>0, <1>5, <3>3, Zenon
    <3> QED
      BY <3>2, <3>4, Zenon
  <2> QED
    BY <2>1, <2>2
<1>7. \A e \in PageStore : e \in Command /\ BankStore(e)
  OBVIOUS
<1> HIDE DEF PageStore
<1> QED
  BY <1>6, <1>7

\* In serial mode only pages of the bank, and the one below it, are written.
LEMMA SerialWriteInv ==
  ASSUME IInv, TypeOK', NEW i \in HostImages, phase = "dfu", ~ota, pending = <<>>,
         m_dfu_state = "RX_DATA_PKT", ~(Received(Word) > m_image_size),
         SerialWrite(i),
         UNCHANGED <<progress, flash, m_dfu_state, m_start_packet, m_activate,
                     m_image_size, m_init_packet, settings, m_update_status,
                     phase, ota>>
  PROVE  IInv'
<1>1. \A n \in 1 .. Len(pending') :
        pending'[n] \in Command /\ BankStore(pending'[n])
  BY SerialCommands
<1>2. ~SettingsAhead /\ ~SettingsAhead'
  <2>1. pending' # <<>> => pending'[1] \in Command /\ BankStore(pending'[1])
    <3>1. pending' \in Seq(Command)
      BY DEF TypeOK, FlashType
    <3> QED
      BY <1>1, <3>1
  <2> QED
    BY <2>1, BankStoreForm DEF SettingsAhead
<1>3. Quiet' /\ Settled' /\ m_init_packet' = m_start_packet'
  BY <1>2, SameFlash DEF IInv, ReceivingInv, Receiving
<1>4. ReceivingInv'
  BY <1>1, <1>2, <1>3 DEF ReceivingInv
<1>5. /\ PhaseInv' /\ FinalizeInv' /\ AnnouncedInv' /\ IdleInv' /\ PreparingInv'
      /\ ValidatedInv' /\ StreamInv'
  BY DEF IInv, PhaseInv, FinalizeInv, AnnouncedInv, IdleInv, PreparingInv,
     ValidatedInv, StreamInv
<1> QED
  BY <1>4, <1>5 DEF IInv

\* A packet beyond the end of the image is refused, and so are all behind it.
LEMMA RefusedPacketInv ==
  ASSUME IInv, TypeOK', phase = "dfu", m_dfu_state = "RX_DATA_PKT",
         m_data_received' = Top,
         UNCHANGED <<pending, progress, flash, m_dfu_state, m_start_packet,
                     m_activate, m_image_size, m_init_packet, settings, phase, ota>>
  PROVE  IInv'
<1>1. (Quiet' <=> Quiet) /\ (Settled' <=> Settled)
  BY SameFlash
<1>2. \A k \in Bank : Word * k < Top
  BY DEF Word, Bank, Top
<1>3. /\ PhaseInv' /\ FinalizeInv' /\ AnnouncedInv' /\ IdleInv' /\ PreparingInv'
      /\ ValidatedInv'
  BY DEF IInv, PhaseInv, FinalizeInv, AnnouncedInv, IdleInv, PreparingInv,
     ValidatedInv
<1>4. ReceivingInv'
  BY <1>1 DEF IInv, ReceivingInv, Receiving, SettingsAhead
<1>5. StreamInv'
  <2> SUFFICES ASSUME ota PROVE StreamInv'
    BY DEF StreamInv
  <2>1. /\ \A n \in 1 .. Len(pending) : BankStore(pending[n]) =>
             /\ pending[n].addr \in Bank /\ pending[n].addr < Size(m_start_packet)
             /\ Unprogrammed(n) => flash[pending[n].addr] = Fifo!Erased
        /\ \A m, n \in 1 .. Len(pending) :
             BankStore(pending[m]) /\ BankStore(pending[n]) /\ m # n
               => pending[m].addr # pending[n].addr
    BY DEF IInv, StreamInv, Receiving
  <2>2. \A k \in Bank : ~(Word * k >= Top)
    <3>1. \A k \in Bank : Word * k \in Nat /\ Top \in Nat
      BY Pages DEF Word, Top
    <3> QED
      BY <1>2, <3>1
  <2> QED
    BY <1>2, <2>1, <2>2 DEF StreamInv, Unprogrammed
<1> QED
  BY <1>3, <1>4, <1>5 DEF IInv

LEMMA DataPacketInv ==
  ASSUME IInv, TypeOK', NEW i \in HostImages, phase = "dfu",
         ota \/ pending = <<>>, DataPacket(i), UNCHANGED <<bootVars, mainVars>>
  PROVE  IInv'
<1>1. UNCHANGED <<progress, flash, m_dfu_state, m_start_packet, m_activate,
                  m_image_size, m_init_packet, settings, m_update_status, phase,
                  ota>>
  BY DataPacketForm
<1>2. CASE pending' = pending /\ m_data_received' = m_data_received
  BY <1>1, <1>2, Frame
<1>3. CASE m_dfu_state = "RX_DATA_PKT" /\ pending' = pending
           /\ m_data_received' = Top
  BY <1>1, <1>3, RefusedPacketInv
<1>4. CASE m_dfu_state = "RX_DATA_PKT" /\ ~(Received(Word) > m_image_size)
           /\ ota /\ OtaWrite(i)
  <2>1. CASE m_data_received % Word = 0
    BY <1>1, <1>4, <2>1, OtaWriteInv
  <2>2. CASE m_data_received % Word # 0
    BY <1>2, <1>4, <2>2 DEF OtaWrite
  <2> QED
    BY <2>1, <2>2
<1>5. CASE m_dfu_state = "RX_DATA_PKT" /\ ~(Received(Word) > m_image_size)
           /\ ~ota /\ SerialWrite(i)
  BY <1>1, <1>5, SerialWriteInv
<1> QED
  BY <1>2, <1>3, <1>4, <1>5, Zenon DEF DataPacket

-----------------------------------------------------------------------------
(* Validation and activation. *)

\* When every page reads as it should, nothing is left in the queue that could
\* change one, and the settings have been made harmless.
LEMMA ValidatedInPlace ==
  ASSUME IInv, phase = "dfu", ota \/ pending = <<>>,
         m_dfu_state = "RX_DATA_PKT", PostValidate
  PROVE  ImageInPlace
<1>1. /\ m_init_packet = m_start_packet /\ m_start_packet \in Images
      /\ Holds(m_start_packet) /\ TypeOK
  BY DEF IInv, ReceivingInv, Receiving, AnnouncedInv, PostValidate
<1>2. \A k \in Bank : k < Size(m_start_packet) => flash[k] # Fifo!Erased
  <2>1. ASSUME NEW k \in Bank, k < Size(m_start_packet)
        PROVE  flash[k] = Fifo!Stored(Chunk(m_start_packet, k))
    BY <1>1, <2>1, ImageFields DEF Holds, Bank
  <2> QED
    BY <2>1, Kinds2
<1>3. flash[0] # Fifo!Erased
  BY <1>1, <1>2, ImageFields, Pages
<1>4. ~SettingsAhead /\ Settled
  BY <1>3 DEF IInv, ReceivingInv, Receiving
<1>5. ASSUME NEW n \in 1 .. Len(pending)
      PROVE  n = 1 /\ progress # 0 /\ pending[n].op = "store"
  <2>1. /\ pending # <<>> /\ pending[n] \in Command /\ ota
    BY <1>1 DEF TypeOK, FlashType
  <2>2. \/ BankStore(pending[n])
        \/ n = 1 /\ HarmlessStore(pending[1])
        \/ n = 2 /\ HarmlessStore(pending[2]) /\ pending[1] = Clear(Settings, 1)
        \/ /\ n = 1 /\ pending[1] = Clear(Settings, 1)
           /\ Len(pending) >= 2 /\ HarmlessStore(pending[2])
    BY DEF IInv, ReceivingInv, Receiving
  <2>3. CASE BankStore(pending[n])
    <3>1. /\ pending[n].addr \in Bank /\ pending[n].addr < Size(m_start_packet)
          /\ Unprogrammed(n) => flash[pending[n].addr] = Fifo!Erased
      BY <2>1, <2>3 DEF IInv, StreamInv, Receiving
    <3>2. ~Unprogrammed(n)
      BY <1>2, <3>1
    <3> QED
      BY <2>3, <3>2 DEF Unprogrammed, BankStore
  <2>4. CASE n = 1 /\ HarmlessStore(pending[1])
    <3>1. pending[1].op = "store" /\ StoresSettings(pending[1])
      BY <2>4, CommandForms DEF HarmlessStore
    <3> QED
      BY <1>4, <2>1, <2>4, <3>1 DEF SettingsAhead
  <2>5. pending[1] # Clear(Settings, 1)
    BY <1>4, <2>1 DEF SettingsAhead
  <2> QED
    BY <2>2, <2>3, <2>4, <2>5
<1>6. Quiet /\ SettingsInFlash.bank_0 # "VALID_APP"
  BY <1>4, SettledIsAtRest DEF Settled
<1> QED
  BY <1>1, <1>5, <1>6 DEF ImageInPlace

\* dfu_image_validate without an activation behind it.
LEMMA ImageValidateInv ==
  ASSUME IInv, TypeOK', phase = "dfu", ota \/ pending = <<>>, ImageValidate,
         UNCHANGED <<bootVars, mainVars>>
  PROVE  IInv'
<1>1. /\ UNCHANGED <<pending, progress, flash, m_start_packet, m_activate,
                     m_image_size, m_data_received, m_init_packet, settings,
                     m_update_status, phase, ota>>
      /\ m_dfu_state' = Validated
  BY DEF ImageValidate, flashVars, bootVars, mainVars
<1>2. CASE Validated = m_dfu_state
  BY <1>1, <1>2, Frame
<1>3. CASE m_dfu_state = "RX_DATA_PKT" /\ Validated = "VALIDATE"
  <2>1. m_init_packet = m_start_packet
    BY <1>3 DEF IInv, ReceivingInv, Receiving
  <2> QED
    BY <1>1, <1>3, <2>1, ReceivingOn DEF Receiving
<1>4. CASE m_dfu_state = "RX_DATA_PKT" /\ Validated = "WAIT_4_ACTIVATE"
  <2>1. ImageInPlace
    BY <1>4, ValidatedInPlace DEF Validated
  <2>2. ValidatedInv'
    <3>1. /\ Holds(m_start_packet)' <=> Holds(m_start_packet)
          /\ Quiet' <=> Quiet
          /\ SettingsInFlash' = SettingsInFlash
      BY <1>1, SameFlash DEF Holds
    <3> QED
      BY <1>1, <2>1, <3>1 DEF ValidatedInv, ImageInPlace
  <2>3. AnnouncedInv'
    BY <1>1, <1>4 DEF IInv, AnnouncedInv
  <2> QED
    BY <1>1, <1>4, <2>2, <2>3 DEF IInv, PhaseInv, FinalizeInv, IdleInv,
       PreparingInv, ReceivingInv, Receiving, StreamInv
<1> QED
  BY <1>2, <1>3, <1>4 DEF Validated

\* What the activation saves announces the image in the bank.
LEMMA ActivatedAnnounces ==
  ASSUME IInv, m_dfu_state \notin {"off", "IDLE"}, ImageInPlace
  PROVE  Activated \in Record /\ Announces(Activated, m_start_packet)
<1>1. /\ m_activate = ActivationOf(m_start_packet) /\ m_start_packet \in Images
  BY DEF IInv, AnnouncedInv
<1>2. m_activate \in {"app", "sd", "bl"}
  BY <1>1 DEF ActivationOf
<1>3. Activated \in Record /\ settings \in Record /\ SettingsInFlash \in Record
  BY <1>2, RecordsToSave, SettingsAreRecord
     DEF IInv, TypeOK, BootType, FlashType
<1>4. CASE m_activate = "app"
  <2>1. Activated = AppComplete
    BY <1>4 DEF Activated
  <2> QED
    BY <1>1, <1>3, <1>4, <2>1 DEF AppComplete, Announces, Record
<1>5. CASE m_activate = "sd"
  <2>1. Activated = SdComplete
    BY <1>5 DEF Activated
  <2> QED
    BY <1>1, <1>3, <1>5, <2>1 DEF SdComplete, Announces
<1>6. CASE m_activate = "bl"
  <2>1. Activated = BootComplete
    BY <1>6 DEF Activated
  <2>2. SettingsInFlash.bank_0 \notin {"VALID_APP", "VALID_SD"}
    <3>1. CASE Quiet /\ SettingsInFlash.bank_0 # "VALID_APP"
      BY <3>1 DEF Quiet, SdInProgress
    <3>2. ASSUME NEW r \in Record, flash[Settings] = Saved(r),
                 Announces(r, m_start_packet)
          PROVE  SettingsInFlash.bank_0 \notin {"VALID_APP", "VALID_SD"}
      BY <1>1, <1>6, <3>2, Read DEF Announces
    <3> QED
      BY <3>1, <3>2 DEF ImageInPlace
  <2> QED
    BY <1>1, <1>3, <1>6, <2>1, <2>2 DEF BootComplete, Announces
<1> QED
  BY <1>2, <1>4, <1>5, <1>6

\* dfu_image_activate, right behind dfu_image_validate or later.
LEMMA ActivateInv ==
  ASSUME IInv, TypeOK', phase = "dfu", m_dfu_state \notin {"off", "IDLE"},
         ImageInPlace, ImageActivate, m_dfu_state' = "WAIT_4_ACTIVATE",
         UNCHANGED <<m_start_packet, m_activate, m_image_size, m_init_packet, phase>>
  PROVE  IInv'
<1>1. Activated \in Record /\ Announces(Activated, m_start_packet)
  BY ActivatedAnnounces
<1>2. /\ pending' = SettingsSave(pending, Activated)
      /\ UNCHANGED <<progress, flash>>
  BY DEF ImageActivate
<1>3. pending \in Seq(Command)
  BY DEF IInv, TypeOK, FlashType
<1> DEFINE new == Store(Settings, Saved(Activated))
<1>4. /\ Len(pending) \in Nat /\ Len(pending') = Len(pending) + 2
      /\ \A n \in 1 .. Len(pending) :
           pending'[n] = IF StoresSettings(pending[n]) THEN new ELSE pending[n]
      /\ pending'[Len(pending) + 1] = Clear(Settings, 1)
      /\ pending'[Len(pending) + 2] = new
  <2> DEFINE saved == SettingsSave(pending, Activated)
  <2>1. /\ Len(pending) \in Nat /\ Len(saved) = Len(pending) + 2
        /\ \A n \in 1 .. Len(pending) :
             saved[n] = IF StoresSettings(pending[n]) THEN new ELSE pending[n]
        /\ saved[Len(pending) + 1] = Clear(Settings, 1)
        /\ saved[Len(pending) + 2] = new
    BY <1>1, <1>3, SaveForm
  <2>2. pending' = saved
    BY <1>2
  <2> HIDE DEF saved
  <2> QED
    BY <2>1, <2>2
<1>5. \E r \in Record : new = Store(Settings, Saved(r))
                        /\ Announces(r, m_start_packet)
  BY <1>1
<1> HIDE DEF new
<1>6. \A n \in 1 .. Len(pending') :
        \/ n = 1 /\ progress # 0 /\ pending'[n].op = "store"
        \/ pending'[n] = Clear(Settings, 1)
        \/ \E r \in Record : /\ pending'[n] = Store(Settings, Saved(r))
                             /\ Announces(r, m_start_packet)
  <2>1. \A n \in 1 .. Len(pending) :
          \/ n = 1 /\ progress # 0 /\ pending[n].op = "store"
          \/ pending[n] = Clear(Settings, 1)
          \/ \E r \in Record : /\ pending[n] = Store(Settings, Saved(r))
                               /\ Announces(r, m_start_packet)
    BY DEF ImageInPlace
  <2>2. \A n \in 1 .. Len(pending') :
          \/ n \in 1 .. Len(pending) \/ n = Len(pending) + 1
          \/ n = Len(pending) + 2
    BY <1>4
  <2> QED
    BY <1>4, <1>5, <2>1, <2>2
<1>7. /\ Holds(m_start_packet)' <=> Holds(m_start_packet)
      /\ Quiet' <=> Quiet
      /\ SettingsInFlash' = SettingsInFlash
  BY <1>2, SameFlash DEF Holds
<1>8. ValidatedInv'
  BY <1>2, <1>6, <1>7 DEF ValidatedInv, ImageInPlace
<1>9. AnnouncedInv'
  BY DEF IInv, AnnouncedInv
<1> QED
  BY <1>8, <1>9 DEF IInv, PhaseInv, FinalizeInv, IdleInv, PreparingInv,
     ReceivingInv, Receiving, StreamInv

-----------------------------------------------------------------------------
(* Both hosts. *)

LEMMA BlePacketInv ==
  ASSUME IInv, TypeOK', NEW i \in HostImages, StartsAgain = FALSE,
         BleStart(i) \/ BleInit(i) \/ BleData(i)
  PROVE  IInv'
<1>1. phase = "dfu" /\ ota
  BY DEF BleStart, BleInit, BleData, BlePeer, Listening
<1>2. CASE BleStart(i)
  <2>1. /\ m_dfu_state = "IDLE" /\ StartPacket(i)
        /\ UNCHANGED <<phase, ota>>
    BY <1>2 DEF BleStart, mainVars
  <2> QED
    BY <1>1, <2>1, StartPacketInv
<1>3. CASE BleInit(i)
  BY <1>1, <1>3, InitPacketInv DEF BleInit
<1>4. CASE BleData(i)
  BY <1>1, <1>4, DataPacketInv DEF BleData
<1> QED
  BY <1>2, <1>3, <1>4

LEMMA BleRequestInv ==
  ASSUME IInv, TypeOK', NEW verdict \in BOOLEAN,
         BleInitComplete(verdict) \/ BleValidate
  PROVE  IInv'
<1>1. phase = "dfu" /\ ota
  BY DEF BleInitComplete, BleValidate, BlePeer, Listening
<1>2. CASE BleInitComplete(verdict)
  BY <1>1, <1>2, InitCompleteInv DEF BleInitComplete
<1>3. CASE BleValidate
  BY <1>1, <1>3, ImageValidateInv DEF BleValidate
<1> QED
  BY <1>2, <1>3

LEMMA BleEndInv ==
  ASSUME IInv, TypeOK', BleActivate \/ BleReset
  PROVE  IInv'
<1>1. phase = "dfu" /\ gpregret \in {"ota", "serial", "none"}
  BY DEF BleActivate, BleReset, BlePeer, Listening, IInv, TypeOK, MainType
<1>2. CASE SystemReset(gpregret)
  BY <1>1, <1>2, SystemResetInv
<1>3. ASSUME BleClose, DfuReset
      PROVE  IInv'
  BY <1>1, <1>3, Frame DEF BleClose, DfuReset, flashVars, sessionVars
<1>4. ASSUME BleClose, m_dfu_state = "WAIT_4_ACTIVATE", ImageActivate,
             UNCHANGED sessionVars
      PROVE  IInv'
  <2>1. ImageInPlace
    BY <1>1, <1>4 DEF IInv, ValidatedInv
  <2>2. UNCHANGED <<m_dfu_state, m_start_packet, m_activate, m_image_size,
                    m_init_packet, phase>>
    BY <1>4 DEF BleClose, sessionVars
  <2> QED
    BY <1>1, <1>4, <2>1, <2>2, ActivateInv
<1> QED
  BY <1>2, <1>3, <1>4 DEF BleActivate, BleReset

LEMMA SerialPacketInv ==
  ASSUME IInv, TypeOK', NEW i \in HostImages, NEW verdict \in BOOLEAN,
         SerialStart(i) \/ SerialInit(i, verdict) \/ SerialData(i)
  PROVE  IInv'
<1>1. /\ phase = "dfu" /\ ~ota /\ pending = <<>>
      /\ gpregret \in {"ota", "serial", "none"}
  BY DEF SerialStart, SerialInit, SerialData, SerialHost, Listening, IInv, TypeOK,
     MainType
<1>2. CASE SystemReset(gpregret)
  BY <1>1, <1>2, SystemResetInv
<1>3. CASE SerialStart(i) /\ ~SystemReset(gpregret)
  <2>1. /\ m_dfu_state = "IDLE" /\ StartPacket(i)
        /\ UNCHANGED <<phase, ota>>
    BY <1>3 DEF SerialStart, StartFails, mainVars
  <2> QED
    BY <1>1, <2>1, StartPacketInv
<1>4. CASE SerialInit(i, verdict) /\ ~SystemReset(gpregret)
  <2>1. /\ FromOnePackage(i) /\ m_dfu_state \in {"RDY", "RX_INIT_PKT"}
        /\ m_dfu_state' = "RX_DATA_PKT" /\ m_init_packet' = i
        /\ UNCHANGED <<flashVars, m_start_packet, m_activate, m_image_size,
                       m_data_received, bootVars, mainVars>>
    BY <1>4 DEF SerialInit
  <2> QED
    BY <1>1, <2>1, SerialInitInv
<1>5. CASE SerialData(i)
  BY <1>1, <1>5, DataPacketInv DEF SerialData
<1> QED
  BY <1>2, <1>3, <1>4, <1>5

\* dfu_image_validate and dfu_image_activate in one packet.
LEMMA SerialStopInv ==
  ASSUME IInv, TypeOK', SerialStop
  PROVE  IInv'
<1>1. phase = "dfu" /\ pending = <<>>
  BY DEF SerialStop, SerialHost, Listening
<1>2. CASE Validated = "WAIT_4_ACTIVATE"
  <2>1. /\ ImageActivate /\ m_dfu_state' = "WAIT_4_ACTIVATE"
        /\ UNCHANGED <<m_start_packet, m_activate, m_image_size, m_init_packet,
                       phase>>
    BY <1>2 DEF SerialStop, mainVars
  <2>2. CASE m_dfu_state = "RX_DATA_PKT"
    <3>1. PostValidate
      BY <1>2, <2>2 DEF Validated
    <3> QED
      BY <1>1, <2>1, <2>2, <3>1, ValidatedInPlace, ActivateInv
  <2>3. CASE m_dfu_state = "WAIT_4_ACTIVATE"
    <3>1. ImageInPlace
      BY <1>1, <2>3 DEF IInv, ValidatedInv
    <3> QED
      BY <1>1, <2>1, <2>3, <3>1, ActivateInv
  <2> QED
    BY <1>2, <2>2, <2>3 DEF Validated
<1>3. CASE Validated # "WAIT_4_ACTIVATE"
  BY <1>1, <1>3, ImageValidateInv DEF SerialStop
<1> QED
  BY <1>2, <1>3

LEMMA LinkAndTimerInv ==
  ASSUME IInv, TypeOK', Connect \/ Disconnect \/ TimerExpires \/ Timeout
  PROVE  IInv'
<1>1. CASE Connect \/ Disconnect \/ TimerExpires
  BY <1>1, Frame DEF Connect, Disconnect, TimerExpires, flashVars, sessionVars,
     bootVars, mainVars
<1>2. CASE Timeout
  <2>1. CASE SystemReset(gpregret)
    BY <2>1, SystemResetInv DEF IInv, TypeOK, MainType
  <2>2. CASE ~SystemReset(gpregret)
    <3>1. phase = "dfu"
      BY <1>2 DEF Timeout, Listening
    <3> QED
      BY <1>2, <2>2, <3>1, Frame DEF Timeout, BleClose, flashVars, sessionVars,
         mainVars
  <2> QED
    BY <2>1, <2>2
<1> QED
  BY <1>1, <1>2

-----------------------------------------------------------------------------
(* The end of a session. *)

LEMMA ExitInv ==
  ASSUME IInv, TypeOK', NEW magic \in Modes \cup {"none"},
         LeaveDfu \/ StartApp \/ ResetInstead \/ AppResets(magic)
  PROVE  IInv'
<1>0. flash' = flash => AtRest'
  BY AtRestAlways, SameFlash
<1>1. CASE LeaveDfu
  <2>1. /\ phase' = "exit" /\ pending' = <<>> /\ progress' = 0
        /\ UNCHANGED <<flash, m_dfu_state, m_start_packet, m_activate,
                       m_image_size, m_init_packet>>
    BY <1>1 DEF LeaveDfu, sessionVars
  <2> QED
    BY <1>0, <2>1 DEF IInv, PhaseInv, FinalizeInv, AnnouncedInv, IdleInv,
       PreparingInv, ReceivingInv, StreamInv, ValidatedInv
<1>2. CASE StartApp
  BY <1>0, <1>2, ClearedInv DEF StartApp
<1>3. CASE ResetInstead
  BY <1>3, SystemResetInv DEF ResetInstead, IInv, TypeOK, MainType
<1>4. CASE AppResets(magic)
  BY <1>4, SystemResetInv DEF AppResets
<1> QED
  BY <1>1, <1>2, <1>3, <1>4

-----------------------------------------------------------------------------
(* The delivered device, and every step. *)

LEMMA InitInv == Init => IInv
<1> SUFFICES ASSUME Init PROVE IInv
  OBVIOUS
<1>1. TypeOK
  BY InitTypeOK
<1>2. /\ phase = "boot" /\ m_dfu_state = "off" /\ m_init_packet = NoImage
      /\ m_data_received = 0 /\ pending = <<>> /\ progress = 0
  BY DEF Init, SessionInit
<1>3. AtRest
  <2>1. CASE flash = Delivered(NoImage, Fifo!Erased)
    <3>1. Size(NoImage) = 0
      BY DEF Size, NoImage
    <3>2. flash[0] = Fifo!Erased /\ flash[Settings] = Fifo!Erased
      BY <2>1, <3>1, Pages DEF Delivered
    <3> QED
      BY <3>2, Read, ErasedIsAtRest DEF Quiet, SdInProgress
  <2>2. ASSUME NEW i \in Images, i.kind = {"app"}, Size(i) <= BankSize,
               NEW s, flash = Delivered(i, s)
        PROVE  Holds(i) /\ flash[Settings] = s
    <3>1. flash[Settings] = s
      BY <2>2, Pages DEF Delivered
    <3>2. \A k \in 0 .. Size(i) - 1 : k \in Bank /\ k < Size(i) /\ k # Settings
      BY <2>2, ImageFields DEF Bank, Settings
    <3>3. \A k \in 0 .. Size(i) - 1 : flash[k] = Fifo!Stored(Chunk(i, k))
      BY <2>2, <3>2 DEF Delivered
    <3> QED
      BY <2>2, <3>1, <3>3 DEF Holds
  <2>3. ASSUME NEW i \in Images, i.kind = {"app"}, Holds(i),
               flash[Settings] = Fifo!Erased
        PROVE  AtRest
    BY <2>3, Read DEF AtRest, NeverBootsPartial, UpdateIsComplete, SdInProgress
  <2> DEFINE valid == [NoRecord EXCEPT !.bank_0 = "VALID_APP",
                                       !.bank_1 = "INVALID_APP"]
  <2>4. ASSUME NEW i \in Images, i.kind = {"app"}, Holds(i),
               flash[Settings] = Saved(valid)
        PROVE  AtRest
    <3>1. valid \in Record /\ valid.bank_0 = "VALID_APP"
          /\ valid.bank_1 = "INVALID_APP"
      BY DEF NoRecord, Record, Codes, ImageSizes
    <3>2. SettingsInFlash = valid
      BY <2>4, <3>1, Read
    <3> QED
      BY <2>4, <3>1, <3>2 DEF AtRest, NeverBootsPartial, UpdateIsComplete,
         SdInProgress
  <2>5. \/ flash = Delivered(NoImage, Fifo!Erased)
        \/ \E i \in Images : /\ i.kind = {"app"} /\ Size(i) <= BankSize
                             /\ \/ flash = Delivered(i, Fifo!Erased)
                                \/ flash = Delivered(i, Saved(valid))
    BY DEF Init
  <2> HIDE DEF valid
  <2> QED
    BY <2>1, <2>2, <2>3, <2>4, <2>5
<1> QED
  BY <1>1, <1>2, <1>3 DEF IInv, PhaseInv, FinalizeInv, AnnouncedInv, IdleInv,
     PreparingInv, ReceivingInv, StreamInv, ValidatedInv

LEMMA NextInv ==
  ASSUME StartsAgain = FALSE, IInv, [Next]_vars
  PROVE  IInv'
<1>0. TypeOK'
  BY NextTypeOK DEF IInv
<1>1. CASE UNCHANGED vars
  BY <1>0, <1>1, Frame DEF vars, flashVars, sessionVars, bootVars, mainVars
<1>2. CASE Program \/ CommandFinished \/ PowerFail
  BY <1>2, ProgramInv, CommandFinishedInv, PowerFailInv
<1>3. ASSUME NEW forced \in BOOLEAN,
             ContinueSdUpdate \/ NoSdUpdate \/ CheckDfuMode(forced)
      PROVE  IInv'
  BY <1>0, <1>3, ContinueInv, ModeInv
<1>4. CASE HostPacket
  <2>1. ASSUME NEW i \in HostImages, BleStart(i) \/ BleInit(i) \/ BleData(i)
        PROVE  IInv'
    BY <1>0, <2>1, BlePacketInv
  <2>2. ASSUME NEW i \in HostImages, NEW verdict \in BOOLEAN,
               SerialStart(i) \/ SerialInit(i, verdict) \/ SerialData(i)
        PROVE  IInv'
    BY <1>0, <2>2, SerialPacketInv
  <2>3. ASSUME NEW verdict \in BOOLEAN, BleInitComplete(verdict)
        PROVE  IInv'
    BY <1>0, <2>3, BleRequestInv
  <2>4. CASE BleValidate
    BY <1>0, <2>4, BleRequestInv
  <2>5. CASE BleActivate \/ BleReset
    BY <1>0, <2>5, BleEndInv
  <2>6. CASE SerialStop
    BY <1>0, <2>6, SerialStopInv
  <2> QED
    BY <1>4, <2>1, <2>2, <2>3, <2>4, <2>5, <2>6 DEF HostPacket
<1>5. CASE Connect \/ Disconnect \/ TimerExpires \/ Timeout
  BY <1>0, <1>5, LinkAndTimerInv
<1>6. ASSUME NEW magic \in Modes \cup {"none"},
             LeaveDfu \/ StartApp \/ ResetInstead \/ AppResets(magic)
      PROVE  IInv'
  BY <1>0, <1>6, ExitInv
<1> QED
  BY <1>1, <1>2, <1>3, <1>4, <1>5, <1>6 DEF Next

\* The invariant holds in every state of every behaviour.
LEMMA Invariant ==
  ASSUME StartsAgain = FALSE
  PROVE  Spec => []IInv
<1>1. IInv /\ [Next]_vars => IInv'
  BY NextInv
<1> QED
  BY <1>1, InitInv, PTL DEF Spec

-----------------------------------------------------------------------------
(* What follows from it. *)

\* At whatever moment the chip is reset, and whatever a failing supply leaves
\* half written, bootloader_app_is_valid takes the bank for an application only
\* if a whole application is in it.
THEOREM BootsWhole ==
  ASSUME StartsAgain = FALSE
  PROVE  Spec => []NeverBootsPartial
<1>1. IInv => NeverBootsPartial
  BY AtRestAlways DEF AtRest
<1> QED
  BY <1>1, Invariant, PTL

\* The settings announce a SoftDevice or a bootloader to the next boot only with
\* all of it in the bank and with its sizes.
THEOREM AnnouncesWhole ==
  ASSUME StartsAgain = FALSE
  PROVE  Spec => []UpdateIsComplete
<1>1. IInv => UpdateIsComplete
  BY AtRestAlways DEF AtRest
<1> QED
  BY <1>1, Invariant, PTL

\* The image that dfu_init_postvalidate found in the bank stays there: neither a
\* store that is still queued nor a packet that comes late changes it.
THEOREM ValidatedStays ==
  ASSUME StartsAgain = FALSE
  PROVE  Spec => []ValidatedHolds
<1>1. IInv => ValidatedHolds
  BY DEF IInv, ValidatedInv, ImageInPlace, ValidatedHolds
<1> QED
  BY <1>1, Invariant, PTL

-----------------------------------------------------------------------------
(* Every store finds its page erased, what is queued stays what it was, and  *)
(* a session that ends complete has its settings in flash.  The invariant    *)
(* that this takes, on top of the one above:                                 *)

\* A store of the settings comes behind an erase of their page.
ErasedFirst ==
  /\ pending = <<>> => progress = 0
  /\ \A n \in 1 .. Len(pending) : StoresSettings(pending[n]) =>
       \/ n > 1 /\ pending[n - 1] = Clear(Settings, 1)
       \/ n = 1 /\ (progress = 0 => flash[Settings] = Fifo!Erased)
  /\ pending # <<>> /\ pending[1] = Clear(Settings, 1) /\ progress = 1
       => flash[Settings] = Fifo!Erased

\* The first page is written after the session's first save has left the queue.
SaveBeforePackets ==
  phase = "dfu" /\ Receiving /\ pending # <<>> /\ pending[1].addr = Settings
    => flash[0] = Fifo!Erased

\* Only the finalization and an activation save settings that somebody waits for.
StatusInv ==
  /\ phase \in {"boot", "finalize", "mode"} => ~ota /\ link = "down"
  /\ phase = "boot" => m_update_status = "UPDATING"
  /\ phase = "mode" => m_update_status # "SETTINGS_SAVING"
  /\ phase = "dfu" /\ m_dfu_state # "WAIT_4_ACTIVATE" =>
       /\ m_update_status # "SETTINGS_SAVING"
       /\ ota /\ m_update_status = "COMPLETE" => link = "down" /\ m_dfu_state = "IDLE"

\* Before the activation the queue holds at most a store that has been carried
\* out; with it come the two commands of the save, over the air while the link is
\* being closed for good.
NothingToDo ==
  \A n \in 1 .. Len(pending) : n = 1 /\ progress = 1 /\ BankStore(pending[1])
SaveQueued ==
  /\ Len(pending) \in 1 .. 3
  /\ pending[Len(pending)] = Store(Settings, Saved(settings))
  /\ Len(pending) > 1 => pending[Len(pending) - 1] = Clear(Settings, 1)
  /\ Len(pending) = 3 => progress = 1 /\ BankStore(pending[1])
  /\ Len(pending) = 1 /\ progress = 1 => flash[Settings] = Saved(settings)
SavingInv ==
  phase = "dfu" /\ m_dfu_state = "WAIT_4_ACTIVATE" =>
    \/ /\ NothingToDo
       /\ m_update_status = "COMPLETE" => flash[Settings] = Saved(settings)
    \/ /\ SaveQueued
       /\ m_update_status # "COMPLETE"
       /\ ota => link \notin {"up", "down"}

Saves == ErasedFirst /\ SaveBeforePackets /\ StatusInv /\ SavingInv
SInv  == IInv /\ Saves

-----------------------------------------------------------------------------
(* What a step can do to the queue. *)

\* The chip is reset, or the application started.
Restarts ==
  /\ pending' = <<>> /\ progress' = 0 /\ phase' \in {"boot", "app"}
  /\ ~ota' /\ link' = "down" /\ m_update_status' = "UPDATING"

LEMMA SaveQueuedNext ==
  ASSUME Len(pending') \in 1 .. 3,
         pending'[Len(pending')] = Store(Settings, Saved(settings')),
         Len(pending') > 1 => pending'[Len(pending') - 1] = Clear(Settings, 1),
         Len(pending') = 3 => progress' = 1 /\ BankStore(pending'[1]),
         Len(pending') = 1 /\ progress' = 1 => flash'[Settings] = Saved(settings')
  PROVE  SaveQueued'
<1>1. /\ Store(Settings, Saved(settings))' = Store(Settings, Saved(settings'))
      /\ Clear(Settings, 1)' = Clear(Settings, 1)
      /\ Saved(settings)' = Saved(settings')
  BY DEF Store, Clear, Saved, Settings
<1> QED
  BY <1>1, Zenon DEF SaveQueued

\* Commands for the bank are appended.
Grows ==
  /\ UNCHANGED <<progress, flash>>
  /\ Len(pending') \in Nat /\ Len(pending') >= Len(pending)
  /\ pending' # <<>> => Len(pending') >= 1
  /\ \A n \in 1 .. Len(pending) : pending'[n] = pending[n]
  /\ \A n \in 1 .. Len(pending') : n > Len(pending) =>
       ~StoresSettings(pending'[n]) /\ pending'[n].addr # Settings

LEMMA Restart ==
  ASSUME ClearRam, phase' \in {"boot", "app"}
  PROVE  Restarts
BY DEF ClearRam, Restarts

LEMMA RestartSaves ==
  ASSUME Restarts
  PROVE  Saves'
BY DEF Restarts, Saves, ErasedFirst, SaveBeforePackets, StatusInv, SavingInv

\* The queue as it is.
LEMMA QueueForm ==
  ASSUME TypeOK
  PROVE  /\ Len(pending) \in Nat /\ progress \in Nat
         /\ pending # <<>> <=> Len(pending) >= 1
         /\ \A n \in 1 .. Len(pending) :
              pending[n] \in Command /\ pending[n].rounds \in Nat
BY DEF TypeOK, FlashType, Command

LEMMA QueueFormNext ==
  ASSUME TypeOK'
  PROVE  /\ Len(pending') \in Nat /\ progress' \in Nat
         /\ pending' # <<>> <=> Len(pending') >= 1
         /\ \A n \in 1 .. Len(pending') :
              pending'[n] \in Command /\ pending'[n].rounds \in Nat
BY DEF TypeOK, FlashType, Command

LEMMA GrownErasedFirst ==
  ASSUME TypeOK, ErasedFirst, Grows
  PROVE  ErasedFirst'
<1>1. Len(pending) \in Nat /\ (pending # <<>> <=> Len(pending) >= 1)
  BY QueueForm
<1>2. ASSUME NEW n \in 1 .. Len(pending'), StoresSettings(pending'[n])
      PROVE  \/ n > 1 /\ pending'[n - 1] = Clear(Settings, 1)
             \/ n = 1 /\ (progress' = 0 => flash'[Settings] = Fifo!Erased)
  <2>1. n \in 1 .. Len(pending) /\ pending'[n] = pending[n]
    BY <1>1, <1>2 DEF Grows
  <2>2. n > 1 => pending'[n - 1] = pending[n - 1]
    BY <1>1, <2>1 DEF Grows
  <2> QED
    BY <1>2, <2>1, <2>2 DEF ErasedFirst, Grows
<1>3. ASSUME pending' # <<>>, pending'[1] = Clear(Settings, 1), progress' = 1
      PROVE  flash'[Settings] = Fifo!Erased
  <2>1. 1 \in 1 .. Len(pending') /\ pending'[1].addr = Settings
    BY <1>3, CommandForms DEF Grows
  <2>2. Len(pending) >= 1 /\ pending'[1] = pending[1]
    BY <1>1, <2>1 DEF Grows
  <2> QED
    BY <1>1, <1>3, <2>2 DEF ErasedFirst, Grows
<1>4. pending' = <<>> => progress' = 0
  BY <1>1 DEF ErasedFirst, Grows
<1> QED
  BY <1>2, <1>3, <1>4 DEF ErasedFirst

\* The session goes on receiving, or has not begun to.
LEMMA GrownSaves ==
  ASSUME IInv, Saves, TypeOK', Grows, phase = "dfu",
         m_dfu_state # "WAIT_4_ACTIVATE", m_dfu_state' # "WAIT_4_ACTIVATE",
         Receiving' => Receiving,
         ota => m_update_status # "COMPLETE",
         UNCHANGED <<phase, ota, m_update_status>>
  PROVE  Saves'
<1>1. ErasedFirst'
  BY GrownErasedFirst DEF IInv, Saves
<1>2. SaveBeforePackets'
  <2> SUFFICES ASSUME Receiving', pending' # <<>>, pending'[1].addr = Settings
               PROVE  flash'[0] = Fifo!Erased
    BY DEF SaveBeforePackets
  <2>1. Len(pending) \in Nat /\ (pending # <<>> <=> Len(pending) >= 1)
    BY QueueForm DEF IInv
  <2>2. Len(pending) >= 1 /\ pending'[1] = pending[1]
    BY <2>1 DEF Grows
  <2> QED
    BY <2>1, <2>2 DEF Saves, SaveBeforePackets, Grows
<1>3. StatusInv'
  BY DEF Saves, StatusInv
<1>4. SavingInv'
  BY DEF SavingInv
<1> QED
  BY <1>1, <1>2, <1>3, <1>4 DEF Saves

\* The queue and the flash are left alone.
LEMMA SameSaves ==
  ASSUME IInv, Saves, UNCHANGED <<pending, progress, flash, settings, phase, ota>>,
         StatusInv', Receiving' => Receiving,
         m_dfu_state' = "WAIT_4_ACTIVATE" =>
           /\ m_dfu_state = "WAIT_4_ACTIVATE"
           /\ m_update_status' \in {m_update_status, "TIMEOUT", "SYS_RESET",
                                    "RESET_TO_SELF"}
           /\ ota /\ link \notin {"up", "down"} => link' \notin {"up", "down"}
  PROVE  Saves'
<1>1. ErasedFirst' /\ SaveBeforePackets'
  BY DEF Saves, ErasedFirst, SaveBeforePackets
<1>2. SavingInv'
  <2>1. (SaveQueued' <=> SaveQueued) /\ (NothingToDo' <=> NothingToDo)
    BY DEF SaveQueued, NothingToDo, Saved
  <2> QED
    BY <2>1 DEF Saves, SavingInv, Saved
<1> QED
  BY <1>1, <1>2 DEF Saves

-----------------------------------------------------------------------------
(* The flash carries out a command. *)

LEMMA ProgramSaves ==
  ASSUME IInv, Saves, Program
  PROVE  Saves'
<1> DEFINE c == pending[1]
           page == c.addr + progress
<1>0. TypeOK
  BY DEF IInv
<1>1. /\ pending # <<>> /\ progress < c.rounds /\ progress' = progress + 1
      /\ flash' = [flash EXCEPT ![page] = Fifo!Programmed(flash[page], c.data)]
      /\ UNCHANGED <<pending, m_dfu_state, settings, m_update_status, phase, ota,
                     link>>
  BY <1>0, HeadOfQueue DEF Program, Fifo!Program, sessionVars, bootVars, mainVars
<1>2. /\ c \in Command /\ progress \in Nat /\ 1 \in 1 .. Len(pending)
      /\ Len(pending) \in Nat
  BY <1>0, <1>1, HeadOfQueue
<1>3. flash'[page] = Fifo!Programmed(flash[page], c.data)
      /\ \A p \in Bank \cup {Settings, Below} : p # page => flash'[p] = flash[p]
  <2>1. page \in Bank \cup {Settings, Below}
    BY <1>1, <1>2, PageOfCommand
  <2> QED
    BY <1>0, <1>1, <2>1 DEF TypeOK, FlashType
<1>4. c.addr = Settings \/ c.op = "store" => c.rounds = 1 /\ progress = 0
  <2>1. c.addr = Settings \/ c.op = "store" => c.rounds = 1
    BY <1>2, Pages DEF Command
  <2> QED
    BY <1>1, <1>2, <2>1
<1>5. c.addr = Settings => page = Settings
  BY <1>4 DEF Settings
<1> HIDE DEF page
<1>6. ErasedFirst'
  <2>1. ASSUME NEW n \in 1 .. Len(pending), StoresSettings(pending[n])
        PROVE  \/ n > 1 /\ pending[n - 1] = Clear(Settings, 1)
               \/ n = 1 /\ (progress' = 0 => flash'[Settings] = Fifo!Erased)
    BY <1>1, <1>2, <2>1 DEF Saves, ErasedFirst
  <2>2. ASSUME c = Clear(Settings, 1), progress' = 1
        PROVE  flash'[Settings] = Fifo!Erased
    <3>1. c.addr = Settings /\ c.data = Fifo!Erased
      BY <2>2, CommandForms
    <3> QED
      BY <1>3, <1>5, <3>1 DEF Fifo!Programmed
  <2> QED
    BY <1>1, <2>1, <2>2 DEF ErasedFirst
<1>7. SaveBeforePackets'
  <2>1. c.addr = Settings => flash'[0] = flash[0]
    BY <1>3, <1>5, Pages
  <2> QED
    BY <1>1, <2>1 DEF Saves, SaveBeforePackets, Receiving
<1>8. StatusInv'
  BY <1>1 DEF Saves, StatusInv
<1>9. SavingInv'
  <2> SUFFICES ASSUME phase = "dfu", m_dfu_state = "WAIT_4_ACTIVATE"
               PROVE  SavingInv'
    BY <1>1 DEF SavingInv
  <2>1. ~(progress = 1 /\ BankStore(c))
    BY <1>4 DEF BankStore
  <2>2. ~NothingToDo
    BY <1>2, <2>1 DEF NothingToDo
  <2>3. /\ SaveQueued /\ m_update_status # "COMPLETE"
        /\ ota => link \notin {"up", "down"}
    BY <2>2 DEF Saves, SavingInv
  <2>4. ASSUME Len(pending) = 1
        PROVE  flash'[Settings] = Saved(settings)
    <3>1. c = Store(Settings, Saved(settings))
      BY <2>3, <2>4 DEF SaveQueued
    <3>2. c.addr = Settings /\ c.data = Saved(settings) /\ StoresSettings(c)
      BY <3>1, CommandForms
    <3>3. flash[Settings] = Fifo!Erased
      BY <1>2, <1>4, <3>2 DEF Saves, ErasedFirst
    <3> QED
      BY <1>3, <1>5, <3>2, <3>3 DEF Fifo!Programmed
  <2>5. SaveQueued'
    <3>1. Len(pending) # 3
      BY <2>1, <2>3 DEF SaveQueued
    <3> QED
      BY <1>1, <2>3, <2>4, <3>1 DEF SaveQueued, Saved
  <2> QED
    BY <1>1, <2>3, <2>5 DEF SavingInv
<1> QED
  BY <1>6, <1>7, <1>8, <1>9 DEF Saves

\* The bank is clear, and the first save queued.
LEMMA BankClearedSaves ==
  ASSUME IInv, Saves, phase = "dfu", m_dfu_state = "PREPARING", pending # <<>>,
         progress = Head(pending).rounds, BankCleared, progress' = 0,
         UNCHANGED <<flash, phase, ota, link>>
  PROVE  Saves'
<1>1. /\ pending = <<Prepare(m_start_packet)>>
      /\ \A k \in Bank : k < progress => flash[k] = Fifo!Erased
      /\ Size(m_start_packet) \in Nat /\ Size(m_start_packet) > 0
  BY ImageFields DEF IInv, PreparingInv, AnnouncedInv
<1>2. flash[0] = Fifo!Erased
  BY <1>1, CommandForms, Pages
<1> DEFINE new == Store(Settings, Saved(Bank0Erased))
<1>3. /\ pending' = <<Clear(Settings, 1), new>> /\ m_dfu_state' = "RDY"
      /\ m_update_status' = m_update_status
  <2>1. Tail(pending) = <<>> /\ Bank0Erased \in Record
    BY <1>1, RecordsToSave DEF IInv
  <2> QED
    BY <2>1, SaveAlone DEF BankCleared
<1> HIDE DEF new
<1>4. /\ Len(pending') = 2 /\ pending'[1] = Clear(Settings, 1)
      /\ pending'[2] = new
  BY <1>3
<1>5. ErasedFirst'
  BY <1>4, CommandForms DEF ErasedFirst
<1> QED
  BY <1>2, <1>3, <1>5 DEF Saves, SaveBeforePackets, StatusInv, SavingInv

LEMMA CommandFinishedSaves ==
  ASSUME IInv, Saves, CommandFinished
  PROVE  Saves'
<1> DEFINE c == pending[1]
<1>0. TypeOK
  BY DEF IInv
<1>1. /\ pending # <<>> /\ progress = Head(pending).rounds /\ progress' = 0
      /\ UNCHANGED <<flash, phase, ota, link>>
  BY DEF CommandFinished, mainVars
<1>2. /\ Head(pending) = c /\ c \in Command /\ progress \in Nat
      /\ 1 \in 1 .. Len(pending) /\ Len(pending) \in Nat
  BY <1>0, <1>1, HeadOfQueue
<1>3. phase \in {"finalize", "dfu"} /\ m_dfu_state # "IDLE"
  BY <1>0, <1>1, States DEF IInv, PhaseInv, IdleInv
<1>4. CASE m_dfu_state = "PREPARING"
  <2>1. phase = "dfu"
    BY <1>3, <1>4 DEF IInv, PhaseInv
  <2>2. pending = <<Prepare(m_start_packet)>>
    BY <1>4, <2>1 DEF IInv, PreparingInv
  <2>3. Head(pending).op = "clear" /\ Head(pending).addr # Settings
    BY <2>2, CommandForms, Pages
  <2>4. BankCleared
    BY <1>4, <2>3 DEF CommandFinished, StoresSettings
  <2> QED
    BY <1>1, <1>4, <2>1, <2>4, BankClearedSaves
<1>5. CASE m_dfu_state # "PREPARING"
  <2>1. /\ pending' = Tail(pending)
        /\ UNCHANGED <<m_dfu_state, settings>>
        /\ \/ m_update_status' = m_update_status
           \/ /\ StoresSettings(c) /\ m_update_status = "SETTINGS_SAVING"
              /\ m_update_status' = "COMPLETE"
    BY <1>2, <1>5 DEF CommandFinished, SettingsSaved, sessionVars, bootVars
  <2>2. /\ Len(pending') = Len(pending) - 1
        /\ \A n \in 1 .. Len(pending') :
             pending'[n] = pending[n + 1] /\ n + 1 \in 1 .. Len(pending)
    BY <1>0, <1>1, <2>1, TailOfQueue DEF TypeOK, FlashType
  <2>3. ErasedFirst'
    <3>1. ASSUME NEW n \in 1 .. Len(pending'), StoresSettings(pending'[n])
          PROVE  \/ n > 1 /\ pending'[n - 1] = Clear(Settings, 1)
                 \/ n = 1 /\ flash[Settings] = Fifo!Erased
      <4>1. pending[n] = Clear(Settings, 1)
        <5>1. /\ n + 1 \in 1 .. Len(pending) /\ StoresSettings(pending[n + 1])
              /\ n + 1 > 1 /\ n + 1 # 1 /\ (n + 1) - 1 = n
          BY <2>2, <3>1
        <5> QED
          BY <5>1 DEF Saves, ErasedFirst
      <4>2. CASE n > 1
        <5>1. n - 1 \in 1 .. Len(pending') /\ (n - 1) + 1 = n
          BY <1>2, <2>2, <4>2
        <5> QED
          BY <2>2, <4>1, <4>2, <5>1
      <4>3. CASE n = 1
        <5>1. progress = 1
          BY <1>1, <1>2, <4>1, <4>3, CommandForms
        <5> QED
          BY <1>1, <4>1, <4>3, <5>1 DEF Saves, ErasedFirst
      <4> QED
        BY <4>2, <4>3
    <3> QED
      BY <1>1, <3>1 DEF ErasedFirst
  <2>4. SaveBeforePackets'
    <3> SUFFICES ASSUME phase = "dfu", Receiving, pending' # <<>>,
                        pending'[1].addr = Settings
                 PROVE  flash[0] = Fifo!Erased
      BY <1>1, <2>1 DEF SaveBeforePackets, Receiving
    <3>1. pending' \in Seq(Command)
      BY <1>0, <1>1, <2>1, TailOfQueue DEF TypeOK, FlashType
    <3>2. /\ 2 \in 1 .. Len(pending) /\ pending'[1] = pending[2]
      <4>1. 1 \in 1 .. Len(pending')
        BY <3>1
      <4> QED
        BY <2>2, <4>1
    <3>3. pending[1] = Clear(Settings, 1)
      BY <3>2 DEF IInv, ReceivingInv, BankStore
    <3> QED
      BY <1>1, <3>3, CommandForms DEF Saves, SaveBeforePackets
  <2>5. StatusInv'
    BY <1>1, <1>3, <2>1 DEF Saves, StatusInv
  <2>6. SavingInv'
    <3> SUFFICES ASSUME phase = "dfu", m_dfu_state = "WAIT_4_ACTIVATE"
                 PROVE  SavingInv'
      BY <1>1, <2>1 DEF SavingInv
    <3>1. ASSUME NothingToDo,
                 m_update_status = "COMPLETE" => flash[Settings] = Saved(settings)
          PROVE  SavingInv'
      <4>1. BankStore(c) /\ \A n \in 1 .. Len(pending') : FALSE
        BY <1>2, <2>2, <3>1 DEF NothingToDo
      <4>2. m_update_status' = m_update_status
        BY <2>1, <4>1 DEF BankStore, StoresSettings
      <4> QED
        BY <1>1, <2>1, <3>1, <4>1, <4>2 DEF SavingInv, NothingToDo, Saved
    <3>2. ASSUME SaveQueued, m_update_status # "COMPLETE",
                 ota => link \notin {"up", "down"}
          PROVE  SavingInv'
      <4>1. Len(pending) \in {1, 2, 3}
        BY <3>2 DEF SaveQueued
      <4>2. CASE Len(pending) = 1
        <5>1. c = Store(Settings, Saved(settings))
          BY <3>2, <4>2 DEF SaveQueued
        <5>2. progress = 1
          BY <1>1, <1>2, <5>1, CommandForms
        <5>3. flash[Settings] = Saved(settings) /\ \A n \in 1 .. Len(pending') : FALSE
          BY <2>2, <3>2, <4>2, <5>2 DEF SaveQueued
        <5> QED
          BY <1>1, <2>1, <5>3 DEF SavingInv, NothingToDo, Saved
      <4>3. CASE Len(pending) = 2
        <5>1. /\ c = Clear(Settings, 1)
              /\ pending[2] = Store(Settings, Saved(settings))
          BY <3>2, <4>3 DEF SaveQueued
        <5>2. /\ Len(pending') = 1
              /\ pending'[1] = Store(Settings, Saved(settings))
          BY <2>2, <4>3, <5>1
        <5>3. m_update_status' # "COMPLETE"
          BY <2>1, <3>2, <5>1, CommandForms
        <5>4. SaveQueued'
          <6>1. pending'[Len(pending')] = Store(Settings, Saved(settings'))
            BY <2>1, <5>2
          <6>2. Len(pending') > 1 => pending'[Len(pending') - 1] = Clear(Settings, 1)
            BY <5>2
          <6>3. Len(pending') \in 1 .. 3 /\ Len(pending') # 3 /\ progress' # 1
            BY <1>1, <5>2
          <6> QED
            BY <6>1, <6>2, <6>3, SaveQueuedNext, Zenon
        <5> QED
          BY <1>1, <3>2, <5>3, <5>4 DEF SavingInv
      <4>4. CASE Len(pending) = 3
        <5>1. /\ BankStore(c) /\ pending[2] = Clear(Settings, 1)
              /\ pending[3] = Store(Settings, Saved(settings))
          BY <3>2, <4>4 DEF SaveQueued
        <5>2. /\ Len(pending') = 2 /\ pending'[1] = Clear(Settings, 1)
              /\ pending'[2] = Store(Settings, Saved(settings))
          BY <2>2, <4>4, <5>1
        <5>3. m_update_status' # "COMPLETE"
          BY <2>1, <3>2, <5>1 DEF BankStore, StoresSettings
        <5>4. SaveQueued'
          <6>1. pending'[Len(pending')] = Store(Settings, Saved(settings'))
            BY <2>1, <5>2
          <6>2. Len(pending') > 1 => pending'[Len(pending') - 1] = Clear(Settings, 1)
            BY <5>2
          <6>3. Len(pending') \in 1 .. 3 /\ Len(pending') # 3 /\ progress' # 1
            BY <1>1, <5>2
          <6> QED
            BY <6>1, <6>2, <6>3, SaveQueuedNext, Zenon
        <5> QED
          BY <1>1, <3>2, <5>3, <5>4 DEF SavingInv
      <4> QED
        BY <4>1, <4>2, <4>3, <4>4
    <3> QED
      BY <3>1, <3>2 DEF Saves, SavingInv
  <2> QED
    BY <2>3, <2>4, <2>5, <2>6 DEF Saves
<1> QED
  BY <1>4, <1>5

-----------------------------------------------------------------------------
(* A packet of the session. *)

\* No session in which packets come in has completed yet.
LEMMA PeerStatus ==
  ASSUME StatusInv, phase = "dfu", m_dfu_state # "WAIT_4_ACTIVATE", BlePeer
  PROVE  m_update_status \notin {"COMPLETE", "SETTINGS_SAVING"}
BY DEF StatusInv, BlePeer

LEMMA PacketSaves ==
  ASSUME IInv, Saves, TypeOK', phase = "dfu", BlePeer \/ ~ota,
         UNCHANGED <<phase, ota, link, m_update_status, settings>>,
         \/ UNCHANGED <<pending, progress, flash>>
         \/ Grows /\ m_dfu_state # "WAIT_4_ACTIVATE",
         Receiving' => Receiving,
         m_dfu_state' = "WAIT_4_ACTIVATE" <=> m_dfu_state = "WAIT_4_ACTIVATE"
  PROVE  Saves'
<1>1. CASE m_dfu_state # "WAIT_4_ACTIVATE"
  <2>1. ota => m_update_status # "COMPLETE"
    BY <1>1, PeerStatus DEF Saves
  <2>2. StatusInv'
    BY <1>1, <2>1 DEF Saves, StatusInv
  <2> QED
    BY <1>1, <2>1, <2>2, GrownSaves, SameSaves
<1>2. CASE m_dfu_state = "WAIT_4_ACTIVATE"
  <2>1. StatusInv'
    BY <1>2 DEF Saves, StatusInv
  <2> QED
    BY <1>2, <2>1, SameSaves
<1> QED
  BY <1>1, <1>2

LEMMA StartPacketGrows ==
  ASSUME IInv, phase = "dfu", m_dfu_state = "IDLE", NEW i, StartPacket(i)
  PROVE  Grows \/ UNCHANGED <<pending, progress, flash>>
<1>1. CASE ~StartFails(i)
  <2>1. /\ pending' = Append(<<>>, Prepare(i)) /\ pending = <<>>
        /\ UNCHANGED <<progress, flash>>
    BY <1>1 DEF StartPacket, IInv, IdleInv
  <2> DEFINE c == Prepare(i)
  <2>2. ~StoresSettings(c) /\ c.addr # Settings
    BY CommandForms, Pages DEF StoresSettings
  <2> HIDE DEF c
  <2>3. Len(pending') = 1 /\ pending'[1] = c /\ Len(pending) = 0
    BY <2>1 DEF c
  <2> QED
    BY <2>1, <2>2, <2>3 DEF Grows
<1>2. CASE StartFails(i)
  BY <1>2 DEF StartPacket
<1> QED
  BY <1>1, <1>2

LEMMA OtaWriteGrows ==
  ASSUME IInv, NEW i \in HostImages, m_dfu_state = "RX_DATA_PKT",
         ~(Received(Word) > m_image_size), OtaWrite(i), UNCHANGED <<progress, flash>>
  PROVE  Grows \/ UNCHANGED <<pending, progress, flash>>
<1> DEFINE k == m_data_received \div Word
           c == Store(k, Fifo!Stored(Chunk(i, k)))
<1>1. CASE m_data_received % Word = 0
  <2>1. k \in Bank /\ TypeOK
    BY <1>1, AcceptedPacket DEF IInv, TypeOK
  <2>2. c.addr = k /\ k # Settings /\ c \in Command
    BY <2>1, CommandForms, Pages, ClearAndStore DEF BankContent
  <2>3. pending' = Append(pending, c) /\ pending \in Seq(Command)
    BY <1>1, <2>1 DEF OtaWrite, TypeOK, FlashType
  <2> HIDE DEF c, k
  <2>4. /\ Len(pending') = Len(pending) + 1 /\ Len(pending) \in Nat
        /\ \A n \in 1 .. Len(pending) : pending'[n] = pending[n]
        /\ pending'[Len(pending) + 1] = c
    BY <2>2, <2>3
  <2>5. \A n \in 1 .. Len(pending') : n > Len(pending) => n = Len(pending) + 1
    BY <2>4
  <2>6. ~StoresSettings(c) /\ c.addr # Settings
    BY <2>2 DEF StoresSettings
  <2>7. Len(pending') \in Nat /\ Len(pending') >= Len(pending) /\ Len(pending') >= 1
    BY <2>4
  <2> QED
    BY <2>4, <2>5, <2>6, <2>7 DEF Grows
<1>2. CASE m_data_received % Word # 0
  BY <1>2 DEF OtaWrite
<1> QED
  BY <1>1, <1>2

LEMMA SerialWriteGrows ==
  ASSUME IInv, TypeOK', NEW i \in HostImages, m_dfu_state = "RX_DATA_PKT",
         pending = <<>>, ~(Received(Word) > m_image_size), SerialWrite(i),
         UNCHANGED <<progress, flash>>
  PROVE  Grows
<1>1. \A n \in 1 .. Len(pending') : BankStore(pending'[n])
  BY SerialCommands
<1>2. /\ Len(pending) = 0 /\ Len(pending') \in Nat
      /\ pending' # <<>> => Len(pending') >= 1
  BY QueueFormNext
<1> QED
  BY <1>1, <1>2 DEF Grows, BankStore, StoresSettings

LEMMA DataPacketGrows ==
  ASSUME IInv, TypeOK', NEW i \in HostImages, ota \/ pending = <<>>, DataPacket(i)
  PROVE  \/ Grows /\ m_dfu_state # "WAIT_4_ACTIVATE"
         \/ UNCHANGED <<pending, progress, flash>>
<1>1. UNCHANGED <<progress, flash>>
  BY DEF DataPacket
<1>2. CASE pending' = pending
  BY <1>1, <1>2
<1>3. CASE m_dfu_state = "RX_DATA_PKT" /\ ~(Received(Word) > m_image_size)
           /\ ota /\ OtaWrite(i)
  BY <1>1, <1>3, OtaWriteGrows
<1>4. CASE m_dfu_state = "RX_DATA_PKT" /\ ~(Received(Word) > m_image_size)
           /\ ~ota /\ SerialWrite(i)
  BY <1>1, <1>4, SerialWriteGrows
<1> QED
  BY <1>2, <1>3, <1>4, Zenon DEF DataPacket

\* When the image has been validated, all that is left in the queue is a store that
\* has been carried out.
LEMMA ValidatedLeavesNothing ==
  ASSUME IInv, Saves, phase = "dfu", ota \/ pending = <<>>,
         m_dfu_state = "RX_DATA_PKT", PostValidate
  PROVE  NothingToDo
<1>1. /\ m_start_packet \in Images /\ Holds(m_start_packet) /\ TypeOK
  BY DEF IInv, ReceivingInv, Receiving, AnnouncedInv, PostValidate
<1>2. \A k \in Bank : k < Size(m_start_packet) => flash[k] # Fifo!Erased
  <2>1. ASSUME NEW k \in Bank, k < Size(m_start_packet)
        PROVE  flash[k] = Fifo!Stored(Chunk(m_start_packet, k))
    BY <1>1, <2>1, ImageFields DEF Holds, Bank
  <2> QED
    BY <2>1, Kinds2
<1>3. flash[0] # Fifo!Erased
  BY <1>1, <1>2, ImageFields, Pages
<1>4. pending # <<>> => pending[1].addr # Settings
  BY <1>3 DEF Saves, SaveBeforePackets, Receiving
<1>5. ASSUME NEW n \in 1 .. Len(pending)
      PROVE  n = 1 /\ progress = 1 /\ BankStore(pending[1])
  <2>1. /\ pending # <<>> /\ ota
    BY <1>1 DEF TypeOK, FlashType
  <2>2. pending[1] # Clear(Settings, 1) /\ ~HarmlessStore(pending[1])
    BY <1>4, <2>1, CommandForms DEF HarmlessStore
  <2>3. BankStore(pending[n])
    BY <2>2 DEF IInv, ReceivingInv, Receiving
  <2>4. ~Unprogrammed(n)
    BY <1>2, <2>1, <2>3 DEF IInv, StreamInv, Receiving
  <2> QED
    BY <2>3, <2>4 DEF Unprogrammed
<1> QED
  BY <1>5 DEF NothingToDo

\* dfu_image_activate.
LEMMA ActivateSaves ==
  ASSUME IInv, Saves, TypeOK', phase = "dfu", m_dfu_state \notin {"off", "IDLE"},
         NothingToDo, ImageActivate, m_dfu_state' = "WAIT_4_ACTIVATE",
         UNCHANGED <<phase, ota>>, ota => link' \notin {"up", "down"}
  PROVE  Saves'
<1>1. Activated \in Record /\ pending \in Seq(Command) /\ Len(pending) \in Nat
  BY RecordsToSave DEF IInv, TypeOK, SessionType, FlashType
<1>2. /\ pending' = SettingsSave(pending, Activated) /\ settings' = Activated
      /\ m_update_status' = "SETTINGS_SAVING" /\ UNCHANGED <<progress, flash>>
  BY DEF ImageActivate
<1> DEFINE new == Store(Settings, Saved(Activated))
<1>3. /\ Len(pending') = Len(pending) + 2
      /\ \A n \in 1 .. Len(pending) :
           pending'[n] = IF StoresSettings(pending[n]) THEN new ELSE pending[n]
      /\ pending'[Len(pending) + 1] = Clear(Settings, 1)
      /\ pending'[Len(pending) + 2] = new
  <2> DEFINE saved == SettingsSave(pending, Activated)
  <2>1. /\ Len(saved) = Len(pending) + 2
        /\ \A n \in 1 .. Len(pending) :
             saved[n] = IF StoresSettings(pending[n]) THEN new ELSE pending[n]
        /\ saved[Len(pending) + 1] = Clear(Settings, 1)
        /\ saved[Len(pending) + 2] = new
    BY <1>1, SaveForm
  <2>2. pending' = saved
    BY <1>2
  <2> HIDE DEF saved
  <2> QED
    BY <2>1, <2>2
<1>4. new = Store(Settings, Saved(settings'))
  BY <1>2
<1> HIDE DEF new
<1>5. Len(pending) \in {0, 1}
  <2>1. Len(pending) >= 1 => Len(pending) \in 1 .. Len(pending)
    BY <1>1
  <2>2. \A n \in 1 .. Len(pending) : n = 1
    BY DEF NothingToDo
  <2>3. Len(pending) >= 1 => Len(pending) = 1
    BY <2>1, <2>2, Zenon
  <2> QED
    BY <1>1, <2>3
<1>6. CASE Len(pending) = 0
  <2>1. /\ Len(pending') = 2 /\ pending'[1] = Clear(Settings, 1)
        /\ pending'[2] = Store(Settings, Saved(settings'))
    BY <1>3, <1>4, <1>6
  <2>2. progress' = 0
    BY <1>1, <1>2, <1>6 DEF Saves, ErasedFirst
  <2>3. SaveQueued'
    <3>1. /\ Len(pending') \in 1 .. 3 /\ Len(pending') # 3 /\ Len(pending') # 1
          /\ pending'[Len(pending')] = Store(Settings, Saved(settings'))
          /\ pending'[Len(pending') - 1] = Clear(Settings, 1)
      BY <2>1
    <3> QED
      BY <3>1, SaveQueuedNext, Zenon
  <2>4. ErasedFirst'
    BY <2>1, <2>2, CommandForms DEF ErasedFirst
  <2> QED
    BY <1>2, <2>3, <2>4 DEF Saves, SaveBeforePackets, StatusInv, SavingInv,
       Receiving
<1>7. CASE Len(pending) = 1
  <2>1. 1 \in 1 .. Len(pending) /\ BankStore(pending[1]) /\ progress' = 1
    BY <1>2, <1>7 DEF NothingToDo
  <2>2. ~StoresSettings(pending[1]) /\ pending[1] # Clear(Settings, 1)
    BY <2>1, CommandForms DEF BankStore, StoresSettings
  <2>3. /\ Len(pending') = 3 /\ pending'[1] = pending[1]
        /\ pending'[2] = Clear(Settings, 1)
        /\ pending'[3] = Store(Settings, Saved(settings'))
    BY <1>3, <1>4, <1>7, <2>1, <2>2
  <2>4. SaveQueued'
    <3>1. /\ Len(pending') \in 1 .. 3 /\ Len(pending') # 1
          /\ progress' = 1 /\ BankStore(pending'[1])
          /\ pending'[Len(pending')] = Store(Settings, Saved(settings'))
          /\ pending'[Len(pending') - 1] = Clear(Settings, 1)
      BY <2>1, <2>3
    <3> QED
      BY <3>1, SaveQueuedNext, Zenon
  <2>5. ErasedFirst'
    <3>1. ASSUME NEW n \in 1 .. Len(pending'), StoresSettings(pending'[n])
          PROVE  n > 1 /\ pending'[n - 1] = Clear(Settings, 1)
      <4>1. n \in {1, 2, 3}
        BY <2>3
      <4>2. n # 1 /\ n # 2
        BY <2>2, <2>3, <3>1, CommandForms
      <4> QED
        BY <2>3, <4>1, <4>2
    <3>2. pending' # <<>> /\ pending'[1] # Clear(Settings, 1)
      BY <2>2, <2>3
    <3> QED
      BY <3>1, <3>2 DEF ErasedFirst
  <2> QED
    BY <1>2, <2>4, <2>5 DEF Saves, SaveBeforePackets, StatusInv, SavingInv,
       Receiving
<1> QED
  BY <1>5, <1>6, <1>7

-----------------------------------------------------------------------------
(* What a step does to the queue. *)

QueueStep ==
  \/ UNCHANGED <<pending, progress, flash>>
  \/ pending' = <<>> /\ progress' = 0
  \/ Program
  \/ CommandFinished
  \/ Grows
  \/ NothingToDo /\ UNCHANGED <<progress, flash>>

LEMMA ResetStep ==
  ASSUME Restarts
  PROVE  Saves' /\ QueueStep
BY RestartSaves DEF Restarts, QueueStep

LEMMA SystemResetStep ==
  ASSUME NEW magic, SystemReset(magic)
  PROVE  Saves' /\ QueueStep
BY Restart, ResetStep DEF SystemReset

LEMMA BlePacketStep ==
  ASSUME IInv, Saves, TypeOK', NEW i \in HostImages, StartsAgain = FALSE,
         BleStart(i) \/ BleInit(i) \/ BleData(i)
  PROVE  Saves' /\ QueueStep
<1>1. /\ phase = "dfu" /\ ota /\ BlePeer
      /\ UNCHANGED <<phase, ota, link, m_update_status, settings>>
  BY DEF BleStart, BleInit, BleData, BlePeer, Listening, bootVars, mainVars
<1>2. CASE BleStart(i)
  <2>1. m_dfu_state = "IDLE" /\ StartPacket(i)
    BY <1>2 DEF BleStart
  <2>2. Grows \/ UNCHANGED <<pending, progress, flash>>
    BY <1>1, <2>1, StartPacketGrows
  <2>3. m_dfu_state' \in {"IDLE", "PREPARING"}
    BY <2>1 DEF StartPacket
  <2> QED
    BY <1>1, <2>1, <2>2, <2>3, PacketSaves DEF QueueStep, Receiving
<1>3. CASE BleInit(i)
  <2>1. UNCHANGED <<pending, progress, flash>>
    BY <1>3 DEF BleInit, InitPacket, flashVars
  <2>2. /\ Receiving' => Receiving
        /\ m_dfu_state' = "WAIT_4_ACTIVATE" <=> m_dfu_state = "WAIT_4_ACTIVATE"
    BY <1>3 DEF BleInit, InitPacket, Receiving
  <2> QED
    BY <1>1, <2>1, <2>2, PacketSaves DEF QueueStep
<1>4. CASE BleData(i)
  <2>1. \/ Grows /\ m_dfu_state # "WAIT_4_ACTIVATE"
        \/ UNCHANGED <<pending, progress, flash>>
    BY <1>1, <1>4, DataPacketGrows DEF BleData
  <2>2. m_dfu_state' = m_dfu_state
    BY <1>4 DEF BleData, DataPacket
  <2> QED
    BY <1>1, <2>1, <2>2, PacketSaves DEF QueueStep, Receiving
<1> QED
  BY <1>2, <1>3, <1>4

\* dfu_image_validate without an activation behind it.
LEMMA ImageValidateStep ==
  ASSUME IInv, Saves, TypeOK', phase = "dfu", ImageValidate,
         (BlePeer /\ ota) \/ (~ota /\ pending = <<>> /\ Validated # "WAIT_4_ACTIVATE"),
         UNCHANGED <<bootVars, mainVars>>
  PROVE  Saves' /\ QueueStep
<1>1. /\ UNCHANGED <<pending, progress, flash, phase, ota, link,
                     m_update_status, settings>>
      /\ m_dfu_state' = Validated
  BY DEF ImageValidate, flashVars, bootVars, mainVars
<1>2. QueueStep
  BY <1>1 DEF QueueStep
<1>3. CASE Validated = m_dfu_state
  BY <1>1, <1>2, <1>3, PacketSaves DEF Receiving
<1>4. CASE m_dfu_state = "RX_DATA_PKT" /\ Validated = "VALIDATE"
  BY <1>1, <1>2, <1>4, PacketSaves DEF Receiving
<1>5. CASE m_dfu_state = "RX_DATA_PKT" /\ Validated = "WAIT_4_ACTIVATE"
  <2>1. ota /\ BlePeer /\ PostValidate
    BY <1>5 DEF Validated
  <2>2. NothingToDo
    BY <1>5, <2>1, ValidatedLeavesNothing
  <2>3. m_update_status # "COMPLETE"
    BY <1>5, <2>1, PeerStatus DEF Saves
  <2>4. SavingInv'
    <3>1. NothingToDo'
      BY <1>1, <2>2 DEF NothingToDo
    <3> QED
      BY <1>1, <2>3, <3>1 DEF SavingInv
  <2>5. ErasedFirst' /\ SaveBeforePackets' /\ StatusInv'
    BY <1>1, <1>5 DEF Saves, ErasedFirst, SaveBeforePackets, StatusInv, Receiving
  <2> QED
    BY <1>2, <2>4, <2>5 DEF Saves
<1> QED
  BY <1>3, <1>4, <1>5 DEF Validated

LEMMA BleRequestStep ==
  ASSUME IInv, Saves, TypeOK', NEW verdict \in BOOLEAN,
         BleInitComplete(verdict) \/ BleValidate
  PROVE  Saves' /\ QueueStep
<1>1. phase = "dfu" /\ ota /\ BlePeer /\ UNCHANGED <<bootVars, mainVars>>
  BY DEF BleInitComplete, BleValidate, BlePeer, Listening
<1>2. CASE BleInitComplete(verdict)
  <2>1. /\ UNCHANGED <<pending, progress, flash>>
        /\ Receiving' => Receiving
        /\ m_dfu_state' = "WAIT_4_ACTIVATE" <=> m_dfu_state = "WAIT_4_ACTIVATE"
    BY <1>2 DEF BleInitComplete, InitComplete, flashVars, Receiving
  <2> QED
    BY <1>1, <2>1, PacketSaves DEF QueueStep, bootVars, mainVars
<1>3. CASE BleValidate
  <2>1. BlePeer /\ ImageValidate /\ UNCHANGED <<bootVars, mainVars>>
    BY <1>3 DEF BleValidate
  <2> HIDE DEF BleValidate, BlePeer
  <2> QED
    BY <1>1, <2>1, ImageValidateStep
<1> QED
  BY <1>2, <1>3

\* The link is being closed, and the session ends or its settings are saved.
LEMMA BleEndStep ==
  ASSUME IInv, Saves, TypeOK', BleActivate \/ BleReset
  PROVE  Saves' /\ QueueStep
<1>1. /\ phase = "dfu" /\ ota /\ BlePeer /\ link \in {"up", "closing"}
  BY DEF BleActivate, BleReset, BlePeer, Listening
<1>2. CASE SystemReset(gpregret)
  BY <1>2, SystemResetStep
<1>3. ASSUME BleClose, DfuReset
      PROVE  Saves' /\ QueueStep
  <2>1. /\ UNCHANGED <<pending, progress, flash, settings, m_dfu_state, phase, ota>>
        /\ m_update_status' \in {"SYS_RESET", "RESET_TO_SELF"}
        /\ link' \notin {"up", "down"}
    BY <1>3 DEF BleClose, DfuReset, flashVars, sessionVars
  <2>2. StatusInv'
    BY <1>1, <2>1 DEF StatusInv
  <2> QED
    BY <1>1, <2>1, <2>2, SameSaves DEF QueueStep, Receiving
<1>4. ASSUME BleClose, m_dfu_state = "WAIT_4_ACTIVATE", ImageActivate,
             UNCHANGED sessionVars
      PROVE  Saves' /\ QueueStep
  <2>1. /\ link = "up" /\ link' \notin {"up", "down"} /\ UNCHANGED <<phase, ota>>
        /\ m_dfu_state' = "WAIT_4_ACTIVATE" /\ UNCHANGED <<progress, flash>>
    BY <1>1, <1>4 DEF BleClose, BleCloseFails, sessionVars, ImageActivate
  <2>2. NothingToDo
    BY <1>1, <1>4, <2>1 DEF Saves, SavingInv
  <2> QED
    BY <1>1, <1>4, <2>1, <2>2, ActivateSaves DEF QueueStep
<1> QED
  BY <1>2, <1>3, <1>4 DEF BleActivate, BleReset

LEMMA SerialPacketStep ==
  ASSUME IInv, Saves, TypeOK', NEW i \in HostImages, NEW verdict \in BOOLEAN,
         SerialStart(i) \/ SerialInit(i, verdict) \/ SerialData(i)
  PROVE  Saves' /\ QueueStep
<1>1. phase = "dfu" /\ ~ota /\ pending = <<>>
  BY DEF SerialStart, SerialInit, SerialData, SerialHost, Listening
<1>2. CASE SystemReset(gpregret)
  BY <1>2, SystemResetStep
<1>3. CASE SerialStart(i) /\ ~SystemReset(gpregret)
  <2>1. /\ m_dfu_state = "IDLE" /\ StartPacket(i)
        /\ UNCHANGED <<phase, ota, link, m_update_status, settings>>
    BY <1>3 DEF SerialStart, StartFails, bootVars, mainVars
  <2>2. Grows \/ UNCHANGED <<pending, progress, flash>>
    BY <1>1, <2>1, StartPacketGrows
  <2>3. m_dfu_state' \in {"IDLE", "PREPARING"}
    BY <2>1 DEF StartPacket
  <2> QED
    BY <1>1, <2>1, <2>2, <2>3, PacketSaves DEF QueueStep, Receiving
<1>4. CASE SerialInit(i, verdict) /\ ~SystemReset(gpregret)
  <2>1. /\ m_dfu_state \in {"RDY", "RX_INIT_PKT"} /\ m_dfu_state' = "RX_DATA_PKT"
        /\ UNCHANGED <<pending, progress, flash, phase, ota, link,
                       m_update_status, settings>>
    BY <1>4 DEF SerialInit, flashVars, bootVars, mainVars
  <2> QED
    BY <1>1, <2>1, PacketSaves DEF QueueStep, Receiving
<1>5. CASE SerialData(i)
  <2>1. /\ DataPacket(i) /\ UNCHANGED <<phase, ota, link, m_update_status, settings>>
        /\ m_dfu_state' = m_dfu_state
    BY <1>5 DEF SerialData, DataPacket, bootVars, mainVars
  <2>2. \/ Grows /\ m_dfu_state # "WAIT_4_ACTIVATE"
        \/ UNCHANGED <<pending, progress, flash>>
    BY <1>1, <2>1, DataPacketGrows
  <2> QED
    BY <1>1, <2>1, <2>2, PacketSaves DEF QueueStep, Receiving
<1> QED
  BY <1>2, <1>3, <1>4, <1>5

LEMMA SerialStopStep ==
  ASSUME IInv, Saves, TypeOK', SerialStop
  PROVE  Saves' /\ QueueStep
<1>1. phase = "dfu" /\ ~ota /\ pending = <<>>
  BY DEF SerialStop, SerialHost, Listening
<1>2. CASE Validated = "WAIT_4_ACTIVATE"
  <2>1. /\ ImageActivate /\ m_dfu_state' = "WAIT_4_ACTIVATE"
        /\ UNCHANGED <<phase, ota, progress, flash>>
    BY <1>2 DEF SerialStop, ImageActivate, mainVars
  <2>2. m_dfu_state \notin {"off", "IDLE"} /\ NothingToDo
    BY <1>1, <1>2 DEF Validated, NothingToDo
  <2> QED
    BY <1>1, <2>1, <2>2, ActivateSaves DEF QueueStep
<1>3. CASE Validated # "WAIT_4_ACTIVATE"
  BY <1>1, <1>3, ImageValidateStep DEF SerialStop
<1> QED
  BY <1>2, <1>3

-----------------------------------------------------------------------------
(* The other steps. *)

LEMMA LinkAndTimerStep ==
  ASSUME IInv, Saves, TypeOK', Connect \/ Disconnect \/ TimerExpires \/ Timeout
  PROVE  Saves' /\ QueueStep
<1>1. CASE Connect \/ Disconnect \/ TimerExpires
  <2>1. UNCHANGED <<pending, progress, flash, settings, m_dfu_state, phase, ota,
                    m_update_status>>
    BY <1>1 DEF Connect, Disconnect, TimerExpires, flashVars, sessionVars,
       bootVars, mainVars
  <2>2. \/ link' = link
        \/ /\ phase = "dfu" /\ link = "down" /\ link' = "up"
           /\ m_update_status \notin Final
        \/ phase = "dfu" /\ link = "up" /\ link' = "down"
        \/ phase = "dfu" /\ link = "closing" /\ link' = "closed"
    BY <1>1 DEF Connect, Disconnect, TimerExpires, mainVars
  <2>3. StatusInv'
    BY <2>1, <2>2 DEF Saves, StatusInv, Final
  <2> QED
    BY <2>1, <2>2, <2>3, SameSaves DEF QueueStep, Receiving
<1>2. CASE Timeout /\ SystemReset(gpregret)
  BY <1>2, SystemResetStep
<1>3. CASE Timeout /\ ~SystemReset(gpregret)
  <2>1. /\ phase = "dfu" /\ m_update_status' = "TIMEOUT"
        /\ UNCHANGED <<pending, progress, flash, settings, m_dfu_state, phase, ota>>
        /\ ota => link' \notin {"up", "down"}
    BY <1>3 DEF Timeout, Listening, BleClose, BleCloseFails, flashVars,
       sessionVars, mainVars
  <2>2. StatusInv'
    BY <2>1 DEF StatusInv
  <2> QED
    BY <2>1, <2>2, SameSaves DEF QueueStep, Receiving
<1> QED
  BY <1>1, <1>2, <1>3

LEMMA BootStep ==
  ASSUME IInv, Saves, TypeOK', NEW forced \in BOOLEAN,
         ContinueSdUpdate \/ NoSdUpdate \/ CheckDfuMode(forced)
  PROVE  Saves' /\ QueueStep
<1>1. CASE ContinueSdUpdate
  <2>1. /\ phase = "boot" /\ phase' = "finalize"
        /\ pending' = SettingsSave(pending, SdSwapped)
        /\ UNCHANGED <<progress, flash, ota, link>>
    BY <1>1 DEF ContinueSdUpdate
  <2>2. pending = <<>> /\ progress = 0 /\ SdSwapped \in Record
    BY <2>1, RecordsToSave DEF IInv, PhaseInv
  <2> DEFINE new == Store(Settings, Saved(SdSwapped))
  <2>3. pending' = <<Clear(Settings, 1), new>>
    BY <2>1, <2>2, SaveAlone
  <2> HIDE DEF new
  <2>4. /\ Len(pending') = 2 /\ pending'[1] = Clear(Settings, 1)
        /\ pending'[2] = new /\ progress' = 0
    BY <2>1, <2>2, <2>3
  <2>5. ErasedFirst'
    BY <2>4, CommandForms DEF ErasedFirst
  <2>6. SaveBeforePackets' /\ StatusInv' /\ SavingInv'
    BY <2>1 DEF Saves, SaveBeforePackets, StatusInv, SavingInv
  <2>7. QueueStep
    BY <2>1, <2>2 DEF QueueStep, NothingToDo
  <2> QED
    BY <2>5, <2>6, <2>7 DEF Saves
<1>2. CASE NoSdUpdate
  <2>1. /\ phase \in {"boot", "finalize"} /\ phase' = "mode"
        /\ UNCHANGED <<pending, progress, flash, ota, link, m_update_status>>
        /\ phase = "finalize" => m_update_status = "COMPLETE"
    BY <1>2 DEF NoSdUpdate, flashVars, bootVars
  <2> QED
    BY <2>1 DEF Saves, ErasedFirst, SaveBeforePackets, StatusInv, SavingInv,
       QueueStep
<1>3. CASE CheckDfuMode(forced)
  <2>1. /\ phase = "mode"
        /\ UNCHANGED <<pending, progress, flash, link, m_update_status>>
        /\ \/ phase' = "dfu" /\ m_dfu_state' = "IDLE"
           \/ phase' = "exit"
    BY <1>3 DEF CheckDfuMode, flashVars, bootVars
  <2> QED
    BY <2>1 DEF Saves, ErasedFirst, SaveBeforePackets, StatusInv, SavingInv,
       QueueStep, Receiving
<1> QED
  BY <1>1, <1>2, <1>3

LEMMA ExitStep ==
  ASSUME NEW magic, LeaveDfu \/ StartApp \/ ResetInstead \/ AppResets(magic)
                    \/ PowerFail
  PROVE  Saves' /\ QueueStep
<1>1. CASE LeaveDfu
  <2>1. phase' = "exit" /\ pending' = <<>> /\ progress' = 0
    BY <1>1 DEF LeaveDfu
  <2> QED
    BY <2>1 DEF Saves, ErasedFirst, SaveBeforePackets, StatusInv, SavingInv,
       QueueStep
<1>2. CASE StartApp \/ PowerFail
  BY <1>2, Restart, ResetStep DEF StartApp, PowerFail
<1>3. CASE ResetInstead \/ AppResets(magic)
  <2>1. PICK m : SystemReset(m)
    BY <1>3 DEF ResetInstead, AppResets
  <2> QED
    BY <2>1, SystemResetStep
<1> QED
  BY <1>1, <1>2, <1>3

LEMMA NextSaves ==
  ASSUME StartsAgain = FALSE, SInv, [Next]_vars
  PROVE  SInv' /\ QueueStep
<1>0. IInv /\ Saves /\ IInv' /\ TypeOK'
  BY NextInv DEF SInv, IInv
<1> SUFFICES Saves' /\ QueueStep
  BY <1>0 DEF SInv
<1>1. CASE UNCHANGED vars
  BY <1>1 DEF vars, flashVars, sessionVars, bootVars, mainVars, QueueStep, SInv,
     Saves, ErasedFirst, SaveBeforePackets, StatusInv, SavingInv, SaveQueued,
     NothingToDo, Receiving, Saved
<1>2. CASE Program \/ CommandFinished
  BY <1>0, <1>2, ProgramSaves, CommandFinishedSaves DEF QueueStep
<1>3. ASSUME NEW forced \in BOOLEAN,
             ContinueSdUpdate \/ NoSdUpdate \/ CheckDfuMode(forced)
      PROVE  Saves' /\ QueueStep
  BY <1>0, <1>3, BootStep
<1>4. CASE HostPacket
  <2>1. ASSUME NEW i \in HostImages, BleStart(i) \/ BleInit(i) \/ BleData(i)
        PROVE  Saves' /\ QueueStep
    BY <1>0, <2>1, BlePacketStep
  <2>2. ASSUME NEW i \in HostImages, NEW verdict \in BOOLEAN,
               SerialStart(i) \/ SerialInit(i, verdict) \/ SerialData(i)
        PROVE  Saves' /\ QueueStep
    BY <1>0, <2>2, SerialPacketStep
  <2>3. ASSUME NEW verdict \in BOOLEAN, BleInitComplete(verdict)
        PROVE  Saves' /\ QueueStep
    BY <1>0, <2>3, BleRequestStep
  <2>4. CASE BleValidate
    BY <1>0, <2>4, BleRequestStep
  <2>5. CASE BleActivate \/ BleReset
    BY <1>0, <2>5, BleEndStep
  <2>6. CASE SerialStop
    BY <1>0, <2>6, SerialStopStep
  <2> QED
    BY <1>4, <2>1, <2>2, <2>3, <2>4, <2>5, <2>6 DEF HostPacket
<1>5. CASE Connect \/ Disconnect \/ TimerExpires \/ Timeout
  BY <1>0, <1>5, LinkAndTimerStep
<1>6. ASSUME NEW magic \in Modes \cup {"none"},
             LeaveDfu \/ StartApp \/ ResetInstead \/ AppResets(magic) \/ PowerFail
      PROVE  Saves' /\ QueueStep
  BY <1>6, ExitStep
<1> QED
  BY <1>1, <1>2, <1>3, <1>4, <1>5, <1>6 DEF Next

LEMMA InitSaves == Init => SInv
<1> SUFFICES ASSUME Init PROVE Saves
  BY InitInv DEF SInv
<1>1. /\ pending = <<>> /\ progress = 0 /\ phase = "boot" /\ ota = FALSE
      /\ link = "down" /\ m_update_status = "UPDATING"
  BY DEF Init, SessionInit
<1> QED
  BY <1>1 DEF Saves, ErasedFirst, SaveBeforePackets, StatusInv, SavingInv

\* The invariant holds in every state of every behaviour.
LEMMA SavesInvariant ==
  ASSUME StartsAgain = FALSE
  PROVE  Spec => []SInv
<1>1. SInv /\ [Next]_vars => SInv'
  BY NextSaves
<1> QED
  BY <1>1, InitSaves, PTL DEF Spec

-----------------------------------------------------------------------------
(* What follows from it. *)

\* A session that ends with BOOTLOADER_COMPLETE has the settings it activated in
\* flash: the callback of an earlier save is not taken for that of the last one.
THEOREM CompleteIsSaved ==
  ASSUME StartsAgain = FALSE
  PROVE  Spec => []CompleteMeansSaved
<1>1. SInv => CompleteMeansSaved
  BY DEF SInv, Saves, SavingInv, CompleteMeansSaved
<1> QED
  BY <1>1, SavesInvariant, PTL

\* What is queued stays what it was until it has been carried out: the static buffer
\* of bootloader_dfu_update_process is not written to while a store of it waits.
THEOREM QueuedStays ==
  ASSUME StartsAgain = FALSE
  PROVE  Spec => QueuedStaysQueued
<1> DEFINE Kept ==
      \/ pending' = <<>>
      \/ \A n \in 1 .. Len(pending) :
           \/ Carried(n)
           \/ \E m \in {n - 1, n} \cap (1 .. Len(pending')) :
                pending'[m] = pending[n]
<1>1. ASSUME SInv, [Next]_vars
      PROVE  [Kept]_vars
  <2>1. QueueStep /\ IInv /\ TypeOK
    BY <1>1, NextSaves DEF SInv, IInv
  <2>2. CASE pending' = pending
    <3>1. \A n \in 1 .. Len(pending) :
            n \in {n - 1, n} \cap (1 .. Len(pending')) /\ pending'[n] = pending[n]
      BY <2>2
    <3> QED
      BY <3>1, Zenon
  <2>3. CASE Grows
    <3>1. Len(pending) \in Nat
      BY <2>1, QueueForm
    <3>2. \A n \in 1 .. Len(pending) :
            n \in {n - 1, n} \cap (1 .. Len(pending')) /\ pending'[n] = pending[n]
      BY <2>3, <3>1 DEF Grows
    <3> QED
      BY <3>2, Zenon
  <2>4. CASE NothingToDo
    <3>1. ASSUME NEW n \in 1 .. Len(pending)
          PROVE  Carried(n)
      <4>1. n = 1 /\ progress = 1 /\ BankStore(pending[1])
        BY <2>4 DEF NothingToDo
      <4>2. pending[1] \in Command
        BY <2>1, <4>1, QueueForm
      <4> QED
        BY <4>1, <4>2, BankStoreForm DEF Carried
    <3> QED
      BY <3>1
  <2>5. CASE CommandFinished
    <3>1. pending # <<>> /\ progress = pending[1].rounds
      BY <2>1, <2>5, HeadOfQueue DEF CommandFinished
    <3>2. CASE BankCleared /\ phase = "dfu" /\ m_dfu_state = "PREPARING"
      <4>1. Len(pending) = 1
        BY <2>1, <3>2 DEF IInv, PreparingInv
      <4> QED
        BY <3>1, <4>1 DEF Carried
    <3>3. CASE pending' = Tail(pending)
      <4>1. /\ Len(pending') = Len(pending) - 1 /\ Len(pending) \in Nat
            /\ \A n \in 1 .. Len(pending') : pending'[n] = pending[n + 1]
        BY <2>1, <3>1, <3>3, TailOfQueue DEF TypeOK, FlashType
      <4>2. ASSUME NEW n \in 1 .. Len(pending), n # 1
            PROVE  /\ n - 1 \in {n - 1, n} \cap (1 .. Len(pending'))
                   /\ pending'[n - 1] = pending[n]
        <5>1. n - 1 \in 1 .. Len(pending') /\ (n - 1) + 1 = n
          BY <4>1, <4>2
        <5> QED
          BY <4>1, <5>1
      <4>3. Carried(1)
        BY <3>1 DEF Carried
      <4> QED
        BY <4>2, <4>3, Zenon
    <3>4. m_dfu_state = "PREPARING" => phase = "dfu"
      <4>1. phase \in {"finalize", "dfu"}
        BY <2>1, <3>1, States DEF IInv, PhaseInv
      <4> QED
        BY <2>1, <4>1 DEF IInv, PhaseInv
    <3> QED
      BY <2>5, <3>2, <3>3, <3>4 DEF CommandFinished, SettingsSaved
  <2>6. CASE Program
    <3>1. pending' = pending
      BY <2>6 DEF Program, Fifo!Program
    <3> QED
      BY <2>2, <3>1
  <2>7. QueueStep =>
          \/ pending' = pending \/ pending' = <<>> \/ Program \/ CommandFinished
          \/ Grows \/ NothingToDo
    BY DEF QueueStep
  <2> QED
    BY <2>1, <2>2, <2>3, <2>4, <2>5, <2>6, <2>7
<1>2. SInv /\ [Next]_vars => [Kept]_vars
  BY <1>1
<1>3. Spec => [][Kept]_vars
  BY <1>2, SavesInvariant, PTL DEF Spec
<1> QED
  BY <1>3 DEF QueuedStaysQueued

\* Over the air every store finds its page erased, whatever an earlier session or
\* a loss of power left in the bank.
THEOREM StoresAreClean ==
  ASSUME StartsAgain = FALSE
  PROVE  Spec => StoresHitErased
<1> DEFINE Clean ==
      (ota /\ progress' > progress /\ Head(pending).op = "store")
        => LET page == Head(pending).addr + progress
           IN  flash[page] \in {Fifo!Erased, Head(pending).data}
<1>1. ASSUME SInv, [Next]_vars, ota, progress' > progress,
             Head(pending).op = "store"
      PROVE  flash[Head(pending).addr + progress] = Fifo!Erased
  <2>1. QueueStep /\ IInv /\ Saves /\ TypeOK /\ progress \in Nat
    <3>1. QueueStep
      BY <1>1, NextSaves
    <3>2. IInv /\ Saves /\ TypeOK
      BY <1>1 DEF SInv, IInv
    <3>3. progress \in Nat
      BY <3>2, QueueForm
    <3> QED
      BY <3>1, <3>2, <3>3
  <2>2. Program
    <3>1. ~(progress' = 0) /\ ~(progress' = progress)
      BY <1>1, <2>1
    <3> QED
      BY <2>1, <3>1 DEF QueueStep, CommandFinished, Grows
  <2> DEFINE c == pending[1]
  <2>3. /\ pending # <<>> /\ Head(pending) = c /\ c \in Command
        /\ 1 \in 1 .. Len(pending) /\ progress < c.rounds /\ c.op = "store"
    BY <1>1, <2>1, <2>2, HeadOfQueue DEF Program, Fifo!Program
  <2>4. progress = 0 /\ c.addr + progress = c.addr
    <3>1. c.rounds = 1 /\ c.addr \in Nat
      BY <2>3, Pages DEF Command, Bank, Settings, Below
    <3> QED
      BY <2>1, <2>3, <3>1
  <2>5. CASE StoresSettings(c)
    BY <2>1, <2>3, <2>4, <2>5 DEF Saves, ErasedFirst, StoresSettings
  <2>6. CASE ~StoresSettings(c)
    <3>1. BankStore(c) /\ ~NothingToDo /\ c # Clear(Settings, 1)
      BY <2>3, <2>4, <2>6, BankStoreForm
         DEF BankStore, StoresSettings, NothingToDo
    <3>2. phase = "dfu"
      BY <1>1, <2>1, <2>3, States DEF IInv, PhaseInv, Saves, StatusInv
    <3>3. m_dfu_state \notin {"off", "IDLE"}
      BY <2>1, <2>3, <3>2 DEF IInv, PhaseInv, IdleInv
    <3>4. m_dfu_state # "PREPARING"
      <4>1. c.op # "store" \/ pending # <<Prepare(m_start_packet)>>
        BY CommandForms
      <4> QED
        BY <2>1, <2>3, <3>2, <4>1 DEF IInv, PreparingInv
    <3>5. m_dfu_state # "WAIT_4_ACTIVATE"
      <4> SUFFICES ASSUME m_dfu_state = "WAIT_4_ACTIVATE" PROVE FALSE
        OBVIOUS
      <4>1. SaveQueued /\ progress = 0
        BY <2>1, <2>4, <3>1, <3>2 DEF Saves, SavingInv
      <4>2. Len(pending) \in {1, 2}
        BY <4>1 DEF SaveQueued
      <4>3. c = Store(Settings, Saved(settings)) \/ c = Clear(Settings, 1)
        BY <4>1, <4>2 DEF SaveQueued
      <4> QED
        BY <2>6, <3>1, <4>3, CommandForms
    <3>6. Receiving
      BY <2>1, <3>3, <3>4, <3>5, States
    <3>7. Unprogrammed(1)
      BY <2>4 DEF Unprogrammed
    <3> QED
      BY <1>1, <2>1, <2>3, <2>4, <3>1, <3>2, <3>6, <3>7 DEF IInv, StreamInv
  <2> QED
    BY <2>5, <2>6, <2>3, <2>4
<1>2. SInv /\ [Next]_vars => [Clean]_vars
  BY <1>1
<1>3. Spec => [][Clean]_vars
  BY <1>2, SavesInvariant, PTL DEF Spec
<1> QED
  BY <1>3 DEF StoresHitErased
=============================================================================
