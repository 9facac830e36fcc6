---------------------------- MODULE BootMode_proof ----------------------------
(***************************************************************************)
(* What a reset leads to, for every set of boards and any number of        *)
(* resets: the words that the decision reads were left by the event it     *)
(* puts them down to, though they live in a register, in RAM and in the    *)
(* reset reason, and each is cleared at a place of its own.                *)
(***************************************************************************)
EXTENDS BootMode, TLAPS

Second == [reset |-> "pin", found |-> "delay"]

\* The SoftDevice is initialised as far as the boot knows, and the word of the
\* jump, which alone says that it already was, is gone once it has been read.
Initialised ==
  /\ gpregret = "OTA_APPJUM" => pc = "boot"
  /\ pc \in {"boot", "app"} => mode = NoMode
  /\ pc = "boot" => sd_inits = IF gpregret = "OTA_APPJUM" THEN 1 ELSE 0
  /\ pc = "app" => sd_inits = 1
  /\ pc \notin {"boot", "app"} => sd_inits = IF mode.sd_inited THEN 1 ELSE 0
  /\ pc = "session" /\ mode.ota => mode.sd_inited

\* What is owed to a host over the air is in the register, then in the decision.
Owing ==
  owed => /\ pc = "boot" => gpregret = "OTA_RESET"
          /\ pc = "enter" => mode.dfu_start /\ mode.ota

\* The word of the first press is there during the delay after it, and after the
\* second press until that has been decided on.
Pressed ==
  /\ dbl_reset = "MAGIC" =>
       /\ ~board.nrf52832 /\ resetpin
       /\ pc = "delay" \/ (pc \in {"boot", "enter"} /\ last = Second)
  /\ pc = "delay" => dbl_reset = "MAGIC"
  /\ pc = "startup" => board.nrf52832
  /\ last = Second /\ pc \in {"boot", "startup", "enter"} => dbl_reset = "MAGIC"
  /\ last = Second /\ pc = "boot" => gpregret = "none"
  /\ last = Second /\ pc = "enter" => mode.dfu_start
  /\ mode.double => last = Second

\* The word that tells a session from the application.
Tapped ==
  ~board.nrf52832 /\ ~board.button =>
    /\ pc = "app" => dbl_reset = "none"
    /\ last = [reset |-> "pin", found |-> "app"] /\ pc \in {"boot", "enter"} =>
         /\ dbl_reset # "APP"
         /\ pc = "boot" => gpregret = "none"
         /\ pc = "enter" /\ app.asks => mode.dfu_start
    /\ pc = "session" /\ session.status # "COMPLETE" /\ ~session.rewritten
       /\ app.asks /\ app.valid => dbl_reset = "APP"
    /\ last = [reset |-> "pin", found |-> "session"] /\ pc \in {"boot", "enter"}
       /\ app.asks /\ app.valid =>
         /\ dbl_reset = "APP"
         /\ pc = "boot" => gpregret = "none"
         /\ pc = "enter" => ~mode.dfu_start /\ mode.valid_app

IInv == TypeOK /\ Initialised /\ Owing /\ OtaResumes /\ Pressed /\ Tapped
-----------------------------------------------------------------------------
\* Every step keeps the types.
LEMMA TypeStep == TypeOK /\ [Next]_vars => TypeOK'
<1> SUFFICES ASSUME TypeOK, [Next]_vars PROVE TypeOK'
  OBVIOUS
<1> USE DEF TypeOK, Stops, chip, ghosts, outside
<1>1. CASE FinishSdUpdate
  <2>1. session' \in Session
    BY <1>1 DEF FinishSdUpdate, Session, Ended
  <2> QED
    BY <1>1, <2>1 DEF FinishSdUpdate, SettingsSwapped
<1>2. CASE CheckDfuMode
  <2>1. session' \in Session
    BY <1>2 DEF CheckDfuMode, Session
  <2>2. mode' \in Mode
    BY <1>2, BootAssumption DEF CheckDfuMode, Mode, App
  <2> QED
    BY <1>2, <2>1, <2>2 DEF CheckDfuMode, Magic
<1>3. CASE EnterMode
  <2>1. mode' \in Mode
    BY <1>3 DEF EnterMode, InitsSd, Mode
  <2>2. session' \in Session
    BY <1>3 DEF EnterMode, Mode, Session
  <2> QED
    BY <1>3, <2>1, <2>2 DEF EnterMode, WordForNextReset
<1>4. NoMode \in Mode /\ NoSession \in Session
  BY DEF NoMode, NoSession, Mode, Session
<1>5. CASE Launch
  BY <1>4, <1>5 DEF Launch, WordAtLaunch
<1>6. CASE ResetAgain
  BY <1>4, <1>6 DEF ResetAgain, ResetWord, Magic, Session, Reset
<1>7. CASE LoopExit
  BY <1>7 DEF LoopExit, LeaveTo
<1>8. CASE UnplugSeen
  <2>1. session' \in Session
    BY <1>8 DEF UnplugSeen, Session, Ended
  <2> QED
    BY <1>8, <2>1 DEF UnplugSeen, LeaveTo
<1>9. CASE TimerFires \/ InactivityTimeout
  <2>1. session' \in Session
    BY <1>9 DEF TimerFires, InactivityTimeout, Session, Ended
  <2> QED
    BY <1>9, <2>1 DEF TimerFires, InactivityTimeout
<1>10. CASE Mount \/ Activity \/ OtaConnects
  <2>1. session' \in Session
    BY <1>10 DEF Mount, Activity, OtaConnects, Session
  <2> QED
    BY <1>10, <2>1 DEF Mount, Activity, OtaConnects
<1>11. CASE UpdateErases \/ UpdateWrites
  <2>1. app' \in App
    <3>1. CASE UpdateErases
      BY <3>1 DEF UpdateErases, App
    <3>2. CASE UpdateWrites
      <4>1. PICK valid \in BOOLEAN, asks \in BOOLEAN :
              app' = [valid |-> valid, asks |-> asks]
        BY <3>2 DEF UpdateWrites
      <4> QED
        BY <4>1 DEF App
    <3> QED
      BY <1>11, <3>1, <3>2
  <2>2. session' \in Session
    BY <1>11 DEF UpdateErases, UpdateWrites, Session
  <2> QED
    BY <1>11, <2>1, <2>2 DEF UpdateErases, UpdateWrites
<1>12. CASE UpdateCompletes
  <2>1. session' \in Session
    BY <1>12 DEF UpdateCompletes, Saved, Session, Ended
  <2>2. app' \in App
    <3>1. CASE UNCHANGED app
      BY <3>1
    <3>2. CASE \E asks \in BOOLEAN : app' = [valid |-> TRUE, asks |-> asks]
      BY <3>2 DEF App
    <3> QED
      BY <1>12, <3>1, <3>2 DEF UpdateCompletes
  <2> QED
    BY <1>12, <2>1, <2>2 DEF UpdateCompletes
<1>13. CASE UpdateAborts
  <2>1. session' \in Session
    BY <1>13 DEF UpdateAborts, Session, Ended
  <2> QED
    BY <1>13, <2>1 DEF UpdateAborts
<1>14. CASE AppClearsResetReas \/ Cable
  BY <1>14 DEF AppClearsResetReas, Cable
<1>15. CASE AppJumps
  BY <1>15 DEF AppJumps, Magic, Reset
<1>16. ASSUME NEW r \in {"pin", "power", "app"}, Restart(r)
       PROVE  /\ pc' \in Stops /\ mode' \in Mode /\ session' \in Session
              /\ sd_inits' \in Nat /\ owed' \in BOOLEAN /\ last' \in Reset
              /\ board' \in Boards /\ app' \in App /\ sd_update' \in BOOLEAN
  BY <1>4, <1>16 DEF Restart, Reset
<1>17. CASE AppResets
  BY <1>16, <1>17 DEF AppResets
<1>18. CASE PinReset
  BY <1>16, <1>18, BootAssumption DEF PinReset, Magic
<1>19. CASE PowerLoss
  <2>1. vbus' \in BOOLEAN
    BY <1>19 DEF PowerLoss
  <2> QED
    <3>1. events' \in 0 .. MaxEvents
      BY <1>19, BootAssumption DEF PowerLoss
    <3>2. gpregret' = "none" /\ resetpin' = FALSE /\ dbl_reset' = "none" /\ Restart("power")
      BY <1>19 DEF PowerLoss
    <3> QED
      BY <1>16, <2>1, <3>1, <3>2 DEF Magic
<1>20. CASE UNCHANGED vars
  BY <1>20 DEF vars
<1> QED
  BY <1>1, <1>2, <1>3, <1>5, <1>6, <1>7, <1>8, <1>9, <1>10, <1>11, <1>12, <1>13,
     <1>14, <1>15, <1>17, <1>18, <1>19, <1>20 DEF Next, MainStep

\* The count of initialisations follows the boot.
LEMMA InitialisedStep == TypeOK /\ Initialised /\ [Next]_vars => Initialised'
<1> SUFFICES ASSUME TypeOK /\ Initialised, [Next]_vars PROVE Initialised'
  OBVIOUS
<1> USE DEF Initialised, TypeOK, Stops, Magic, Mode, chip, ghosts
<1>1. CASE FinishSdUpdate
  BY <1>1 DEF FinishSdUpdate, SettingsSwapped
<1>2. CASE CheckDfuMode
  <2>1. pc = "boot" /\ pc' \in {"startup", "delay", "enter", "launch"}
    BY <1>2 DEF CheckDfuMode
  <2>2. mode'.sd_inited = (gpregret = "OTA_APPJUM")
    BY <1>2 DEF CheckDfuMode
  <2>3. gpregret' # "OTA_APPJUM" /\ sd_inits' = sd_inits
    BY <1>2 DEF CheckDfuMode
  <2> QED
    BY <2>1, <2>2, <2>3
<1>3. CASE EnterMode
  BY <1>3 DEF EnterMode, WordForNextReset, InitsSd
<1>4. CASE Launch
  BY <1>4 DEF Launch, Starts, WordAtLaunch, NoMode, NoSession
<1>5. CASE ResetAgain
  BY <1>5 DEF ResetAgain, Starts, ResetWord, NoMode, NoSession
<1>6. CASE LoopExit
  BY <1>6 DEF LoopExit, InSession, LeaveTo
<1>7. CASE UnplugSeen
  BY <1>7 DEF UnplugSeen, InSession, Unplugged, LeaveTo
<1>8. CASE TimerFires \/ InactivityTimeout
  BY <1>8 DEF TimerFires, InactivityTimeout, InSession, TimesOut, outside
<1>9. CASE Mount
  BY <1>9 DEF Mount, Handles, Overair, InSession, outside
<1>10. CASE Activity
  BY <1>10 DEF Activity, Handles, Overair, InSession, outside
<1>11. CASE OtaConnects
  BY <1>11 DEF OtaConnects, Handles, Overair, InSession, outside
<1>12. CASE UpdateErases \/ UpdateWrites
  BY <1>12 DEF UpdateErases, UpdateWrites, Updating, Handles, InSession, outside
<1>13. CASE UpdateCompletes
  BY <1>13 DEF UpdateCompletes, Updating, Handles, InSession, Saved, outside
<1>14. CASE UpdateAborts
  BY <1>14 DEF UpdateAborts, Updating, Handles, InSession, outside
<1>15. CASE AppClearsResetReas
  BY <1>15 DEF AppClearsResetReas
<1>16. CASE AppResets
  BY <1>16 DEF AppResets, Restart, NoMode, NoSession
<1>17. CASE AppJumps
  BY <1>17 DEF AppJumps
<1>18. CASE PinReset
  BY <1>18 DEF PinReset, Restart, NoMode, NoSession
<1>19. CASE PowerLoss
  BY <1>19 DEF PowerLoss, Restart, NoMode, NoSession
<1>20. CASE Cable
  BY <1>20 DEF Cable
<1>21. CASE UNCHANGED vars
  BY <1>21 DEF vars
<1> QED
  BY <1>1, <1>2, <1>3, <1>4, <1>5, <1>6, <1>7, <1>8, <1>9, <1>10, <1>11, <1>12, <1>13, <1>14, <1>15, <1>16, <1>17, <1>18, <1>19, <1>20, <1>21 DEF Next, MainStep

\* What is owed stays owed, and only the bootloader's own reset adds to it.
LEMMA OwingStep == TypeOK /\ Owing /\ OtaResumes /\ [Next]_vars => (Owing /\ OtaResumes)'
<1> SUFFICES ASSUME TypeOK /\ Owing /\ OtaResumes, [Next]_vars PROVE (Owing /\ OtaResumes)'
  OBVIOUS
<1> USE DEF Owing, OtaResumes, TypeOK, Stops, Magic, chip, ghosts
<1>1. CASE FinishSdUpdate
  BY <1>1 DEF FinishSdUpdate, SettingsSwapped
<1>2. CASE CheckDfuMode
  BY <1>2 DEF CheckDfuMode
<1>3. CASE EnterMode
  BY <1>3 DEF EnterMode, WordForNextReset, InitsSd
<1>4. CASE Launch
  BY <1>4 DEF Launch, Starts, WordAtLaunch, NoMode, NoSession
<1>5. CASE ResetAgain
  BY <1>5 DEF ResetAgain, Starts, ResetWord, NoMode, NoSession
<1>6. CASE LoopExit
  BY <1>6 DEF LoopExit, InSession, LeaveTo
<1>7. CASE UnplugSeen
  BY <1>7 DEF UnplugSeen, InSession, Unplugged, LeaveTo
<1>8. CASE TimerFires \/ InactivityTimeout
  BY <1>8 DEF TimerFires, InactivityTimeout, InSession, TimesOut, outside
<1>9. CASE Mount
  BY <1>9 DEF Mount, Handles, Overair, InSession, outside
<1>10. CASE Activity
  BY <1>10 DEF Activity, Handles, Overair, InSession, outside
<1>11. CASE OtaConnects
  BY <1>11 DEF OtaConnects, Handles, Overair, InSession, outside
<1>12. CASE UpdateErases \/ UpdateWrites
  BY <1>12 DEF UpdateErases, UpdateWrites, Updating, Handles, InSession, outside
<1>13. CASE UpdateCompletes
  BY <1>13 DEF UpdateCompletes, Updating, Handles, InSession, Saved, outside
<1>14. CASE UpdateAborts
  BY <1>14 DEF UpdateAborts, Updating, Handles, InSession, outside
<1>15. CASE AppClearsResetReas
  BY <1>15 DEF AppClearsResetReas
<1>16. CASE AppResets
  BY <1>16 DEF AppResets, Restart, NoMode, NoSession
<1>17. CASE AppJumps
  BY <1>17 DEF AppJumps
<1>18. CASE PinReset
  BY <1>18 DEF PinReset, Restart, NoMode, NoSession
<1>19. CASE PowerLoss
  BY <1>19 DEF PowerLoss, Restart, NoMode, NoSession
<1>20. CASE Cable
  BY <1>20 DEF Cable
<1>21. CASE UNCHANGED vars
  BY <1>21 DEF vars
<1> QED
  BY <1>1, <1>2, <1>3, <1>4, <1>5, <1>6, <1>7, <1>8, <1>9, <1>10, <1>11, <1>12, <1>13, <1>14, <1>15, <1>16, <1>17, <1>18, <1>19, <1>20, <1>21 DEF Next, MainStep

\* The words of the two presses.
LEMMA PressedStep == TypeOK /\ Initialised /\ Pressed /\ [Next]_vars => Pressed'
<1> SUFFICES ASSUME TypeOK /\ Initialised /\ Pressed, [Next]_vars PROVE Pressed'
  OBVIOUS
<1> USE DEF Pressed, Initialised, Second, TypeOK, Stops, Magic, Reset, chip, ghosts
<1>1. CASE FinishSdUpdate
  BY <1>1 DEF FinishSdUpdate, SettingsSwapped
<1>2. CASE CheckDfuMode
  BY <1>2 DEF CheckDfuMode
<1>3. CASE EnterMode
  BY <1>3 DEF EnterMode, WordForNextReset, InitsSd
<1>4. CASE Launch
  BY <1>4 DEF Launch, Starts, WordAtLaunch, NoMode, NoSession
<1>5. CASE ResetAgain
  BY <1>5 DEF ResetAgain, Starts, ResetWord, NoMode, NoSession
<1>6. CASE LoopExit
  BY <1>6 DEF LoopExit, InSession, LeaveTo
<1>7. CASE UnplugSeen
  BY <1>7 DEF UnplugSeen, InSession, Unplugged, LeaveTo
<1>8. CASE TimerFires \/ InactivityTimeout
  BY <1>8 DEF TimerFires, InactivityTimeout, InSession, TimesOut, outside
<1>9. CASE Mount
  BY <1>9 DEF Mount, Handles, Overair, InSession, outside
<1>10. CASE Activity
  BY <1>10 DEF Activity, Handles, Overair, InSession, outside
<1>11. CASE OtaConnects
  BY <1>11 DEF OtaConnects, Handles, Overair, InSession, outside
<1>12. CASE UpdateErases \/ UpdateWrites
  BY <1>12 DEF UpdateErases, UpdateWrites, Updating, Handles, InSession, outside
<1>13. CASE UpdateCompletes
  BY <1>13 DEF UpdateCompletes, Updating, Handles, InSession, Saved, outside
<1>14. CASE UpdateAborts
  BY <1>14 DEF UpdateAborts, Updating, Handles, InSession, outside
<1>15. CASE AppClearsResetReas
  BY <1>15 DEF AppClearsResetReas
<1>16. CASE AppResets
  BY <1>16 DEF AppResets, Restart, NoMode, NoSession
<1>17. CASE AppJumps
  BY <1>17 DEF AppJumps, NoMode
<1>18. CASE PinReset
  BY <1>18 DEF PinReset, Restart, NoMode, NoSession
<1>19. CASE PowerLoss
  BY <1>19 DEF PowerLoss, Restart, NoMode, NoSession
<1>20. CASE Cable
  BY <1>20 DEF Cable
<1>21. CASE UNCHANGED vars
  BY <1>21 DEF vars
<1> QED
  BY <1>1, <1>2, <1>3, <1>4, <1>5, <1>6, <1>7, <1>8, <1>9, <1>10, <1>11, <1>12, <1>13, <1>14, <1>15, <1>16, <1>17, <1>18, <1>19, <1>20, <1>21 DEF Next, MainStep

\* The words of a single tap.
LEMMA TappedStep == TypeOK /\ Pressed /\ Tapped /\ [Next]_vars => Tapped'
<1> SUFFICES ASSUME TypeOK /\ Pressed /\ Tapped, [Next]_vars PROVE Tapped'
  OBVIOUS
<1> USE DEF Tapped, Pressed, Second, TypeOK, Stops, Magic, Ended, Reset, chip, ghosts
<1>1. CASE FinishSdUpdate
  BY <1>1 DEF FinishSdUpdate, SettingsSwapped
<1>2. CASE CheckDfuMode
  <2> HAVE ~board'.nrf52832 /\ ~board'.button
  <2>1. board' = board /\ app' = app /\ last' = last /\ pc = "boot"
    BY <1>2 DEF CheckDfuMode
  <2>2. pc' \in {"delay", "enter", "launch"} /\ (pc' # "delay" => dbl_reset' = dbl_reset)
    BY <1>2, <2>1 DEF CheckDfuMode
  <2>3. ASSUME last = [reset |-> "pin", found |-> "app"], pc' = "enter", app.asks
        PROVE  mode'.dfu_start
    <3>1. gpregret = "none" /\ dbl_reset # "APP"
      BY <2>1, <2>3
    <3> QED
      BY <1>2, <2>3, <3>1, BootAssumption DEF CheckDfuMode, App
  <2>4. ASSUME last = [reset |-> "pin", found |-> "session"], pc' = "enter",
               app.asks, app.valid
        PROVE  dbl_reset = "APP" /\ ~mode'.dfu_start /\ mode'.valid_app
    <3>1. gpregret = "none" /\ dbl_reset = "APP"
      BY <2>1, <2>4
    <3>2. board.button = FALSE /\ app.valid = TRUE
      BY <2>1, <2>4, BootAssumption DEF App
    <3> HIDE DEF Tapped, Pressed, TypeOK
    <3>3. mode'.valid_app
      BY <1>2, <3>2 DEF CheckDfuMode
    <3>4. PICK button \in {FALSE, board.button}, button_ota \in {FALSE, board.button} :
            CheckDfuMode!2!(button, button_ota)
      BY <1>2 DEF CheckDfuMode
    <3>5. button = FALSE
      BY <3>2, <3>4
    <3>6. ~mode'.dfu_start
      BY <3>1, <3>2, <3>4, <3>5
    <3> QED
      BY <3>1, <3>3, <3>6
  <2> QED
    BY <2>1, <2>2, <2>3, <2>4
<1>3. CASE EnterMode
  BY <1>3 DEF EnterMode, WordForNextReset, InitsSd
<1>4. CASE Launch
  BY <1>4 DEF Launch, Starts, WordAtLaunch, NoMode, NoSession
<1>5. CASE ResetAgain
  BY <1>5 DEF ResetAgain, Starts, ResetWord, NoMode, NoSession
<1>6. CASE LoopExit
  BY <1>6 DEF LoopExit, InSession, LeaveTo
<1>7. CASE UnplugSeen
  BY <1>7 DEF UnplugSeen, InSession, Unplugged, LeaveTo
<1>8. CASE TimerFires \/ InactivityTimeout
  <2>1. UNCHANGED <<board, app, dbl_reset, gpregret, last, pc, mode>>
    BY <1>8 DEF TimerFires, InactivityTimeout, outside
  <2>2. session.status # "COMPLETE" /\ session'.rewritten = session.rewritten
    BY <1>8 DEF TimerFires, InactivityTimeout, Session
  <2> QED
    BY <2>1, <2>2
<1>9. CASE Mount
  BY <1>9 DEF Mount, Handles, Overair, InSession, outside
<1>10. CASE Activity
  BY <1>10 DEF Activity, Handles, Overair, InSession, outside
<1>11. CASE OtaConnects
  BY <1>11 DEF OtaConnects, Handles, Overair, InSession, outside
<1>12. CASE UpdateErases \/ UpdateWrites
  <2>1. UNCHANGED <<board, dbl_reset, gpregret, last, pc, mode>> /\ InSession
    BY <1>12 DEF UpdateErases, UpdateWrites, Updating, Handles, outside
  <2>2. session'.rewritten
    BY <1>12 DEF UpdateErases, UpdateWrites, Session
  <2> QED
    BY <2>1, <2>2 DEF InSession
<1>13. CASE UpdateCompletes
  BY <1>13 DEF UpdateCompletes, Updating, Handles, InSession, Saved, outside
<1>14. CASE UpdateAborts
  BY <1>14 DEF UpdateAborts, Updating, Handles, InSession, outside
<1>15. CASE AppClearsResetReas
  BY <1>15 DEF AppClearsResetReas
<1>16. CASE AppResets
  BY <1>16 DEF AppResets, Restart, NoMode, NoSession
<1>17. CASE AppJumps
  BY <1>17 DEF AppJumps
<1>18. CASE PinReset
  BY <1>18 DEF PinReset, Restart, NoMode, NoSession
<1>19. CASE PowerLoss
  BY <1>19 DEF PowerLoss, Restart, NoMode, NoSession
<1>20. CASE Cable
  BY <1>20 DEF Cable
<1>21. CASE UNCHANGED vars
  BY <1>21 DEF vars
<1> QED
  BY <1>1, <1>2, <1>3, <1>4, <1>5, <1>6, <1>7, <1>8, <1>9, <1>10, <1>11, <1>12, <1>13, <1>14, <1>15, <1>16, <1>17, <1>18, <1>19, <1>20, <1>21 DEF Next, MainStep
-----------------------------------------------------------------------------
\* A device that has been used before satisfies the invariant.
LEMMA InitIInv == Init => IInv
<1> SUFFICES ASSUME Init PROVE IInv
  OBVIOUS
<1>1. TypeOK
  <2>1. mode \in Mode /\ session \in Session
    BY DEF Init, Mode, Session, NoMode, NoSession
  <2>2. last \in Reset /\ app \in App
    BY DEF Init, Reset, Stops, App
  <2> QED
    <3>1. events \in 0 .. MaxEvents /\ sd_inits \in Nat
      BY BootAssumption DEF Init
    <3>2. sd_update \in BOOLEAN /\ vbus \in BOOLEAN
      BY DEF Init
    <3> QED
      BY <2>1, <2>2, <3>1, <3>2 DEF Init, TypeOK, Stops, Magic
<1>2. Initialised /\ Owing /\ OtaResumes
  BY DEF Init, Initialised, Owing, OtaResumes
<1>3. Pressed /\ Tapped
  BY DEF Init, Pressed, Tapped, Second, NoMode
<1> QED
  BY <1>1, <1>2, <1>3 DEF IInv

LEMMA NextIInv == IInv /\ [Next]_vars => IInv'
BY TypeStep, InitialisedStep, OwingStep, PressedStep, TappedStep DEF IInv

LEMMA Inductive == Spec => []IInv
BY InitIInv, NextIInv, PTL DEF Spec

\* Every variable of the boot keeps its type: main, check_dfu_mode, a session.
THEOREM TypeCorrect == Spec => []TypeOK
<1>1. IInv => TypeOK
  BY DEF IInv
<1> QED
  BY <1>1, Inductive, PTL

\* check_dfu_mode takes for a double reset what is one, and only that: the second
\* press during the delay that followed the first.
THEOREM DoubleResetCorrect == Spec => []DoubleReset
<1>1. IInv => DoubleReset
  BY DEF IInv, Pressed, Second, DoubleReset
<1> QED
  BY <1>1, Inductive, PTL

\* A session over the air that ends in the bootloader's own reset is resumed over
\* the air before anything else is started.
THEOREM OtaResumesCorrect == Spec => []OtaResumes
<1>1. IInv => OtaResumes
  BY DEF IInv
<1> QED
  BY <1>1, Inductive, PTL

\* Between two resets of the chip the MBR is asked once to initialise the
\* SoftDevice, before the application or a session over the air needs it.
THEOREM InitOnceCorrect == Spec => []InitOnce
<1>1. IInv => InitOnce
  BY DEF IInv, Initialised, InitOnce, Overair, NoMode, TypeOK, Mode
<1> QED
  BY <1>1, Inductive, PTL

\* A single tap of the reset button swaps between an application that asks for it
\* and a session.
THEOREM TapSwapsCorrect == Spec => TapSwaps
<1> DEFINE Swap ==
      pc = "enter" /\ pc' \in {"session", "launch"} /\ app.asks /\ app.valid
      /\ ~board.nrf52832 /\ ~board.button
        => /\ last = [reset |-> "pin", found |-> "app"] => pc' = "session"
           /\ last = [reset |-> "pin", found |-> "session"] => pc' = "launch"
<1>1. IInv /\ [Next]_vars => [Swap]_vars
  <2> SUFFICES ASSUME IInv, [Next]_vars, pc = "enter", pc' \in {"session", "launch"},
                      app.asks, app.valid, ~board.nrf52832, ~board.button
               PROVE  /\ last = [reset |-> "pin", found |-> "app"] => pc' = "session"
                      /\ last = [reset |-> "pin", found |-> "session"] => pc' = "launch"
    OBVIOUS
  <2>1. EnterMode
    BY DEF Next, MainStep, vars, FinishSdUpdate, CheckDfuMode, Launch, ResetAgain,
       LoopExit, UnplugSeen, TimerFires, InactivityTimeout, Mount, Activity, OtaConnects,
       UpdateErases, UpdateWrites, UpdateCompletes, UpdateAborts, AppClearsResetReas, AppResets, AppJumps,
       PinReset, PowerLoss, Cable, Restart, InSession
  <2> QED
    BY <2>1 DEF EnterMode, IInv, Tapped
<1> QED
  BY <1>1, Inductive, PTL DEF TapSwaps, Spec
=============================================================================
