------------------------------- MODULE BootMode -------------------------------
(***************************************************************************)
(* What a reset leads to: main and check_dfu_mode decide between starting  *)
(* the application and waiting for an update, from the word that the       *)
(* application left in GPREGRET, the reset reason, the double-reset word   *)
(* in RAM, the buttons and what is in flash; wait_for_events decides when  *)
(* the waiting is over.  Around them act the user, the application, the    *)
(* USB host, the phone, the startup timer and the power.                   *)
(***************************************************************************)
EXTENDS Naturals

CONSTANTS
  Boards,     \* subset of [nrf52832, default_to_ota, button : BOOLEAN]
  MaxEvents   \* bound on the resets and power failures from outside

ASSUME BootAssumption ==
  /\ Boards \subseteq [nrf52832 : BOOLEAN, default_to_ota : BOOLEAN, button : BOOLEAN]
  /\ MaxEvents \in Nat

Magic == {"none", "OTA_APPJUM", "OTA_RESET", "SERIAL_ONLY_RESET", "UF2_RESET", "SKIP"}

VARIABLES
  board,
  app,        \* [valid, asks]: bank 0, and the application's single-tap flag
  gpregret,   \* NRF_POWER->GPREGRET
  resetpin,   \* the latched RESETPIN bit of RESETREAS
  dbl_reset,  \* *dbl_reset_mem
  sd_update,  \* bootloader_dfu_sd_in_progress
  pc,         \* where main is
  mode,       \* locals and flags of check_dfu_mode
  session,    \* what wait_for_events looks at
  vbus,       \* the cable is plugged in
  sd_inits,   \* SD_MBR_COMMAND_INIT_SD calls since the last chip reset
  last,       \* the last reset, and where it found the device
  owed,       \* a connected OTA session ended in the bootloader's own reset
  events

chip   == <<gpregret, resetpin, dbl_reset>>
ghosts == <<last, owed, events>>
vars   == <<board, app, chip, sd_update, pc, mode, session, vbus, sd_inits, ghosts>>

NoMode    == [dfu_start |-> FALSE, valid_app |-> FALSE, ota |-> FALSE, timed |-> FALSE,
              double |-> FALSE, sd_inited |-> FALSE]
NoSession == [status |-> "UPDATING", timer |-> FALSE, cancel |-> FALSE, mounted |-> FALSE,
              activity |-> FALSE, ota_was |-> FALSE, rewritten |-> FALSE]

Ended == {"COMPLETE", "TIMEOUT", "SYS_RESET", "RESET_TO_SELF"}

Init ==
  /\ board \in Boards
  /\ app \in [valid : BOOLEAN, asks : BOOLEAN]
  /\ gpregret = "none" /\ resetpin = FALSE /\ dbl_reset = "none"
  /\ sd_update \in BOOLEAN
  /\ pc = "boot" /\ mode = NoMode /\ session = NoSession
  /\ vbus \in BOOLEAN
  /\ sd_inits = 0
  /\ last = [reset |-> "power", found |-> "boot"] /\ owed = FALSE /\ events = 0

-----------------------------------------------------------------------------
(* main and check_dfu_mode. *)

\* A SoftDevice or bootloader update in progress is finished first.  It leaves
\* its COMPLETE as the status that the next session of this boot finds.
SettingsSwappedUnsaved == sd_update
SettingsSwapped        == FALSE

FinishSdUpdate ==
  /\ pc = "boot" /\ sd_update
  /\ sd_update' = SettingsSwapped
  /\ session' = [session EXCEPT !.status = "COMPLETE"]
  /\ UNCHANGED <<board, app, chip, pc, mode, vbus, sd_inits, ghosts>>

\* Up to the point where the double-reset word has been looked at.
CheckDfuMode ==
  /\ pc = "boot" /\ ~sd_update
  /\ \E button \in {FALSE, board.button}, button_ota \in {FALSE, board.button} :
       LET by_magic  == gpregret \in Magic \ {"none", "SKIP"}
           double    == dbl_reset = "MAGIC" /\ resetpin
           skip      == gpregret = "SKIP"
           asked     == by_magic \/ double \/ button
           just_start_app == app.valid /\ ~asked /\ dbl_reset = "APP"
           dfu_start == asked \/ (~just_start_app /\ app.asks)
           ota       == \/ gpregret \in {"OTA_APPJUM", "OTA_RESET"}
                        \/ button /\ button_ota
                        \/ board.default_to_ota /\ (~app.valid \/ dfu_start)
           waits     == ~(just_start_app \/ dfu_start \/ ~app.valid)
       IN /\ gpregret' = IF by_magic \/ double \/ skip THEN "none" ELSE gpregret
          /\ mode' = [dfu_start |-> dfu_start /\ ~skip, valid_app |-> app.valid,
                      ota |-> ota /\ ~skip, sd_inited |-> gpregret = "OTA_APPJUM",
                      timed |-> app.asks \/ gpregret \in {"UF2_RESET", "SERIAL_ONLY_RESET"},
                      double |-> double /\ ~by_magic /\ ~button /\ ~app.asks]
          /\ pc' = IF skip THEN "launch"
                   ELSE IF waits /\ board.nrf52832 THEN "startup"
                   ELSE IF waits /\ resetpin THEN "delay"
                   ELSE "enter"
          /\ dbl_reset' = IF pc' = "delay" THEN "MAGIC" ELSE dbl_reset
          /\ session' = IF pc' # "startup" THEN session
                        ELSE [session EXCEPT !.timer = TRUE]
  /\ UNCHANGED <<board, app, resetpin, sd_update, vbus, sd_inits, ghosts>>

\* The rest of check_dfu_mode up to bootloader_dfu_start, after the 500 ms in which
\* a second press is waited for, if it is: the word is set for the next reset, and
\* a session begins if there is a reason for one.
WordUncleared    == IF app.asks THEN "APP" ELSE dbl_reset
WordForNextReset == IF app.asks THEN "APP" ELSE "none"

InitsSdAlways == mode.ota
InitsSd       == mode.ota /\ ~mode.sd_inited

EnterMode ==
  /\ pc \in {"delay", "enter"}
  /\ dbl_reset' = WordForNextReset
  /\ LET starts == mode.dfu_start \/ ~mode.valid_app
         inits  == starts /\ InitsSd
     IN /\ pc' = IF starts THEN "session" ELSE "launch"
        /\ mode' = [mode EXCEPT !.sd_inited = @ \/ inits]
        /\ sd_inits' = IF inits THEN sd_inits + 1 ELSE sd_inits
        /\ session' = IF ~starts THEN session
                      ELSE [session EXCEPT !.timer = mode.timed /\ ~mode.ota,
                                           !.cancel = mode.timed /\ ~mode.ota,
                                           !.mounted = FALSE, !.activity = FALSE]
  /\ UNCHANGED <<board, app, gpregret, resetpin, sd_update, vbus, ghosts>>

\* The end of main: start the application, or reset, and after a connection
\* over the air reset into it again.
Starts == session.status # "RESET_TO_SELF" /\ app.valid /\ ~sd_update

WordKept     == dbl_reset
WordAtLaunch == "none"

Launch ==
  /\ pc = "launch" /\ Starts
  /\ pc' = "app"
  /\ sd_inits' = IF mode.sd_inited THEN sd_inits ELSE sd_inits + 1
  /\ dbl_reset' = WordAtLaunch
  /\ mode' = NoMode /\ session' = NoSession
  /\ UNCHANGED <<board, app, gpregret, resetpin, sd_update, vbus, ghosts>>

ResetWordOld == gpregret
ResetWord    == IF session.ota_was THEN "OTA_RESET" ELSE gpregret

ResetAgain ==
  /\ pc = "launch" /\ ~Starts
  /\ pc' = "boot" /\ mode' = NoMode /\ session' = NoSession
  /\ gpregret' = ResetWord
  /\ owed' = session.ota_was
  /\ last' = [reset |-> "own", found |-> "launch"]
  /\ sd_inits' = 0
  /\ UNCHANGED <<board, app, resetpin, dbl_reset, sd_update, vbus, events>>

-----------------------------------------------------------------------------
(* A session: wait_for_events and what runs in it. *)

InSession == pc \in {"session", "startup"}
Overair   == pc = "session" /\ mode.ota

\* The handlers of packets and of timers, whose interrupts only queue them, run in
\* the passes of the loop: after a timer's, the same pass still handles packets.
Handles == InSession /\ session.status \in {"UPDATING", "TIMEOUT"}

\* An update may go on where a host has been heard of.
Updating == Handles /\ IF mode.ota THEN session.ota_was ELSE session.activity

outside == <<board, chip, vbus, mode, sd_inits, ghosts>>

\* tud_mount_cb.
Mount ==
  /\ Handles /\ ~Overair /\ ~board.nrf52832 /\ vbus /\ ~session.mounted
  /\ session' = [session EXCEPT !.mounted = TRUE]
  /\ UNCHANGED <<app, sd_update, pc, outside>>

\* The first packet over the serial line, or the first block of a UF2 file.
Activity ==
  /\ Handles /\ ~Overair /\ ~session.activity
  /\ board.nrf52832 \/ session.mounted
  /\ session' = [session EXCEPT !.activity = TRUE]
  /\ UNCHANGED <<app, sd_update, pc, outside>>

\* BLE_GAP_EVT_CONNECTED.
OtaConnects ==
  /\ Handles /\ Overair /\ ~session.ota_was
  /\ session' = [session EXCEPT !.ota_was = TRUE]
  /\ UNCHANGED <<app, sd_update, pc, outside>>

\* The update erases bank 0, in which the application's flag lies too.  (That a
\* session has changed the application is recorded in rewritten.)
UpdateErases ==
  /\ Updating /\ app.valid
  /\ app' = [valid |-> FALSE, asks |-> FALSE]
  /\ session' = [session EXCEPT !.rewritten = TRUE]
  /\ UNCHANGED <<sd_update, pc, outside>>

\* The page with that flag is written.  Packets write to an invalid bank; blocks of
\* a UF2 file overwrite a valid one, and where the settings are blank what looks
\* like an application is one.
UpdateWrites ==
  /\ Updating
  /\ \E valid, asks \in BOOLEAN :
       /\ app.valid => valid
       /\ valid => ~mode.ota /\ ~board.nrf52832
       /\ app' = [valid |-> valid, asks |-> asks]
  /\ session' = [session EXCEPT !.rewritten = TRUE]
  /\ UNCHANGED <<sd_update, pc, outside>>

\* It ends with a new application, or with a SoftDevice or a bootloader (which
\* leaves the application valid) that the next boot has to put in place.
Saved == "COMPLETE"        \* pstorage_callback_handler

UpdateCompletes ==
  /\ Updating /\ session.status = "UPDATING"
  /\ session' = [session EXCEPT !.status = Saved]
  /\ \/ /\ \E asks \in BOOLEAN : app' = [valid |-> TRUE, asks |-> asks]
        /\ UNCHANGED sd_update
     \/ sd_update' = TRUE /\ UNCHANGED app
  /\ UNCHANGED <<pc, outside>>

\* It is given up: a reset asked for by the host, an aborted file.
UpdateAborts ==
  /\ Updating
  /\ \E status \in (IF mode.ota \/ ~board.nrf52832 THEN {"SYS_RESET"} ELSE {})
                   \cup (IF mode.ota THEN {"RESET_TO_SELF"} ELSE {}) :
       session' = [session EXCEPT !.status = status]
  /\ UNCHANGED <<app, sd_update, pc, outside>>

\* dfu_startup_timer_handler: it ends a session nobody has used, and one that USB
\* keeps open only if USB has not come up.  (A session whose status is final is
\* left in the same pass, long before the timer runs out.)
TimesOutWithUsb == session.cancel /\ ~session.mounted /\ ~session.activity
TimesOut        == ~(session.cancel /\ session.mounted) /\ ~session.activity

TimerFires ==
  /\ InSession /\ session.timer /\ session.status = "UPDATING"
  /\ session' = [session EXCEPT
       !.timer = FALSE, !.status = IF TimesOut THEN "TIMEOUT" ELSE @]
  /\ UNCHANGED <<app, sd_update, pc, outside>>

\* dfu_timeout_handler: the inactivity timer of dfu_init ends any session, used or
\* not.  Its six minutes are longer than the startup timer ever runs.
InactivityTimeout ==
  /\ InSession /\ ~session.timer /\ session.status = "UPDATING"
  /\ session' = [session EXCEPT !.status = "TIMEOUT"]
  /\ UNCHANGED <<app, sd_update, pc, outside>>

\* wait_for_events returns: to the rest of check_dfu_mode after the startup
\* session, to the end of main after any other.
LeaveTo == IF pc = "startup" THEN "enter" ELSE "launch"

LoopExit ==
  /\ InSession /\ session.status \in Ended
  /\ pc' = LeaveTo
  /\ owed' = FALSE
  /\ UNCHANGED <<board, app, chip, sd_update, mode, session, vbus, sd_inits,
                 last, events>>

\* The loop sees that the cable of a session it kept open for USB is gone.
UnpluggedInTime == session.cancel /\ session.mounted /\ session.timer /\ ~vbus
Unplugged       == session.cancel /\ session.mounted /\ ~vbus

UnplugSeen ==
  /\ InSession /\ Unplugged /\ ~session.activity
  /\ session' = [session EXCEPT !.status = "TIMEOUT"]
  /\ pc' = LeaveTo
  /\ owed' = FALSE
  /\ UNCHANGED <<board, app, chip, sd_update, mode, vbus, sd_inits, last, events>>

-----------------------------------------------------------------------------
(* The application. *)

AppClearsResetReas ==
  /\ pc = "app" /\ resetpin
  /\ resetpin' = FALSE
  /\ UNCHANGED <<board, app, gpregret, dbl_reset, sd_update, pc, mode, session,
                 vbus, sd_inits, ghosts>>

\* What a reset leaves of the statics: nothing.  It is a chip reset, so that the
\* SoftDevice has to be initialised again.  (For the record of it a press that
\* comes before the last one has been decided on is one with it.)
Restart(reset) ==
  /\ pc' = "boot" /\ mode' = NoMode /\ session' = NoSession
  /\ sd_inits' = 0
  /\ owed' = FALSE
  /\ LET updated == /\ pc = "session"
                    /\ session.rewritten \/ session.status = "COMPLETE"
         bounces == reset = last.reset /\ pc \in {"boot", "enter"}
     IN  last' = [reset |-> reset,
                  found |-> IF bounces THEN last.found
                            ELSE IF updated THEN "updated" ELSE pc]
  /\ UNCHANGED <<board, app, sd_update>>

\* A soft reset or its watchdog, with or without a word for the bootloader.
AppResets ==
  /\ pc = "app"
  /\ Restart("app")
  /\ gpregret' \in Magic \ {"OTA_APPJUM"}
  /\ UNCHANGED <<resetpin, dbl_reset, vbus, events>>

\* The jump of the BLEDfu service: no chip reset, the SoftDevice stays initialised.
AppJumps ==
  /\ pc = "app"
  /\ pc' = "boot"
  /\ gpregret' = "OTA_APPJUM"
  /\ last' = [reset |-> "jump", found |-> pc]
  /\ UNCHANGED <<board, app, resetpin, dbl_reset, sd_update, mode, session, vbus,
                 sd_inits, owed, events>>

-----------------------------------------------------------------------------
(* The user and the supply. *)

\* The reset pin clears the retained register and keeps the RAM, but for the
\* nRF52832.
PinReset ==
  /\ events < MaxEvents
  /\ events' = events + 1
  /\ Restart("pin")
  /\ gpregret' = "none" /\ resetpin' = TRUE
  /\ dbl_reset' = IF board.nrf52832 THEN "none" ELSE dbl_reset
  /\ UNCHANGED vbus

PowerLoss ==
  /\ events < MaxEvents
  /\ events' = events + 1
  /\ Restart("power")
  /\ gpregret' = "none" /\ resetpin' = FALSE /\ dbl_reset' = "none"
  /\ vbus' \in BOOLEAN

Cable ==
  /\ vbus' = ~vbus
  /\ UNCHANGED <<board, app, chip, sd_update, pc, mode, session, sd_inits, ghosts>>

-----------------------------------------------------------------------------
MainStep ==
  \/ FinishSdUpdate \/ CheckDfuMode \/ EnterMode
  \/ Launch \/ ResetAgain \/ LoopExit \/ UnplugSeen

Next ==
  \/ MainStep \/ TimerFires \/ InactivityTimeout
  \/ Mount \/ Activity \/ OtaConnects
  \/ UpdateErases \/ UpdateWrites \/ UpdateCompletes \/ UpdateAborts
  \/ AppClearsResetReas \/ AppResets \/ AppJumps
  \/ PinReset \/ PowerLoss \/ Cable

Spec == Init /\ [][Next]_vars

\* main goes on and the timer runs out; nobody has to press, plug or send.
FairSpec == Spec /\ WF_vars(MainStep) /\ WF_vars(TimerFires)

-----------------------------------------------------------------------------
Stops == {"boot", "delay", "enter", "startup", "session", "launch", "app"}

App     == [valid : BOOLEAN, asks : BOOLEAN]
Mode    == [dfu_start : BOOLEAN, valid_app : BOOLEAN, ota : BOOLEAN,
            timed : BOOLEAN, double : BOOLEAN, sd_inited : BOOLEAN]
Session == [status : {"UPDATING"} \cup Ended, timer : BOOLEAN, cancel : BOOLEAN,
            mounted : BOOLEAN, activity : BOOLEAN, ota_was : BOOLEAN,
            rewritten : BOOLEAN]
Reset   == [reset : {"power", "pin", "own", "app", "jump"},
            found : Stops \cup {"updated"}]

\* Type invariant.
TypeOK ==
  /\ board \in Boards
  /\ app \in App
  /\ gpregret \in Magic
  /\ resetpin \in BOOLEAN
  /\ dbl_reset \in {"none", "MAGIC", "APP"}
  /\ sd_update \in BOOLEAN
  /\ pc \in Stops
  /\ mode \in Mode
  /\ session \in Session
  /\ vbus \in BOOLEAN
  /\ sd_inits \in Nat
  /\ last \in Reset
  /\ owed \in BOOLEAN
  /\ events \in 0 .. MaxEvents

\* A session is put down to a double reset exactly when the second press came
\* within the delay after the first, though both words the decision looks at
\* outlive the press: the one in RAM, and the reason that only the application
\* clears.
DoubleReset ==
  /\ pc = "session" /\ mode.double => last = [reset |-> "pin", found |-> "delay"]
  /\ pc = "enter" /\ last = [reset |-> "pin", found |-> "delay"] => mode.dfu_start

\* main: "Reset the system with the OTA DFU update in case we were in it, to allow
\* completion".  When the bootloader resets itself after a connection over the
\* air, the first session after that is one over the air again, and nothing else
\* is started before it.
OtaResumes ==
  owed => /\ pc \in {"boot", "enter", "session"}
          /\ pc = "session" => mode.ota

\* main: "The SoftDevice must only be initialized if a chip reset has occurred."
\* Whichever of the paths leads there, the MBR is asked to once before a session
\* over the air or the application, and never twice between two resets.
InitOnce ==
  /\ sd_inits <= 1
  /\ pc = "app" \/ Overair => sd_inits = 1

\* main: "Allow for using reset button essentially to swap between application and
\* bootloader", where the application asks for it.  (Without a DFU button that
\* is held down; a session that has changed the application, or has just
\* completed, is not swapped out of.)
TapSwaps ==
  [][pc = "enter" /\ pc' \in {"session", "launch"} /\ app.asks /\ app.valid
     /\ ~board.nrf52832 /\ ~board.button
       => /\ last = [reset |-> "pin", found |-> "app"] => pc' = "session"
          /\ last = [reset |-> "pin", found |-> "session"] => pc' = "launch"]_vars

Interrupted == pc = "boot" /\ last.reset \in {"pin", "power"}

\* check_dfu_mode: "If USB is not enumerated in 3s (eg. because we're running on
\* battery), we restart into app", and likewise for the forced session of the
\* nRF52832: a session with a timer and no traffic gets to the application.
TimeoutReturns ==
  InSession /\ session.timer /\ app.valid
    ~> pc = "app" \/ session.mounted \/ session.activity \/ Interrupted

\* wait_for_events: "Exit startup DFU once USB was actually unplugged".
UnplugLeaves ==
  InSession /\ session.cancel /\ session.mounted /\ ~vbus /\ ~session.activity
    ~> ~InSession \/ vbus \/ session.activity

\* From every boot the device gets to the application or to a session that waits
\* for a host: a status left over from an update of the SoftDevice, and the
\* bootloader's own resets, add up to no endless round of resets.
Settles == pc = "boot" ~> pc = "app" \/ (InSession /\ session.status = "UPDATING")
=============================================================================
