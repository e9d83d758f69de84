---------------------------- MODULE DisplaySleep ----------------------------
(***************************************************************************)
(* BatteryChecker: the delay before the display sleeps on battery.  A slider *)
(* changes the setting of the system; the setting found at the launch is    *)
(* remembered in the user defaults and written back at the termination.     *)
(*                                                                         *)
(* viewDidLoad is taken in three steps, since the power source may change   *)
(* between them.  number[3] of rememberDisplaySleep is neither initialised  *)
(* nor ended, so that whatever follows the digits may be read as more of    *)
(* them, or spoil the string; then it is read as 0.                         *)
(***************************************************************************)
EXTENDS Naturals

CONSTANTS
    Delays,         \* minutes
    Garbage,        \* what may be read instead of the setting
    MaxCrashes

VARIABLES
    displaysleep,   \* the setting of the system, with pmset -b
    defaultDisplaySleep,        \* in the user defaults, 0 when there is none
    app,            \* how far the program is
    source,         \* of power
    notified,       \* PowerSourcesHaveChanged waits for the run loop
    slider,         \* is enabled
    chosen,         \* the setting that the user gave it between two runs
    crashes,
    crashed,        \* history: since the user chose
    misread         \* history: a launch has read something else since then

vars == <<displaysleep, defaultDisplaySleep, app, source, notified, slider, chosen, crashes, crashed,
          misread>>

Init ==
    /\ displaysleep \in Delays /\ chosen = displaysleep
    /\ defaultDisplaySleep = 0
    /\ app = "off"
    /\ source \in {"Battery Power", "AC Power"}
    /\ notified = FALSE
    /\ slider = TRUE
    /\ crashes = 0 /\ crashed = FALSE /\ misread = FALSE

(* The digits of pmset -g custom, in number[3].                             *)
ReadSetting ==
    /\ defaultDisplaySleep' \in {displaysleep} \cup Garbage
    /\ misread' = (misread \/ defaultDisplaySleep' # displaysleep)

\* Mutant: the setting is remembered only the first time.
RememberDisplaySleepOnce ==
    /\ app = "off"
    /\ app' = "remembered"
    /\ slider' = TRUE
    /\ IF defaultDisplaySleep # 0 THEN UNCHANGED <<defaultDisplaySleep, misread>> ELSE ReadSetting
    /\ UNCHANGED <<displaysleep, source, notified, chosen, crashes, crashed>>

(* The beginning of viewDidLoad.                                            *)
RememberDisplaySleep ==
    /\ app = "off"
    /\ app' = "remembered"
    /\ slider' = TRUE
    /\ ReadSetting
    /\ UNCHANGED <<displaysleep, source, notified, chosen, crashes, crashed>>

SetPowerSourceTypeLabel == slider' = (source # "Battery Power")

ShowFirst ==
    /\ app = "remembered"
    /\ app' = "shown"
    /\ SetPowerSourceTypeLabel
    /\ UNCHANGED <<displaysleep, defaultDisplaySleep, source, notified, chosen, crashes, crashed, misread>>

(* The end of viewDidLoad.                                                  *)
InitializePowerSourceChanges ==
    /\ app = "shown"
    /\ app' = "running"
    /\ UNCHANGED <<displaysleep, defaultDisplaySleep, source, notified, slider, chosen, crashes,
                   crashed, misread>>

PowerSourcesHaveChanged ==
    /\ app = "running" /\ notified
    /\ notified' = FALSE
    /\ SetPowerSourceTypeLabel
    /\ UNCHANGED <<displaysleep, defaultDisplaySleep, app, source, chosen, crashes, crashed, misread>>

ChangedValueSlider ==
    /\ app = "running" /\ slider
    /\ displaysleep' \in Delays
    /\ UNCHANGED <<defaultDisplaySleep, app, source, notified, slider, chosen, crashes, crashed, misread>>

(* resetDisplaySleep.                                                       *)
ApplicationWillTerminate ==
    /\ app = "running"
    /\ app' = "off"
    /\ notified' = FALSE
    /\ displaysleep' = defaultDisplaySleep
    /\ UNCHANGED <<defaultDisplaySleep, source, slider, chosen, crashes, crashed, misread>>

-----------------------------------------------------------------------------
(* The surroundings *)

(* The program ends without applicationWillTerminate.                       *)
Crash ==
    /\ app # "off" /\ crashes < MaxCrashes
    /\ app' = "off"
    /\ notified' = FALSE
    /\ crashes' = crashes + 1 /\ crashed' = TRUE
    /\ UNCHANGED <<displaysleep, defaultDisplaySleep, source, slider, chosen, misread>>

(* Only a program that listens is told.                                     *)
SourceChanges ==
    /\ source' = IF source = "AC Power" THEN "Battery Power" ELSE "AC Power"
    /\ notified' = (app = "running")
    /\ UNCHANGED <<displaysleep, defaultDisplaySleep, app, slider, chosen, crashes, crashed, misread>>

(* The level of the battery or the time that is left.                       *)
LevelChanges ==
    /\ app = "running" /\ ~ notified
    /\ notified' = TRUE
    /\ UNCHANGED <<displaysleep, defaultDisplaySleep, app, source, slider, chosen, crashes, crashed,
                   misread>>

(* The user sets the delay in the preferences of the system, when he likes. *)
(* What he sets there during a run does not outlive the run.                *)
UserSets ==
    /\ displaysleep' \in Delays
    /\ IF app = "off"
       THEN chosen' = displaysleep' /\ crashed' = FALSE /\ misread' = FALSE
       ELSE UNCHANGED <<chosen, crashed, misread>>
    /\ UNCHANGED <<defaultDisplaySleep, app, source, notified, slider, crashes>>

Next ==
    \/ RememberDisplaySleep \/ ShowFirst \/ InitializePowerSourceChanges
    \/ PowerSourcesHaveChanged \/ ChangedValueSlider \/ ApplicationWillTerminate
    \/ Crash \/ SourceChanges \/ LevelChanges \/ UserSets

Spec == Init /\ [][Next]_vars

-----------------------------------------------------------------------------
(* Properties *)

(* Between two runs the system has the delay that the user gave it between  *)
(* two runs, whatever the slider and the preferences did to it meanwhile;   *)
(* except, until the user's next choice, after a run that crashed, or one   *)
(* that misread the setting at its launch and has left that behind          *)
(* (rememberDisplaySleep, resetDisplaySleep).                               *)
DelayRestored == app = "off" /\ ~ crashed /\ ~ misread => displaysleep = chosen
=============================================================================
