---------------------------- MODULE LabPrograms ----------------------------
(***************************************************************************)
(* WiFiManager, DeviceManager, BatteryChecker and CDBurner side by side.    *)
(* The four programs share nothing; each is an instance of its module, and  *)
(* has one property here that says what it is for.                          *)
(***************************************************************************)
EXTENDS Naturals, Sequences, SequencesExt

CONSTANTS
    Networks, Protected, Passwords, MaxScans,       \* of WiFiManager
    WindowsDevices,                                 \* of DeviceManager
    Delays, Garbage, MaxCrashes,                    \* of BatteryChecker
    Paths, Stems, NameOf, Dotted, Same(_, _), MaxFiles      \* of CDBurner

(* Every file has a name, and there is room for some number of them.        *)
ASSUME FilesAssumption == NameOf \in [Paths -> [stem : Stems, new : Nat]] /\ MaxFiles \in Nat

VARIABLES
    scanset, shown, scans, reloads, networkToConnect, password, connectButton, attempts,
    status, refresh, _devices, table, ToggleEnabled, watching, event, lost,
    displaysleep, defaultDisplaySleep, app, source, notified, slider, chosen, crashes,
    crashedSince, misread,
    filesName, filesPath, folder, thrown

WiFi == INSTANCE WiFiScan
Manager == INSTANCE DeviceTable WITH Devices <- WindowsDevices
Battery == INSTANCE DisplaySleep WITH crashed <- crashedSince
Burner == INSTANCE BurnFolder

-----------------------------------------------------------------------------
(* Properties: one of each program. *)

(* WiFiManager: one attempt to connect at a time, and a table that is going *)
(* to show what the scans found, however they interleave.                   *)
TableAndButtonTrue == WiFi!TableAndButtonTrue

(* DeviceManager: the device that is disabled or enabled is the one in the  *)
(* row that was selected.                                                   *)
ToggledIsShown == Manager!ToggledIsShown

(* BatteryChecker: between two runs the system has the delay that the user  *)
(* gave it between two runs, unless one has crashed or misread it since.    *)
DelayRestored == Battery!DelayRestored

(* CDBurner: the list of names and the folder stand for the chosen files.   *)
NamesTrue == Burner!NamesTrue
=============================================================================
