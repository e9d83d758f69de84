---------------------------- MODULE DeviceTable ----------------------------
(***************************************************************************)
(* DeviceManager: the table of the devices, the event watcher that refreshes *)
(* it on another thread, and the button that disables and enables a device.  *)
(*                                                                         *)
(* Events that arrive while the watcher is stopped are lost.  One handler   *)
(* runs at a time: the watcher is started again by its last statement.      *)
(* Invoke runs a function on the thread of the form and waits for it.       *)
(***************************************************************************)
EXTENDS Naturals, Sequences, SequencesExt

CONSTANT Devices

VARIABLES
    status,         \* of the devices that are plugged in, in the system
    refresh,        \* the statement UpdateTableContent has come to
    _devices,
    table,          \* the devices of the rows
    ToggleEnabled,
    watching, event,        \* the watcher is started, an event has not been handled
    lost            \* one was lost since the devices were last read

vars == <<status, refresh, _devices, table, ToggleEnabled, watching, event, lost>>
window == <<refresh, _devices, table, ToggleEnabled>>

Statuses == {"Enabled", "Disabled"}
Plugged == UNION {[D -> Statuses] : D \in SUBSET Devices}
Lists == UNION {SetToSeqs(D) : D \in SUBSET Devices}

(* LoadingTheView calls UpdateTableContent before the form is shown.        *)
Init ==
    /\ status \in Plugged
    /\ refresh = "Load"
    /\ _devices = <<>> /\ table = <<>>
    /\ ToggleEnabled = TRUE
    /\ watching = FALSE /\ event = FALSE /\ lost = FALSE

(* Win32_DeviceChangeEvent.                                                 *)
Change(s) ==
    /\ status' = s
    /\ event' = (event \/ watching)
    /\ lost' = (lost \/ ~ watching)

PlugOrUnplug ==
    /\ \E s \in Plugged : DOMAIN s # DOMAIN status /\ Change(s)
                          /\ \A d \in DOMAIN s \cap DOMAIN status : s[d] = status[d]
    /\ UNCHANGED <<window, watching>>

-----------------------------------------------------------------------------
(* UpdateTableContent *)

Stop ==
    /\ refresh = "none" /\ event
    /\ event' = FALSE /\ watching' = FALSE
    /\ refresh' = "stopped"
    /\ UNCHANGED <<status, _devices, table, ToggleEnabled, lost>>

\* Mutant: the button stays as it is.
ToggleOffForgotten ==
    /\ refresh \in {"stopped", "Load"}
    /\ refresh' = "off"
    /\ UNCHANGED <<status, _devices, table, ToggleEnabled, watching, event, lost>>

ToggleOff ==
    /\ refresh \in {"stopped", "Load"}
    /\ refresh' = "off"
    /\ ToggleEnabled' = ~ ToggleEnabled
    /\ UNCHANGED <<status, _devices, table, watching, event, lost>>

(* The order of the list is that of WMI.                                    *)
GetAllDevicesInfo ==
    /\ refresh = "off"
    /\ refresh' = "read"
    /\ _devices' \in SetToSeqs(DOMAIN status)
    /\ lost' = FALSE
    /\ UNCHANGED <<status, table, ToggleEnabled, watching, event>>

FillTheTableWithContent ==
    /\ refresh = "read"
    /\ refresh' = "filled"
    /\ table' = _devices
    /\ UNCHANGED <<status, _devices, ToggleEnabled, watching, event, lost>>

ToggleOn ==
    /\ refresh = "filled"
    /\ refresh' = "on"
    /\ ToggleEnabled' = ~ ToggleEnabled
    /\ UNCHANGED <<status, _devices, table, watching, event, lost>>

Start ==
    /\ refresh = "on"
    /\ refresh' = "none"
    /\ watching' = TRUE
    /\ UNCHANGED <<status, _devices, table, ToggleEnabled, event, lost>>

-----------------------------------------------------------------------------
(* The button *)

(* The status is that of the device object, which was read with the list;   *)
(* here it is the present one or the other one.  The device may refuse.     *)
ToggleClick(row) ==
    /\ ToggleEnabled /\ refresh # "Load"
    /\ row \in 1..Len(table) /\ row <= Len(_devices)
    /\ LET d == _devices[row]
       IN  /\ d \in DOMAIN status
           /\ \E s \in Statuses : s # status[d] /\ Change([status EXCEPT ![d] = s])
    /\ UNCHANGED <<window, watching>>

Next ==
    \/ PlugOrUnplug
    \/ Stop \/ ToggleOff \/ GetAllDevicesInfo \/ FillTheTableWithContent \/ ToggleOn \/ Start
    \/ \E row \in 1..Len(table) : ToggleClick(row)

Spec == Init /\ [][Next]_vars

-----------------------------------------------------------------------------
(* Properties *)

(* The device that is disabled or enabled is the one in the row that was    *)
(* selected, although _devices is replaced on another thread before the     *)
(* rows are (Toogle_Click, UpdateTableContent).                             *)
ToggledIsShown ==
    [][\A r \in 1..Len(table) :
          ToggleClick(r) => \A d \in DOMAIN status : status'[d] # status[d] => d = table[r]]_vars

=============================================================================
