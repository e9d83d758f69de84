----------------------------- MODULE USBDevices -----------------------------
(***************************************************************************)
(* The window of USBDevicesChecker (ViewController.m): a table of the USB   *)
(* devices that a timer and the mount notifications keep up to date on the  *)
(* main thread, and the ejection of the selected row by a block of a global *)
(* queue, which reads the table's array and reports through blocks of the   *)
(* main queue.  The row it was given is an index: it says nothing of the    *)
(* device that is there when it is used.                                    *)
(*                                                                         *)
(* The buses are read by two external programs, one after the other:        *)
(* system_profiler (serial numbers, disks), then ioreg (which devices).     *)
(***************************************************************************)
EXTENDS Integers, Sequences, FiniteSets, SequencesExt

CONSTANTS
    Devices,        \* each with a name of its own
    Disks,          \* those that get a BSD name once their media is found
    Unknown,        \* the text that is put in the place of a serial number
    MaxChanges,     \* bound: changes of the hardware
    MaxClicks,      \* bound: clicks on the Eject button
    MaxEvents       \* bound: changes and clicks

ASSUME DevicesAssumption == Disks \subseteq Devices /\ Unknown \notin Devices
ASSUME BoundsAssumption == MaxChanges \in Nat /\ MaxClicks \in Nat

VARIABLES
    withoutSerial,  \* the devices for which system_profiler has no serial number
    bus,            \* the devices plugged in, in the order of ioreg
    media,          \* the disks whose media was found
    changes,        \* how often the hardware changed, for MaxChanges
    mounts,         \* mount notifications to be delivered
    mainPc,         \* what the main thread is reading the devices for
    profile,        \* what system_profiler told it
    devices,        \* the rows
    selected,       \* the selected row, 0 for none
    buttons,        \* the buttons are enabled
    ejecting,       \* the flag of that name
    clicks,         \* ejections so far
    pc, row, target,\* of each ejection: where it is, its row, its disk
    mainQueue,      \* blocks dispatched to the main thread
    crashed,        \* an exception was raised that nobody catches
    unmounted,      \* history: the disks that diskutil unmounted for each ejection
    told,           \* history: the alert that each ejection has shown
    shifted         \* history: a row changed its device during an ejection, or
                    \* while it was marked

hardwareVars == <<withoutSerial, bus, media, changes>>
windowVars == <<devices, selected, buttons>>
ejectVars == <<ejecting, clicks, pc, row, target>>
readVars == <<mainPc, profile>>
historyVars == <<unmounted, told, shifted>>
vars == <<hardwareVars, mounts, readVars, windowVars, ejectVars, mainQueue, crashed,
          historyVars>>

Ejections == 1 .. MaxClicks
Blocks == [kind : {"disable", "success", "mark", "failure"}, row : Nat, of : Ejections]

(* What system_profiler listed of a device, p; all devices without a serial *)
(* number have the same text for one.  The serial number is all that tells  *)
(* one row from another; "device" is what the path of the row leads to.     *)
Description(d, p) ==
    [serial       |-> IF d \in p.listed \ withoutSerial THEN d ELSE Unknown,
     device       |-> d,
     disk         |-> d \in p.media,
     wasItEjected |-> FALSE,
     shared       |-> FALSE]

(* getDevicesInfo: a row for every device of ioreg. *)
GetDevicesInfo(p) == [i \in DOMAIN bus |-> Description(bus[i], p)]

NoProfile == [listed |-> {}, media |-> {}]

(* viewDidLoad *)
USBInit ==
    /\ withoutSerial \in SUBSET Devices
    /\ bus \in {q \in SeqOf(Devices, Cardinality(Devices)) : IsInjective(q)}
    /\ media = Disks \cap ToSet(bus)
    /\ changes = 0
    /\ mounts = 0
    /\ mainPc = "idle"
    /\ profile = NoProfile
    /\ devices = GetDevicesInfo([listed |-> ToSet(bus), media |-> media])
    /\ selected = 0
    /\ buttons = FALSE
    /\ ejecting = FALSE
    /\ clicks = 0
    /\ pc = [e \in Ejections |-> "none"]
    /\ row = [e \in Ejections |-> 0]
    /\ target = [e \in Ejections |-> Unknown]
    /\ mainQueue = <<>>
    /\ crashed = FALSE
    /\ unmounted = [e \in Ejections |-> {}]
    /\ told = [e \in Ejections |-> "nothing"]
    /\ shifted = FALSE

-----------------------------------------------------------------------------
(* The hardware. *)

Changes ==
    /\ changes < MaxChanges /\ changes + clicks < MaxEvents
    /\ changes' = changes + 1
    /\ UNCHANGED <<withoutSerial, readVars, windowVars, ejectVars, mainQueue, crashed,
                   historyVars>>

Plug(d) ==
    /\ Changes
    /\ d \notin ToSet(bus)
    /\ \E i \in 1 .. Len(bus) + 1 : bus' = InsertAt(bus, i, d)
    /\ UNCHANGED <<media, mounts>>

Unplug(d) ==
    /\ Changes
    /\ \E i \in DOMAIN bus : bus[i] = d /\ bus' = RemoveAt(bus, i)
    /\ media' = media \ {d}
    /\ UNCHANGED mounts

(* The media of a disk is found, and its volumes are mounted. *)
FindMedia(d) ==
    /\ d \in ToSet(bus) \ media
    /\ media' = media \cup {d}
    /\ mounts' = mounts + 1
    /\ UNCHANGED <<withoutSerial, bus, changes, readVars, windowVars, ejectVars, mainQueue,
                   crashed, historyVars>>

(* A user mounts a volume again. *)
Mount(d) ==
    /\ Changes
    /\ d \in media
    /\ mounts' = mounts + 1
    /\ UNCHANGED <<bus, media>>

Hardware ==
    \/ \E d \in Devices : Plug(d) \/ Unplug(d)
    \/ \E d \in Disks : FindMedia(d) \/ Mount(d)

-----------------------------------------------------------------------------
(* The main thread: the timer and the mount notification.  Both run         *)
(* system_profiler first and use its answer when ioreg has answered too.    *)

SystemProfiler(next) ==
    /\ mainPc = "idle"
    /\ mainPc' = next
    /\ profile' = [listed |-> ToSet(bus), media |-> media]
    /\ UNCHANGED <<hardwareVars, windowVars, ejectVars, mainQueue, crashed, historyVars>>

TimerFires == SystemProfiler("updateData") /\ UNCHANGED mounts

DidMount ==
    /\ mounts > 0
    /\ SystemProfiler("volumesChanged")
    /\ mounts' = mounts - 1

Lists(rows, serial) == \E i \in DOMAIN rows : rows[i].serial = serial

WithAddedButLast(rows, d) ==
    FoldLeft(LAMBDA acc, r : IF Lists(acc, r.serial) THEN acc ELSE Append(acc, r), rows,
             Front(d))

(* More devices than rows: the missing ones are added at the end. *)
WithAdded(rows, d) ==
    LET added[k \in 0 .. Len(d)] ==
            IF k = 0 THEN rows
            ELSE IF Lists(added[k - 1], d[k].serial) THEN added[k - 1]
            ELSE Append(added[k - 1], d[k])
    IN  added[Len(d)]

(* Fewer: removeObjectAtIndex inside the loop lets it skip the next row. *)
WithoutRemoved(rows, d) ==
    LET loop[k \in 0 .. Len(rows)] ==
            IF k = 0 THEN [kept |-> <<>>, skip |-> FALSE]
            ELSE IF ~ loop[k - 1].skip /\ ~ Lists(d, rows[k].serial)
            THEN [kept |-> loop[k - 1].kept, skip |-> TRUE]
            ELSE [kept |-> Append(loop[k - 1].kept, rows[k]), skip |-> FALSE]
    IN  loop[Len(rows)].kept

(* As many: rows in their old positions, whose media may have been found. *)
WithFoundMedia(rows, d) ==
    [i \in DOMAIN rows |->
        IF rows[i].serial = d[i].serial /\ ~ rows[i].disk /\ d[i].disk THEN d[i] ELSE rows[i]]

Merged(rows, d) ==
    IF Len(d) > Len(rows) THEN WithAdded(rows, d)
    ELSE IF Len(d) < Len(rows) THEN WithoutRemoved(rows, d)
    ELSE WithFoundMedia(rows, d)

(* tableViewSelectionDidChange *)
Enabled(rows, r) == r > 0 /\ rows[r].disk /\ ~ rows[r].wasItEjected

SelectionDidChange(rows, r) == IF ejecting THEN buttons ELSE Enabled(rows, r)

(* Whether some row shows another device than before. *)
Shifts(rows, new) ==
    Len(new) < Len(rows) \/ \E i \in DOMAIN rows : new[i].device # rows[i].device

Underway == {e \in Ejections : pc[e] \notin {"none", "ended"}}
Reported == {i \in DOMAIN mainQueue : mainQueue[i].kind = "success"}

(* reloadData keeps the selected row if there is one of that index. *)
UpdateData ==
    /\ mainPc = "updateData"
    /\ mainPc' = "idle"
    /\ profile' = NoProfile
    /\ devices' = Merged(devices, GetDevicesInfo(profile))
    /\ IF selected <= Len(devices')
       THEN UNCHANGED <<selected, buttons>>
       ELSE /\ selected' = 0
            /\ buttons' = SelectionDidChange(devices', 0)
    /\ shifted' = (shifted \/ (Shifts(devices, devices') /\ Underway \cup Reported # {}))
    /\ UNCHANGED <<hardwareVars, mounts, ejectVars, mainQueue, crashed, unmounted, told>>

(* The rows of one serial number are all replaced by the last description   *)
(* with it, one object that the array then holds several times; it gets the *)
(* eject status that the last of these rows had.                            *)
Redescribed(rows, i, d) ==
    LET same == {k \in DOMAIN d : d[k].serial = rows[i].serial}
        alike == {j \in DOMAIN rows : rows[j].serial = rows[i].serial}
    IN  IF same = {} THEN rows[i]
        ELSE [d[Max(same)] EXCEPT !.wasItEjected = rows[Max(alike)].wasItEjected,
                                  !.shared = (alike # {i})]

VolumesChanged ==
    /\ mainPc = "volumesChanged"
    /\ mainPc' = "idle"
    /\ profile' = NoProfile
    /\ devices' = [i \in DOMAIN devices |-> Redescribed(devices, i, GetDevicesInfo(profile))]
    /\ shifted' = (shifted \/ \E i \in DOMAIN devices :
                                 /\ devices'[i].device # devices[i].device
                                 /\ devices[i].wasItEjected \/ Underway \cup Reported # {})
    /\ UNCHANGED <<hardwareVars, mounts, selected, buttons, ejectVars, mainQueue, crashed,
                   unmounted, told>>

-----------------------------------------------------------------------------
(* The main thread: the user. *)

Select(r) ==
    /\ mainPc = "idle"
    /\ r # selected
    /\ selected' = r
    /\ buttons' = SelectionDidChange(devices, r)
    /\ UNCHANGED <<hardwareVars, mounts, readVars, devices, ejectVars, mainQueue, crashed,
                   historyVars>>

(* Mutant: an ejection that is under way is not looked at. *)
ClickedAgain ==
    /\ mainPc = "idle"
    /\ buttons
    /\ selected > 0
    /\ clicks < MaxClicks /\ changes + clicks < MaxEvents
    /\ ejecting' = TRUE
    /\ clicks' = clicks + 1
    /\ pc' = [pc EXCEPT ![clicks + 1] = "disable"]
    /\ row' = [row EXCEPT ![clicks + 1] = selected]
    /\ UNCHANGED <<hardwareVars, mounts, readVars, windowVars, target, mainQueue, crashed,
                   historyVars>>

ClickedEjectButton ==
    /\ mainPc = "idle"
    /\ buttons
    /\ selected > 0 /\ ~ ejecting
    /\ clicks < MaxClicks /\ changes + clicks < MaxEvents
    /\ ejecting' = TRUE
    /\ clicks' = clicks + 1
    /\ pc' = [pc EXCEPT ![clicks + 1] = "disable"]
    /\ row' = [row EXCEPT ![clicks + 1] = selected]
    /\ UNCHANGED <<hardwareVars, mounts, readVars, windowVars, target, mainQueue, crashed,
                   historyVars>>

-----------------------------------------------------------------------------
(* The block of the global queue. *)

Dispatch(kind, r, e) == mainQueue' = Append(mainQueue, [kind |-> kind, row |-> r, of |-> e])

DisableButtons(e) ==
    /\ pc[e] = "disable"
    /\ Dispatch("disable", 0, e)
    /\ pc' = [pc EXCEPT ![e] = "path"]
    /\ UNCHANGED <<hardwareVars, mounts, readVars, windowVars, ejecting, clicks, row, target,
                   crashed, historyVars>>

(* Mutant: the row that is selected by now is unmounted. *)
EjectPathOfSelection(e) ==
    /\ pc[e] = "path"
    /\ IF selected \in DOMAIN devices /\ devices[selected].disk
       THEN /\ target' = [target EXCEPT ![e] = devices[selected].device]
            /\ pc' = [pc EXCEPT ![e] = "unmount"]
            /\ UNCHANGED crashed
       ELSE /\ crashed' = TRUE
            /\ UNCHANGED <<target, pc>>
    /\ UNCHANGED <<hardwareVars, mounts, readVars, windowVars, ejecting, clicks, row,
                   mainQueue, historyVars>>

(* devices[row] raises for a row that is gone, insertString: for the path   *)
(* of a device that is not a disk.                                          *)
EjectPath(e) ==
    /\ pc[e] = "path"
    /\ IF row[e] \in DOMAIN devices /\ devices[row[e]].disk
       THEN /\ target' = [target EXCEPT ![e] = devices[row[e]].device]
            /\ pc' = [pc EXCEPT ![e] = "unmount"]
            /\ UNCHANGED crashed
       ELSE /\ crashed' = TRUE
            /\ UNCHANGED <<target, pc>>
    /\ UNCHANGED <<hardwareVars, mounts, readVars, windowVars, ejecting, clicks, row,
                   mainQueue, historyVars>>

(* diskutil unmountDisk succeeds or not, never for a disk that is gone. *)
UnmountDisk(e) ==
    /\ pc[e] = "unmount"
    /\ \/ /\ target[e] \in media
          /\ unmounted' = [unmounted EXCEPT ![e] = @ \cup {target[e]}]
          /\ pc' = [pc EXCEPT ![e] = "succeeded"]
       \/ /\ pc' = [pc EXCEPT ![e] = "failed"]
          /\ UNCHANGED unmounted
    /\ UNCHANGED <<hardwareVars, mounts, readVars, windowVars, ejecting, clicks, row, target,
                   mainQueue, crashed, told, shifted>>

(* Mutant: nobody is told of a failure. *)
ReportSuccess(e) ==
    /\ \/ pc[e] = "succeeded" /\ Dispatch("success", row[e], e)
       \/ pc[e] = "failed" /\ UNCHANGED mainQueue
    /\ pc' = [pc EXCEPT ![e] = "reset"]
    /\ UNCHANGED <<hardwareVars, mounts, readVars, windowVars, ejecting, clicks, row, target,
                   crashed, historyVars>>

Report(e) ==
    /\ \/ pc[e] = "succeeded" /\ Dispatch("success", row[e], e)
       \/ pc[e] = "failed" /\ Dispatch("failure", 0, e)
    /\ pc' = [pc EXCEPT ![e] = "reset"]
    /\ UNCHANGED <<hardwareVars, mounts, readVars, windowVars, ejecting, clicks, row, target,
                   crashed, historyVars>>

(* The flag is reset when the report was dispatched, not when it was read. *)
ResetEjecting(e) ==
    /\ pc[e] = "reset"
    /\ ejecting' = FALSE
    /\ pc' = [pc EXCEPT ![e] = "ended"]
    /\ row' = [row EXCEPT ![e] = 0]
    /\ target' = [target EXCEPT ![e] = Unknown]
    /\ UNCHANGED <<hardwareVars, mounts, readVars, windowVars, clicks, mainQueue, crashed,
                   historyVars>>

Ejection(e) ==
    DisableButtons(e) \/ EjectPath(e) \/ UnmountDisk(e) \/ Report(e) \/ ResetEjecting(e)

-----------------------------------------------------------------------------
(* The main thread: the blocks of the ejections.  An alert holds the main   *)
(* thread until it is dismissed; the timer does not fire meanwhile.         *)

Handles(kind) ==
    /\ mainPc = "idle"
    /\ mainQueue # <<>>
    /\ Head(mainQueue).kind = kind
    /\ UNCHANGED <<hardwareVars, mounts, readVars, selected, ejectVars, unmounted, shifted>>

Shown(answer) == told' = [told EXCEPT ![Head(mainQueue).of] = answer]

Disabled ==
    /\ Handles("disable")
    /\ mainQueue' = Tail(mainQueue)
    /\ buttons' = FALSE
    /\ UNCHANGED <<devices, crashed, told>>

(* Rows that are the same object as row r. *)
SameObject(r) ==
    {i \in DOMAIN devices :
        \/ i = r
        \/ devices[i].shared /\ devices[r].shared /\ devices[i].serial = devices[r].serial}

Succeeded ==
    /\ Handles("success")
    /\ Shown("success")
    /\ LET r == Head(mainQueue).row
       IN  IF r \in DOMAIN devices
           THEN /\ devices' = [i \in DOMAIN devices |->
                                 IF i \in SameObject(r)
                                 THEN [devices[i] EXCEPT !.wasItEjected = TRUE] ELSE devices[i]]
                /\ mainQueue' = Append(Tail(mainQueue), [Head(mainQueue) EXCEPT !.kind = "mark"])
                /\ UNCHANGED crashed
           ELSE /\ crashed' = TRUE
                /\ mainQueue' = Tail(mainQueue)
                /\ UNCHANGED devices
    /\ UNCHANGED buttons

(* viewAtColumn:row: raises for a row that is gone. *)
Marked ==
    /\ Handles("mark")
    /\ mainQueue' = Tail(mainQueue)
    /\ IF Head(mainQueue).row \in DOMAIN devices
       THEN buttons' = FALSE /\ UNCHANGED crashed
       ELSE crashed' = TRUE /\ UNCHANGED buttons
    /\ UNCHANGED <<devices, told>>

Failed ==
    /\ Handles("failure")
    /\ Shown("failure")
    /\ mainQueue' = Tail(mainQueue)
    /\ buttons' = TRUE
    /\ UNCHANGED <<devices, crashed>>

RunBlock == Disabled \/ Succeeded \/ Marked \/ Failed

User == ClickedEjectButton \/ \E r \in 0 .. Len(devices) : Select(r)

USBNext ==
    /\ ~ crashed
    /\ \/ Hardware
       \/ TimerFires \/ UpdateData
       \/ DidMount \/ VolumesChanged
       \/ User
       \/ \E e \in Ejections : Ejection(e)
       \/ RunBlock

(* The run loop serves the main queue and the notifications besides its     *)
(* timer, the external programs end, the blocks of the global queue run,    *)
(* and the media of a disk is found.                                        *)
USBFairness ==
    /\ WF_vars(~ crashed /\ (UpdateData \/ VolumesChanged))
    /\ WF_vars(~ crashed /\ TimerFires)
    /\ SF_vars(~ crashed /\ DidMount)
    /\ SF_vars(~ crashed /\ RunBlock)
    /\ \A e \in Ejections : WF_vars(~ crashed /\ Ejection(e))

USBSpec == USBInit /\ [][USBNext]_vars /\ USBFairness

-----------------------------------------------------------------------------
(* Properties. *)

(* "ejecting" admits one ejection at a time, from the click to the reset on *)
(* the other thread, whatever the alerts, the selection and a failed        *)
(* ejection make of the buttons meanwhile.                                  *)
OneEjectionAtATime == Cardinality(Underway) <= 1 /\ (Underway # {} => ejecting)

(* As long as no row changed its device during an ejection, or while it was *)
(* marked, a disk that is marked as ejected was unmounted.                  *)
MarkedWasUnmounted ==
    ~ shifted => \A i \in DOMAIN devices :
                    devices[i].wasItEjected => \E e \in Ejections : devices[i].device \in unmounted[e]

(* Devices without a serial number share a row, and rows of such devices    *)
(* stay as long as one of them is there: too few rows, but every serial     *)
(* number of the buses has one, or too many, and all have one of the buses. *)
CountBlurred ==
    LET connected == GetDevicesInfo([listed |-> ToSet(bus), media |-> media])
    IN  \/ Len(devices) < Len(bus) /\ \A i \in DOMAIN bus : Lists(devices, connected[i].serial)
        \/ Len(devices) > Len(bus) /\ \A i \in DOMAIN devices : Lists(connected, devices[i].serial)

(* When the hardware is left alone the table gets as many rows as there are *)
(* devices, although a tick may remove only every other one of those that   *)
(* are gone, and even the wrong ones while the two programs disagree.  Only *)
(* devices that cannot be told apart may keep it from that.                 *)
CountConverges == <>[](crashed \/ Len(devices) = Len(bus) \/ CountBlurred)

(* Every ejection is answered by the alert that tells how it ended, unless  *)
(* the program stops.                                                       *)
EjectionAnswered ==
    \A e \in Ejections :
        pc[e] = "disable"
            ~> (crashed \/ told[e] = (IF unmounted[e] # {} THEN "success" ELSE "failure"))

(* The comment on tableViewSelectionDidChange: the buttons are enabled and  *)
(* disabled in accordance with the parameters of the selected device.       *)
ButtonsFollowSelection ==
    mainPc = "idle" /\ ~ ejecting /\ mainQueue = <<>> /\ buttons => Enabled(devices, selected)
=============================================================================
