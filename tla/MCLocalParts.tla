---------------------------- MODULE MCLocalParts ----------------------------
(***************************************************************************)
(* The parts without a server for TLC: the containers of mailcore2 and the   *)
(* programs WiFiManager, DeviceManager, BatteryChecker and CDBurner.  They  *)
(* share nothing, so that one run checks them all: it starts one of them,   *)
(* and the variables of the others keep one initial value.  What holds in   *)
(* every behaviour of the run holds of each part alone.                     *)
(***************************************************************************)
EXTENDS Containers, LabPrograms

CONSTANTS null, x, y, cafe, home, mouse, disk, camera

VARIABLE running        \* the part that was started

mapVars == vars
wifiVars == <<scanset, shown, scans, reloads, networkToConnect, password, connectButton, attempts>>
deviceVars == <<status, refresh, _devices, table, ToggleEnabled, watching, event, lost>>
displayVars ==
    <<displaysleep, defaultDisplaySleep, app, source, notified, slider, chosen, crashes, crashedSince,
      misread>>
burnVars == <<filesName, filesPath, folder, thrown>>
localVars == <<running, mapVars, mRanges, wifiVars, deviceVars, displayVars, burnVars>>

(* Two keys of one hash value, two that share a chain of the first table    *)
(* only, and a table that grows twice; index sets of numbers up to MAX,     *)
(* which is "without end".                                                  *)
MCKeys == {"a", "b", "c", "d", "e"}
MCHash == [k \in MCKeys |-> CASE k \in {"a", "b"} -> 7 [] k = "c" -> 4 [] k = "d" -> 6 [] OTHER -> 3]
MCValues == {"v", "w"}

(* No range begins at 0, which is not a message number.                     *)
MCRanges == {r \in [location : 1..(MAX - 2), length : 0..MAX] :
                r.length = MAX \/ r.location + r.length < MAX - 2}

(* Two networks, one of them protected, a password that is too short and    *)
(* one that is not.                                                         *)
MCNetworks == {cafe, home}
MCProtected == {home}
MCPasswords == {"short", "long enough"}

MCWindowsDevices == {mouse, disk, camera}

(* Two files that are called a.txt, one that is called "a (new).txt", an    *)
(* A.txt and two README; the usual file system of a Mac ignores case.       *)
MCPaths == {"/a.txt", "/x/a.txt", "/a (new).txt", "/A.txt", "/README", "/x/README"}
MCStems == {"a.txt", "A.txt", "README"}
MCDotted == {"a.txt", "A.txt"}
MCNameOf ==
    [p \in MCPaths |->
        [stem |-> CASE p = "/A.txt" -> "A.txt"
                    [] p \in {"/README", "/x/README"} -> "README"
                    [] OTHER -> "a.txt",
         new |-> IF p = "/a (new).txt" THEN 1 ELSE 0]]
MCSame(m, n) == m.new = n.new /\ (m.stem = n.stem \/ {m.stem, n.stem} = {"a.txt", "A.txt"})

MCInit ==
    /\ running \in {"map", "sets", "WiFiManager", "DeviceManager", "BatteryChecker", "CDBurner"}
    /\ Init /\ Set!Init
    /\ WiFi!Init /\ Manager!Init /\ Battery!Init /\ Burner!Init
    /\ running # "WiFiManager" => scanset = <<>> /\ password = "short"
    /\ running # "DeviceManager" => status = <<>>
    /\ running # "BatteryChecker" => displaysleep = 1 /\ source = "AC Power"

MCNext ==
    /\ UNCHANGED running
    /\ \/ /\ running = "map" /\ Next
          /\ UNCHANGED <<mRanges, wifiVars, deviceVars, displayVars, burnVars>>
       \/ /\ running = "sets" /\ Set!UnbridgedNext
          /\ UNCHANGED <<mapVars, wifiVars, deviceVars, displayVars, burnVars>>
       \/ /\ running = "WiFiManager" /\ WiFi!Next
          /\ UNCHANGED <<mapVars, mRanges, deviceVars, displayVars, burnVars>>
       \/ /\ running = "DeviceManager" /\ Manager!Next
          /\ UNCHANGED <<mapVars, mRanges, wifiVars, displayVars, burnVars>>
       \/ /\ running = "BatteryChecker" /\ Battery!Next
          /\ UNCHANGED <<mapVars, mRanges, wifiVars, deviceVars, burnVars>>
       \/ /\ running = "CDBurner" /\ Burner!Next
          /\ UNCHANGED <<mapVars, mRanges, wifiVars, deviceVars, displayVars>>

MCSpec == MCInit /\ [][MCNext]_localVars
=============================================================================
