------------------------------ MODULE WiFiScan ------------------------------
(***************************************************************************)
(* WiFiManager's window (WiFiManager/ViewController.m): the table of the    *)
(* networks in reach, and the connection to the one that is selected.       *)
(*                                                                         *)
(* A timer starts a scan on a concurrent queue every two seconds; scanset   *)
(* is replaced there, while the table of the main thread shows the set of   *)
(* its last reloadData.  A set of networks is a sequence here, in the order *)
(* of allObjects; two scans make two orders.                                *)
(***************************************************************************)
EXTENDS Naturals, Sequences, SequencesExt

CONSTANTS
    Networks,
    Protected,      \* those with security
    Passwords,      \* that may be in the text field
    MaxScans        \* scans that are at work at one time

NoNetwork == "NoNetwork"
Empty == "short"        \* stands for a password of less than eight characters

VARIABLES
    scanset,
    shown,          \* the set of the last reloadData
    scans,          \* the blocks that scan: their state and tempScanset, by thread
    reloads,        \* reloadData is posted to the main queue
    networkToConnect,
    password,       \* the text field
    connectButton,  \* is enabled
    attempts        \* clicks on Connect that have not ended with their alert

vars == <<scanset, shown, scans, reloads, networkToConnect, password, connectButton, attempts>>
table == <<scanset, shown, scans, reloads>>
panel == <<networkToConnect, password, connectButton, attempts>>

Threads == 1..MaxScans
Air == UNION {SetToSeqs(N) : N \in SUBSET Networks}
NoScan == [state |-> "none", temp |-> <<>>]

(* viewDidLoad is over, and its first scan has come back.                   *)
Init ==
    /\ scanset \in Air
    /\ shown = <<>>
    /\ scans = [t \in Threads |-> NoScan]
    /\ reloads = TRUE
    /\ networkToConnect = NoNetwork
    /\ password \in Passwords
    /\ connectButton = TRUE
    /\ attempts = {}

-----------------------------------------------------------------------------
(* scanCacheUpdatedForWiFiInterfaceWithName *)

(* The timer starts a block, and scanForNetworksWithSSID returns in it.     *)
Scan(t) ==
    /\ scans[t].state = "none"
    /\ \E found \in Air : scans' = [scans EXCEPT ![t] = [state |-> "scanned", temp |-> found]]
    /\ UNCHANGED <<scanset, shown, reloads, panel>>

(* Only another number of networks, or a new one, replaces the set.  Each   *)
(* of the three statements finds the set as another scan may have left it.  *)
CompareCounts(t) ==
    /\ scans[t].state = "scanned"
    /\ scans' = [scans EXCEPT ![t].state =
                    IF Len(scanset) = Len(scans[t].temp) THEN "counted" ELSE "found"]
    /\ UNCHANGED <<scanset, shown, reloads, panel>>

CompareNetworks(t) ==
    /\ scans[t].state = "counted"
    /\ scans' = [scans EXCEPT ![t] =
                    IF ToSet(@.temp) \subseteq ToSet(scanset) THEN NoScan
                    ELSE [@ EXCEPT !.state = "found"]]
    /\ UNCHANGED <<scanset, shown, reloads, panel>>

ReplaceScanset(t) ==
    /\ scans[t].state = "found"
    /\ scanset' = scans[t].temp
    /\ scans' = [scans EXCEPT ![t].state = "replaced"]
    /\ UNCHANGED <<shown, reloads, panel>>

\* Mutant: the table is not told.
PostReloadForgotten(t) ==
    /\ scans[t].state = "replaced"
    /\ scans' = [scans EXCEPT ![t] = NoScan]
    /\ UNCHANGED <<scanset, shown, reloads, panel>>

PostReload(t) ==
    /\ scans[t].state = "replaced"
    /\ scans' = [scans EXCEPT ![t] = NoScan]
    /\ reloads' = TRUE
    /\ UNCHANGED <<scanset, shown, panel>>

(* numberOfRowsInTableView and viewForTableColumn of every row.             *)
ReloadData ==
    /\ reloads /\ reloads' = FALSE
    /\ shown' = scanset
    /\ UNCHANGED <<scanset, scans, panel>>

-----------------------------------------------------------------------------
(* The selection and the Connect button *)

(* arr[row] is a network of the present set; beyond its end it throws, and  *)
(* the run loop goes on.                                                    *)
TableViewSelectionDidChange(row) ==
    /\ row \in 1..Len(shown)
    /\ networkToConnect' = IF row <= Len(scanset) THEN scanset[row] ELSE networkToConnect
    /\ UNCHANGED <<table, password, connectButton, attempts>>

TypePassword ==
    /\ password' \in Passwords
    /\ UNCHANGED <<table, networkToConnect, connectButton, attempts>>

(* A network that is out of reach now starts nothing, not even an alert.    *)
(* The empty network of viewDidLoad counts as a protected one.              *)
ClickedConnectButton ==
    /\ connectButton
    /\ connectButton' = FALSE
    /\ LET open == networkToConnect \in Networks \ Protected
       IN  IF ~ open /\ password = Empty THEN
              attempts' = attempts \cup {[state |-> "alert", open |-> open]}
           ELSE
              attempts' = attempts \cup
                 (IF networkToConnect \in ToSet(scanset) THEN {[state |-> "queued", open |-> open]}
                                                         ELSE {})
    /\ UNCHANGED <<table, networkToConnect, password>>

(* On the concurrent queue; well or badly, an alert is posted.              *)
Associate(a) ==
    /\ a \in attempts /\ a.state = "queued"
    /\ attempts' = (attempts \ {a}) \cup {[a EXCEPT !.state = "alert"]}
    /\ UNCHANGED <<table, networkToConnect, password, connectButton>>

AlertCloses(a) ==
    /\ a \in attempts /\ a.state = "alert"
    /\ attempts' = attempts \ {a}
    /\ connectButton' = TRUE
    /\ UNCHANGED <<table, networkToConnect, password>>

Next ==
    \/ \E t \in Threads :
           Scan(t) \/ CompareCounts(t) \/ CompareNetworks(t) \/ ReplaceScanset(t) \/ PostReload(t)
    \/ ReloadData
    \/ \E row \in 1..Len(shown) : TableViewSelectionDidChange(row)
    \/ TypePassword
    \/ ClickedConnectButton
    \/ \E a \in attempts : Associate(a) \/ AlertCloses(a)

Spec == Init /\ [][Next]_vars

-----------------------------------------------------------------------------
(* Properties *)

(* While one connection is attempted no other is, whatever the user selects *)
(* and types meanwhile (clickedConnectButton).                              *)
OneAttemptAtATime == attempts # {} => ~ connectButton /\ \A a, b \in attempts : a = b

(* A table that shows another set than the last scan is going to be         *)
(* reloaded, whichever of two scans is faster.                              *)
ReloadIsUnderWay == shown # scanset => reloads \/ \E t \in Threads : scans[t].state = "replaced"

(* However the scans, the user and the connections interleave.              *)
TableAndButtonTrue == OneAttemptAtATime /\ ReloadIsUnderWay
=============================================================================
