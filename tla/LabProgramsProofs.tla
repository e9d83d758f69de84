-------------------------- MODULE LabProgramsProofs --------------------------
(***************************************************************************)
(* Proofs about the programs of the laboratory works, for any devices,      *)
(* networks, delays and files: the ejection of a disk in USBDevicesChecker,  *)
(* the connection and the table of WiFiManager, the button of DeviceManager, *)
(* the delay that BatteryChecker restores and the names that CDBurner gives. *)
(*                                                                          *)
(* The programs share nothing; each has the invariant it needs.             *)
(***************************************************************************)
EXTENDS USBDevices, LabPrograms, QueueLemmas, FiniteSetTheorems

-----------------------------------------------------------------------------
(* USBDevicesChecker: one ejection at a time. *)

(* Where an ejection is.                                                    *)
Pcs == {"none", "disable", "path", "unmount", "succeeded", "failed", "reset", "ended"}

(* The flag stands for the ejection that goes on, the last one begun. *)
EjectionInv ==
    /\ clicks \in 0 .. MaxClicks
    /\ pc \in [Ejections -> Pcs]
    /\ ejecting \in BOOLEAN
    /\ \A e \in Ejections : pc[e] # "none" => e <= clicks
    /\ \A e \in Ejections : e \in Underway <=> ejecting /\ e = clicks

(* Then there is at most one.                                               *)
LEMMA OneUnderway == EjectionInv => OneEjectionAtATime
<1> SUFFICES ASSUME EjectionInv PROVE OneEjectionAtATime
  OBVIOUS
<1>1. CASE Underway = {}
  BY <1>1, FS_EmptySet DEF OneEjectionAtATime
<1>2. CASE Underway # {}
  <2>1. ejecting /\ Underway = {clicks}
    BY <1>2 DEF EjectionInv, Underway
  <2> QED BY <2>1, FS_Singleton DEF OneEjectionAtATime
<1> QED BY <1>1, <1>2

(* However often the button is clicked, at most one ejection is under way:  *)
(* the flag that the click sets is reset only at the end of its own ejection *)
(* (ViewController.m:105-174).                                              *)
THEOREM OneAtATime == USBSpec => []OneEjectionAtATime
<1>1. USBInit => EjectionInv
  <2> SUFFICES ASSUME USBInit PROVE EjectionInv
    OBVIOUS
  <2>1. clicks = 0 /\ ejecting = FALSE /\ pc = [e \in Ejections |-> "none"]
    BY DEF USBInit
  <2>2. pc \in [Ejections -> Pcs]
    BY <2>1 DEF Pcs
  <2>3. clicks \in 0 .. MaxClicks
    BY <2>1, BoundsAssumption
  <2>5. ejecting \in BOOLEAN
    BY <2>1
  <2>4. \A e \in Ejections : pc[e] = "none"
    BY <2>1
  <2> QED BY <2>1, <2>2, <2>3, <2>4, <2>5 DEF EjectionInv, Underway
<1>2. EjectionInv /\ [USBNext]_vars => EjectionInv'
  <2> SUFFICES ASSUME EjectionInv, [USBNext]_vars PROVE EjectionInv'
    OBVIOUS
  <2>1. ASSUME UNCHANGED <<clicks, pc, ejecting>> PROVE EjectionInv'
    BY <2>1 DEF EjectionInv, Underway, Ejections
  <2>2. CASE Hardware
    BY <2>1, <2>2 DEF Hardware, Plug, Unplug, FindMedia, Mount, Changes, ejectVars
  <2>3. CASE TimerFires \/ UpdateData \/ DidMount \/ VolumesChanged
    BY <2>1, <2>3 DEF TimerFires, UpdateData, DidMount, VolumesChanged, SystemProfiler, ejectVars
  <2>4. CASE \E r \in 0 .. Len(devices) : Select(r)
    BY <2>1, <2>4 DEF Select, ejectVars
  <2>5. CASE ClickedEjectButton
    <3>1. clicks + 1 \in Ejections /\ clicks' = clicks + 1 /\ clicks' \in 0 .. MaxClicks
      BY <2>5, BoundsAssumption DEF ClickedEjectButton, EjectionInv, Ejections
    <3>2. ~ ejecting /\ ejecting' = TRUE /\ pc' = [pc EXCEPT ![clicks + 1] = "disable"]
      BY <2>5 DEF ClickedEjectButton
    <3> QED BY <3>1, <3>2 DEF EjectionInv, Underway, Ejections, Pcs
  <2>6. ASSUME NEW e \in Ejections, DisableButtons(e) \/ EjectPath(e) \/ UnmountDisk(e) \/ Report(e)
        PROVE  EjectionInv'
    <3>1. clicks' = clicks /\ ejecting' = ejecting /\ pc[e] \notin {"none", "ended"}
      BY <2>6 DEF DisableButtons, EjectPath, UnmountDisk, Report
    <3>2. PICK p \in Pcs \ {"none", "ended"} : pc' = [pc EXCEPT ![e] = p]
      BY <2>6 DEF DisableButtons, EjectPath, UnmountDisk, Report, EjectionInv, Pcs
    <3> QED BY <3>1, <3>2 DEF EjectionInv, Underway, Ejections, Pcs
  <2>7. ASSUME NEW e \in Ejections, ResetEjecting(e) PROVE EjectionInv'
    <3>1. clicks' = clicks /\ ~ ejecting' /\ ejecting' \in BOOLEAN /\ pc[e] = "reset"
          /\ pc' = [pc EXCEPT ![e] = "ended"]
      BY <2>7 DEF ResetEjecting
    <3>2. e = clicks
      BY <3>1 DEF EjectionInv, Underway
    <3> QED BY <3>1, <3>2 DEF EjectionInv, Underway, Ejections, Pcs
  <2>8. CASE RunBlock
    BY <2>1, <2>8 DEF RunBlock, Disabled, Succeeded, Marked, Failed, Handles, ejectVars
  <2>9. CASE UNCHANGED vars
    BY <2>1, <2>9 DEF vars, ejectVars
  <2> QED BY <2>2, <2>3, <2>4, <2>5, <2>6, <2>7, <2>8, <2>9 DEF USBNext, User, Ejection
<1> QED BY <1>1, <1>2, OneUnderway, PTL DEF USBSpec

-----------------------------------------------------------------------------
(* USBDevicesChecker: what the marks say. *)

(* The rows of the table.                                                   *)
Row == [serial : Devices \cup {Unknown}, device : Devices, disk : BOOLEAN,
        wasItEjected : BOOLEAN, shared : BOOLEAN]

(* The devices that were unmounted by any ejection.                         *)
Unmounted == UNION {unmounted[e] : e \in Ejections}

(* Those that are marked only if the device was unmounted.                  *)
Honest(U) == {r \in Row : r.wasItEjected => r.device \in U}

(* The types of the variables of the window.                                *)
WindowTypeOK ==
    /\ bus \in Seq(Devices)
    /\ devices \in Seq(Row)
    /\ selected \in Nat
    /\ pc \in [Ejections -> Pcs]
    /\ row \in [Ejections -> Nat]
    /\ target \in [Ejections -> Devices \cup {Unknown}]
    /\ mainQueue \in Seq(Blocks)
    /\ unmounted \in [Ejections -> SUBSET (Devices \cup {Unknown})]

(* Rows that are one object lead to one device.                             *)
SharedAlike ==
    \A i, j \in DOMAIN devices :
        devices[i].shared /\ devices[j].shared /\ devices[i].serial = devices[j].serial
            => devices[i].device = devices[j].device

(* As long as no row has changed its device under an ejection: *)
TargetKept ==
    \A e \in Ejections :
        /\ pc[e] \in {"unmount", "succeeded"}
               => row[e] \in DOMAIN devices /\ devices[row[e]].device = target[e]
        /\ pc[e] = "succeeded" => target[e] \in Unmounted

(* A block that reports success points to the row of a device that was      *)
(* unmounted.                                                               *)
ReportTrue ==
    \A i \in DOMAIN mainQueue :
        mainQueue[i].kind = "success"
            => /\ mainQueue[i].row \in DOMAIN devices
               /\ devices[mainQueue[i].row].device \in Unmounted

(* The inductive invariant.                                                 *)
MarkInv ==
    /\ WindowTypeOK
    /\ SharedAlike
    /\ ~ shifted => devices \in Seq(Honest(Unmounted)) /\ TargetKept /\ ReportTrue

(* The three loops of updateData make tables out of rows of the old table   *)
(* and of the new descriptions.                                             *)
LEMMA RowsAdded ==
    ASSUME NEW R, NEW rows \in Seq(R), NEW d \in Seq(R)
    PROVE  WithAdded(rows, d) \in Seq(R)
<1> DEFINE n == Len(d)
           Q == Seq(R)
           Next1(s, k) == IF Lists(s, d[k].serial) THEN s ELSE Append(s, d[k])
           F(a) == [k \in 0 .. n |-> IF k = 0 THEN rows ELSE Next1(a[k - 1], k)]
           added == CHOOSE a : a = F(a)
           G == [k \in 1 .. n |-> [s \in Q |-> Next1(s, k)]]
<1>1. WithAdded(rows, d) = added[n]
  BY DEF WithAdded
<1>2. n \in Nat /\ \A k \in 1 .. n : d[k] \in R
  BY LenProperties, ElementOfSeq
<1>3. ASSUME NEW s \in Seq(R), NEW k \in 1 .. n PROVE Next1(s, k) \in Seq(R)
  BY <1>2, <1>3, AppendProperties
<1>4. added = F(added)
  <2>1. G \in [1 .. n -> [Q -> Q]] /\ rows \in Q
    BY <1>3
  <2>2. PICK f : RunOf(f, n, Q, rows, G)
    <3> HIDE DEF G, n, Q
    <3> QED BY <1>2, <2>1, RunExists
  <2>3. ASSUME NEW k \in 0 .. n PROVE f[k] = IF k = 0 THEN rows ELSE Next1(f[k - 1], k)
    <3>1. CASE k = 0
      BY <2>2, <3>1 DEF RunOf
    <3>2. CASE k # 0
      <4>1. k \in 1 .. n /\ k - 1 \in 0 .. n
        BY <1>2, <3>2
      <4>2. f[k - 1] \in Q
        BY <2>2, <4>1 DEF RunOf
      <4>3. G[k][f[k - 1]] = Next1(f[k - 1], k)
        BY <4>1, <4>2
      <4> QED BY <2>2, <3>2, <4>1, <4>3 DEF RunOf
    <3> QED BY <3>1, <3>2
  <2>4. f = F(f)
    BY <2>2, <2>3 DEF RunOf
  <2> HIDE DEF F
  <2> QED BY <2>4
<1>5. added[0] = rows /\ \A k \in 1 .. n : added[k] = Next1(added[k - 1], k)
  <2> HIDE DEF added
  <2>1. \A k \in 0 .. n : added[k] = IF k = 0 THEN rows ELSE Next1(added[k - 1], k)
    BY <1>4
  <2> QED BY <1>2, <2>1
<1>6. added[0] \in Q /\ \A k \in 1 .. n : added[k - 1] \in Q => added[k] \in Q
  BY <1>3, <1>5
<1>7. \A k \in 0 .. n : added[k] \in Q
  <2> HIDE DEF added, Q, n
  <2> QED BY <1>2, <1>6, RunStays
<1>8. n \in 0 .. n
  BY <1>2
<1> QED BY <1>1, <1>7, <1>8

(* The loop that removes rows keeps some of them.                           *)
LEMMA RowsRemoved ==
    ASSUME NEW R, NEW rows \in Seq(R), NEW d
    PROVE  WithoutRemoved(rows, d) \in Seq(R)
<1> DEFINE n == Len(rows)
           Q == [kept : Seq(R), skip : BOOLEAN]
           b == [kept |-> <<>>, skip |-> FALSE]
           Next1(s, k) == IF ~ s.skip /\ ~ Lists(d, rows[k].serial)
                          THEN [kept |-> s.kept, skip |-> TRUE]
                          ELSE [kept |-> Append(s.kept, rows[k]), skip |-> FALSE]
           F(a) == [k \in 0 .. n |-> IF k = 0 THEN b ELSE Next1(a[k - 1], k)]
           loop == CHOOSE a : a = F(a)
           G == [k \in 1 .. n |-> [s \in Q |-> Next1(s, k)]]
<1>1. WithoutRemoved(rows, d) = loop[n].kept
  BY DEF WithoutRemoved
<1>2. n \in Nat /\ \A k \in 1 .. n : rows[k] \in R
  BY LenProperties, ElementOfSeq
<1>3. ASSUME NEW s \in Q, NEW k \in 1 .. n PROVE Next1(s, k) \in Q
  <2>1. Append(s.kept, rows[k]) \in Seq(R)
    BY <1>2, AppendProperties
  <2> QED BY <2>1
<1>0. b \in Q
  BY EmptySeq
<1>4. loop = F(loop)
  <2>1. G \in [1 .. n -> [Q -> Q]]
    BY <1>3
  <2>2. PICK f : RunOf(f, n, Q, b, G)
    <3> HIDE DEF G, n, Q, b
    <3> QED BY <1>0, <1>2, <2>1, RunExists
  <2>3. ASSUME NEW k \in 0 .. n PROVE f[k] = IF k = 0 THEN b ELSE Next1(f[k - 1], k)
    <3> HIDE DEF Next1, b, Q
    <3>1. CASE k = 0
      BY <2>2, <3>1 DEF RunOf
    <3>2. CASE k # 0
      <4>1. k \in 1 .. n /\ k - 1 \in 0 .. n
        BY <1>2, <3>2
      <4>2. f[k - 1] \in Q
        BY <2>2, <4>1 DEF RunOf
      <4>3. G[k][f[k - 1]] = Next1(f[k - 1], k)
        BY <4>1, <4>2
      <4> QED BY <2>2, <3>2, <4>1, <4>3 DEF RunOf
    <3> QED BY <3>1, <3>2
  <2>4. f = F(f)
    <3> HIDE DEF Next1, b, Q
    <3> QED BY <2>2, <2>3 DEF RunOf
  <2> HIDE DEF F
  <2> QED BY <2>4
<1>5. loop[0] = b /\ \A k \in 1 .. n : loop[k] = Next1(loop[k - 1], k)
  <2> HIDE DEF loop, Next1, b
  <2>1. \A k \in 0 .. n : loop[k] = IF k = 0 THEN b ELSE Next1(loop[k - 1], k)
    BY <1>4
  <2> QED BY <1>2, <2>1
<1>6. loop[0] \in Q /\ \A k \in 1 .. n : loop[k - 1] \in Q => loop[k] \in Q
  <2> HIDE DEF loop, Next1, b, Q
  <2> QED BY <1>0, <1>3, <1>5
<1>7. \A k \in 0 .. n : loop[k] \in Q
  <2> HIDE DEF loop, Q, n
  <2> QED BY <1>2, <1>6, RunStays
<1>8. n \in 0 .. n
  BY <1>2
<1>9. loop[n] \in Q
  BY <1>7, <1>8
<1>10. loop[n].kept \in Seq(R)
  <2> HIDE DEF loop, n
  <2> QED BY <1>9
<1> HIDE DEF loop
<1> QED BY <1>1, <1>10

(* So does each of the three branches.                                      *)
LEMMA RowsMerged ==
    ASSUME NEW R, NEW rows \in Seq(R), NEW d \in Seq(R)
    PROVE  Merged(rows, d) \in Seq(R)
<1>1. /\ Len(rows) \in Nat /\ Len(d) \in Nat
      /\ DOMAIN rows = 1 .. Len(rows) /\ DOMAIN d = 1 .. Len(d)
      /\ \A i \in 1 .. Len(rows) : rows[i] \in R
      /\ \A i \in 1 .. Len(d) : d[i] \in R
  BY LenProperties, ElementOfSeq
<1>2. ASSUME Len(rows) = Len(d) PROVE WithFoundMedia(rows, d) \in Seq(R)
  <2>1. \A i \in 1 .. Len(rows) : WithFoundMedia(rows, d)[i] \in R
    BY <1>1, <1>2 DEF WithFoundMedia
  <2>2. WithFoundMedia(rows, d) \in [1 .. Len(rows) -> R]
    BY <1>1, <2>1 DEF WithFoundMedia
  <2> QED BY <1>1, <2>2, SeqDef
<1>3. WithAdded(rows, d) \in Seq(R)
  BY RowsAdded
<1>4. WithoutRemoved(rows, d) \in Seq(R)
  BY RowsRemoved
<1>5. CASE Len(d) > Len(rows)
  BY <1>3, <1>5 DEF Merged
<1>6. CASE Len(d) < Len(rows)
  BY <1>1, <1>4, <1>6 DEF Merged
<1>7. CASE Len(d) = Len(rows)
  BY <1>1, <1>2, <1>7 DEF Merged
<1>8. Len(d) > Len(rows) \/ Len(d) < Len(rows) \/ Len(d) = Len(rows)
  <2>1. \A a, b \in Nat : a > b \/ a < b \/ a = b
    OBVIOUS
  <2> QED BY <1>1, <2>1
<1> QED BY <1>5, <1>6, <1>7, <1>8

(* The description of a device is a row of its own that nobody has marked.  *)
LEMMA DescriptionRow ==
    ASSUME NEW d \in Devices, NEW p, NEW U
    PROVE  Description(d, p) \in Honest(U) /\ ~ Description(d, p).shared
BY DEF Description, Honest, Row

(* The descriptions make such rows.                                         *)
LEMMA NewRows ==
    ASSUME bus \in Seq(Devices), NEW p, NEW U
    PROVE  GetDevicesInfo(p) \in Seq({r \in Honest(U) : ~ r.shared})
<1>1. DOMAIN bus = 1 .. Len(bus) /\ Len(bus) \in Nat /\ \A i \in 1 .. Len(bus) : bus[i] \in Devices
  BY LenProperties, ElementOfSeq
<1>2. GetDevicesInfo(p) \in [1 .. Len(bus) -> {r \in Honest(U) : ~ r.shared}]
  BY <1>1, DescriptionRow DEF GetDevicesInfo
<1> QED BY <1>1, <1>2, SeqDef

(* They are rows of the table, and honest.                                  *)
LEMMA NewRowsHonest ==
    ASSUME bus \in Seq(Devices), NEW p, NEW U
    PROVE  /\ GetDevicesInfo(p) \in Seq(Row) /\ GetDevicesInfo(p) \in Seq(Honest(U))
           /\ \A i \in DOMAIN GetDevicesInfo(p) : ~ GetDevicesInfo(p)[i].shared
<1> DEFINE d == GetDevicesInfo(p)
<1>1. d \in Seq({r \in Honest(U) : ~ r.shared})
  BY NewRows
<1> HIDE DEF d
<1>2. \A i \in DOMAIN d : d[i] \in {r \in Honest(U) : ~ r.shared}
  BY <1>1, ElementOfSeq, LenProperties
<1>3. \A i \in DOMAIN d : d[i] \in Honest(U) /\ d[i] \in Row /\ ~ d[i].shared
  BY <1>2 DEF Honest
<1> QED BY <1>1, <1>3, SeqPart DEF d

(* What the last description with the serial number x leads to.             *)
Newest(x, d) == d[Max({k \in DOMAIN d : d[k].serial = x})].device

(* A row that is described again keeps its serial number; it leads to what  *)
(* all rows of that serial number lead to then, and has the mark of one.    *)
LEMMA RedescribedRow ==
    ASSUME NEW rows \in Seq(Row), NEW d \in Seq(Row), NEW i \in DOMAIN rows
    PROVE  /\ Redescribed(rows, i, d) \in Row
           /\ Redescribed(rows, i, d).serial = rows[i].serial
           /\ (\A k \in DOMAIN d : d[k].serial # rows[i].serial) => Redescribed(rows, i, d) = rows[i]
           /\ (\E k \in DOMAIN d : d[k].serial = rows[i].serial)
                  => /\ Redescribed(rows, i, d).device = Newest(rows[i].serial, d)
                     /\ \E m \in DOMAIN rows : /\ rows[m].serial = rows[i].serial
                                               /\ Redescribed(rows, i, d).wasItEjected = rows[m].wasItEjected
<1> DEFINE same == {k \in DOMAIN d : d[k].serial = rows[i].serial}
           alike == {j \in DOMAIN rows : rows[j].serial = rows[i].serial}
<1>1. /\ Len(d) \in Nat /\ same \subseteq 1 .. Len(d)
      /\ Len(rows) \in Nat /\ alike \subseteq 1 .. Len(rows) /\ i \in alike
      /\ rows[i] \in Row
  BY LenProperties, ElementOfSeq
<1>2. CASE same = {}
  BY <1>1, <1>2 DEF Redescribed
<1>3. CASE same # {}
  <2>1. Max(same) \in same
    <3> HIDE DEF same
    <3> QED BY <1>1, <1>3, LargestNumber DEF Max
  <2>2. Max(alike) \in alike
    <3> HIDE DEF alike
    <3> QED BY <1>1, LargestNumber DEF Max
  <2>3. Redescribed(rows, i, d) = [d[Max(same)] EXCEPT !.wasItEjected = rows[Max(alike)].wasItEjected,
                                                       !.shared = (alike # {i})]
    BY <1>3 DEF Redescribed
  <2>4. d[Max(same)] \in Row /\ d[Max(same)].serial = rows[i].serial
    BY <1>1, <2>1, ElementOfSeq
  <2>5. rows[Max(alike)] \in Row /\ rows[Max(alike)].serial = rows[i].serial /\ Max(alike) \in DOMAIN rows
    BY <1>1, <2>2, ElementOfSeq
  <2>6. Newest(rows[i].serial, d) = d[Max(same)].device
    BY DEF Newest
  <2> HIDE DEF same, alike
  <2>7. /\ Redescribed(rows, i, d) \in Row
        /\ Redescribed(rows, i, d).serial = rows[i].serial
        /\ Redescribed(rows, i, d).device = d[Max(same)].device
        /\ Redescribed(rows, i, d).wasItEjected = rows[Max(alike)].wasItEjected
    BY <2>3, <2>4, <2>5 DEF Row
  <2>8. ~ \A k \in DOMAIN d : d[k].serial # rows[i].serial
    BY <1>3 DEF same
  <2> QED BY <2>5, <2>6, <2>7, <2>8
<1> QED BY <1>2, <1>3

(* When a table is honest.                                                  *)
LEMMA HonestRows ==
    ASSUME NEW U
    PROVE  /\ \A q \in Seq(Honest(U)) : q \in Seq(Row)
           /\ \A q \in Seq(Row) : q \in Seq(Honest(U)) <=> \A i \in DOMAIN q : q[i].wasItEjected => q[i].device \in U
<1>1. ASSUME NEW q \in Seq(Honest(U)) PROVE q \in Seq(Row)
  <2>1. \A i \in DOMAIN q : q[i] \in Row
    BY ElementOfSeq, LenProperties DEF Honest
  <2> QED BY <2>1, SeqPart
<1>2. ASSUME NEW q \in Seq(Row), q \in Seq(Honest(U)), NEW i \in DOMAIN q
      PROVE  q[i].wasItEjected => q[i].device \in U
  BY <1>2, ElementOfSeq, LenProperties DEF Honest
<1>3. ASSUME NEW q \in Seq(Row), \A i \in DOMAIN q : q[i].wasItEjected => q[i].device \in U
      PROVE  q \in Seq(Honest(U))
  <2>1. \A i \in DOMAIN q : q[i] \in Honest(U)
    BY <1>3, ElementOfSeq, LenProperties DEF Honest
  <2> QED BY <2>1, SeqPart
<1> QED BY <1>1, <1>2, <1>3

(* The invariant holds initially.                                           *)
LEMMA InitMarks == USBInit => MarkInv
<1> SUFFICES ASSUME USBInit PROVE MarkInv
  OBVIOUS
<1>1. bus \in Seq(Devices)
  BY SeqDef DEF USBInit, SeqOf
<1>2. DOMAIN bus = 1 .. Len(bus) /\ Len(bus) \in Nat /\ \A i \in 1 .. Len(bus) : bus[i] \in Devices
  BY <1>1, LenProperties, ElementOfSeq
<1>3. devices \in Seq(Honest(Unmounted)) /\ \A i \in DOMAIN devices : ~ devices[i].shared
  BY <1>1, NewRowsHonest DEF USBInit
<1>9. SharedAlike
  BY <1>3 DEF SharedAlike
<1>10. unmounted \in [Ejections -> SUBSET (Devices \cup {Unknown})]
  BY DEF USBInit
<1>4. devices \in Seq(Row)
  BY <1>3, HonestRows
<1>8. pc \in [Ejections -> Pcs]
  BY DEF USBInit, Pcs
<1>5. /\ mainQueue \in Seq(Blocks) /\ selected \in Nat /\ row \in [Ejections -> Nat]
      /\ target \in [Ejections -> Devices \cup {Unknown}]
  BY EmptySeq DEF USBInit
<1>6. TargetKept
  BY DEF USBInit, TargetKept
<1>7. ReportTrue
  <2>1. DOMAIN mainQueue = {}
    BY DEF USBInit
  <2> QED BY <2>1 DEF ReportTrue
<1> QED BY <1>1, <1>3, <1>4, <1>5, <1>6, <1>7, <1>8, <1>9, <1>10 DEF MarkInv, WindowTypeOK

(* A sequence with an element more.                                         *)
LEMMA InsertedElement ==
    ASSUME NEW S, NEW q \in Seq(S), NEW i \in 1 .. Len(q) + 1, NEW e \in S
    PROVE  InsertAt(q, i, e) \in Seq(S)
<1>1. Len(q) \in Nat
  BY LenProperties
<1>2. SubSeq(q, 1, i - 1) \in Seq(S) /\ SubSeq(q, i, Len(q)) \in Seq(S)
  BY <1>1, SubSeqProperties
<1>3. <<e>> \in Seq(S)
  OBVIOUS
<1>4. SubSeq(q, 1, i - 1) \o <<e>> \in Seq(S)
  BY <1>2, <1>3, ConcatProperties
<1> QED BY <1>2, <1>4, ConcatProperties DEF InsertAt

(* A sequence with an element less.                                         *)
LEMMA RemovedElement ==
    ASSUME NEW S, NEW q \in Seq(S), NEW i \in DOMAIN q
    PROVE  RemoveAt(q, i) \in Seq(S)
<1>1. Len(q) \in Nat /\ i \in 1 .. Len(q)
  BY LenProperties
<1>2. SubSeq(q, 1, i - 1) \in Seq(S) /\ SubSeq(q, i + 1, Len(q)) \in Seq(S)
  BY <1>1, SubSeqProperties
<1> QED BY <1>2, ConcatProperties DEF RemoveAt

(* Every step keeps the invariant.                                          *)
LEMMA NextMarks == MarkInv /\ [USBNext]_vars => MarkInv'
<1> SUFFICES ASSUME MarkInv, [USBNext]_vars PROVE MarkInv'
  OBVIOUS
<1>typ. WindowTypeOK
  BY DEF MarkInv
<1>dev. /\ DOMAIN devices = 1 .. Len(devices) /\ Len(devices) \in Nat
        /\ \A i \in DOMAIN devices : devices[i] \in Row
  BY <1>typ, LenProperties, ElementOfSeq DEF WindowTypeOK
<1>blk. QueueFacts(Blocks, mainQueue)
  BY <1>typ, QueueLemma DEF WindowTypeOK
<1>unm. UNCHANGED unmounted => Unmounted' = Unmounted
  BY DEF Unmounted
<1>sha. UNCHANGED devices => SharedAlike'
  BY DEF MarkInv, SharedAlike
<1>keep. ASSUME UNCHANGED <<devices, unmounted, shifted>>, WindowTypeOK',
                ~ shifted /\ TargetKept /\ ReportTrue => TargetKept' /\ ReportTrue'
         PROVE  MarkInv'
  BY <1>keep, <1>unm, <1>sha DEF MarkInv
<1>1. ASSUME bus' \in Seq(Devices),
             UNCHANGED <<devices, row, target, pc, mainQueue, unmounted, shifted>>, selected' \in Nat
      PROVE  MarkInv'
  <2>1. WindowTypeOK'
    BY <1>1, <1>typ DEF WindowTypeOK
  <2>2. TargetKept /\ ReportTrue => TargetKept' /\ ReportTrue'
    BY <1>1, <1>unm DEF TargetKept, ReportTrue
  <2> QED BY <1>1, <1>keep, <2>1, <2>2
<1>2. ASSUME NEW d \in Devices, Plug(d) PROVE MarkInv'
  <2>1. bus' \in Seq(Devices)
    BY <1>2, <1>typ, InsertedElement DEF Plug, WindowTypeOK
  <2> QED BY <1>1, <1>2, <1>typ, <2>1 DEF Plug, Changes, windowVars, ejectVars, historyVars, WindowTypeOK
<1>3. ASSUME NEW d \in Devices, Unplug(d) PROVE MarkInv'
  <2>1. bus' \in Seq(Devices)
    BY <1>3, <1>typ, RemovedElement DEF Unplug, WindowTypeOK
  <2> QED BY <1>1, <1>3, <1>typ, <2>1 DEF Unplug, Changes, windowVars, ejectVars, historyVars, WindowTypeOK
<1>4. CASE \E d \in Disks : FindMedia(d) \/ Mount(d)
  BY <1>1, <1>4, <1>typ DEF FindMedia, Mount, Changes, windowVars, ejectVars, historyVars, WindowTypeOK
<1>5. CASE TimerFires \/ DidMount
  BY <1>1, <1>5, <1>typ DEF TimerFires, DidMount, SystemProfiler, hardwareVars, windowVars, ejectVars,
     historyVars, WindowTypeOK
<1>6. CASE UpdateData
  <2> DEFINE d == GetDevicesInfo(profile)
             new == Merged(devices, d)
  <2>1. devices' = new /\ UNCHANGED <<bus, row, target, pc, mainQueue, unmounted>>
        /\ shifted' = (shifted \/ (Shifts(devices, new) /\ Underway \cup Reported # {}))
        /\ selected' \in {0, selected}
    BY <1>6 DEF UpdateData, hardwareVars, ejectVars
  <2>2. d \in Seq(Row) /\ d \in Seq(Honest(Unmounted)) /\ \A i \in DOMAIN d : ~ d[i].shared
    BY <1>typ, NewRowsHonest DEF WindowTypeOK
  <2> HIDE DEF d
  <2>3. new \in Seq(Row)
    BY <1>typ, <2>2, RowsMerged DEF WindowTypeOK
  <2>4. WindowTypeOK'
    BY <2>1, <2>3, <1>typ DEF WindowTypeOK
  <2>5. SharedAlike'
    <3> DEFINE Shown1 == {devices[i] : i \in DOMAIN devices}
               R == {r \in Row : r.shared => r \in Shown1}
    <3>1. devices \in Seq(R)
      <4>1. \A i \in DOMAIN devices : devices[i] \in R
        BY <1>dev
      <4> HIDE DEF R
      <4> QED BY <4>1, <1>typ, SeqPart DEF WindowTypeOK
    <3>2. d \in Seq(R)
      <4>1. \A i \in DOMAIN d : d[i] \in R
        BY <2>2, ElementOfSeq, LenProperties
      <4> HIDE DEF R
      <4> QED BY <4>1, <2>2, SeqPart
    <3>3. new \in Seq(R)
      <4> HIDE DEF R
      <4> QED BY <3>1, <3>2, RowsMerged
    <3>4. \A i \in DOMAIN new : new[i] \in R
      <4> HIDE DEF R, new
      <4> QED BY <3>3, ElementOfSeq, LenProperties
    <3>5. \A i \in DOMAIN new : new[i].shared => \E k \in DOMAIN devices : new[i] = devices[k]
      <4> HIDE DEF new
      <4> QED BY <3>4
    <3> HIDE DEF new
    <3> QED BY <2>1, <3>5 DEF MarkInv, SharedAlike
  <2>6. ASSUME ~ shifted' PROVE devices' \in Seq(Honest(Unmounted)) /\ TargetKept' /\ ReportTrue'
    <3>1. ~ shifted /\ devices \in Seq(Honest(Unmounted)) /\ TargetKept /\ ReportTrue
      BY <2>1, <2>6 DEF MarkInv
    <3>2. new \in Seq(Honest(Unmounted))
      BY <2>2, <3>1, RowsMerged
    <3>3. CASE ~ Shifts(devices, new)
      <4>1. Len(new) \in Nat /\ DOMAIN new = 1 .. Len(new)
        BY <2>3, LenProperties
      <4>2. \A i \in DOMAIN devices : i \in DOMAIN new /\ new[i].device = devices[i].device
        <5> HIDE DEF new
        <5> QED BY <1>dev, <3>3, <4>1 DEF Shifts
      <4> HIDE DEF new
      <4> QED BY <2>1, <3>1, <3>2, <4>2, <1>unm DEF TargetKept, ReportTrue
    <3>4. CASE Underway \cup Reported = {}
      <4> HIDE DEF new
      <4> QED BY <2>1, <3>2, <3>4, <1>unm DEF TargetKept, ReportTrue, Underway, Reported
    <3> QED BY <2>1, <2>6, <3>3, <3>4
  <2> HIDE DEF new
  <2> QED BY <2>1, <2>4, <2>5, <2>6, <1>unm DEF MarkInv
<1>7. CASE VolumesChanged
  <2> DEFINE d == GetDevicesInfo(profile)
             Described(i) == \E k \in DOMAIN d : d[k].serial = devices[i].serial
  <2>1. devices' = [i \in DOMAIN devices |-> Redescribed(devices, i, d)]
        /\ UNCHANGED <<bus, selected, row, target, pc, mainQueue, unmounted>>
    BY <1>7 DEF VolumesChanged, hardwareVars, ejectVars
  <2>2. shifted' = (shifted \/ \E i \in DOMAIN devices :
                                 /\ devices'[i].device # devices[i].device
                                 /\ devices[i].wasItEjected \/ Underway \cup Reported # {})
    BY <1>7 DEF VolumesChanged
  <2>3. d \in Seq(Row)
    BY <1>typ, NewRowsHonest DEF WindowTypeOK
  <2> HIDE DEF d
  <2>4. ASSUME NEW i \in DOMAIN devices
        PROVE  /\ devices'[i] \in Row
               /\ devices'[i].serial = devices[i].serial
               /\ ~ Described(i) => devices'[i] = devices[i]
               /\ Described(i) => /\ devices'[i].device = Newest(devices[i].serial, d)
                                  /\ \E m \in DOMAIN devices :
                                        /\ devices[m].serial = devices[i].serial
                                        /\ devices'[i].wasItEjected = devices[m].wasItEjected
    <3>1. devices'[i] = Redescribed(devices, i, d)
      BY <2>1
    <3>2. devices \in Seq(Row)
      BY <1>typ DEF WindowTypeOK
    <3>3. ~ Described(i) => \A k \in DOMAIN d : d[k].serial # devices[i].serial
      OBVIOUS
    <3> QED BY <2>3, <3>1, <3>2, <3>3, RedescribedRow
  <2>5. DOMAIN devices' = DOMAIN devices /\ devices' \in Seq(Row)
    <3>1. devices' \in [1 .. Len(devices) -> Row]
      BY <1>dev, <2>1, <2>4
    <3> QED BY <1>dev, <2>1, <3>1, SeqDef
  <2>6. WindowTypeOK'
    BY <2>1, <2>5, <1>typ DEF WindowTypeOK
  <2>7. SharedAlike'
    <3> SUFFICES ASSUME NEW i \in DOMAIN devices, NEW j \in DOMAIN devices,
                        devices'[i].shared, devices'[j].shared, devices'[i].serial = devices'[j].serial
                 PROVE  devices'[i].device = devices'[j].device
      BY <2>5 DEF SharedAlike
    <3>1. devices[i].serial = devices[j].serial
      BY <2>4
    <3>2. CASE Described(i)
      BY <2>4, <3>1, <3>2
    <3>3. CASE ~ Described(i)
      BY <2>4, <3>1, <3>3 DEF MarkInv, SharedAlike
    <3> QED BY <3>2, <3>3
  <2>8. ASSUME ~ shifted' PROVE devices' \in Seq(Honest(Unmounted)) /\ TargetKept' /\ ReportTrue'
    <3>1. ~ shifted /\ devices \in Seq(Honest(Unmounted)) /\ TargetKept /\ ReportTrue
      BY <2>2, <2>8 DEF MarkInv
    <3>2. \A i \in DOMAIN devices : devices[i].wasItEjected => devices[i].device \in Unmounted
      BY <3>1, <1>typ, HonestRows DEF WindowTypeOK
    <3>3. \A i \in DOMAIN devices : devices[i].wasItEjected => devices'[i].device = devices[i].device
      BY <2>2, <2>8
    <3>4. ASSUME NEW i \in DOMAIN devices, devices'[i].wasItEjected
          PROVE  devices'[i].device \in Unmounted
      <4>1. CASE ~ Described(i)
        BY <2>4, <3>2, <3>4, <4>1
      <4>2. CASE Described(i)
        <5>1. PICK m \in DOMAIN devices : /\ devices[m].serial = devices[i].serial
                                          /\ devices'[i].wasItEjected = devices[m].wasItEjected
          BY <2>4, <4>2
        <5>2. Described(m) /\ devices'[i].device = Newest(devices[i].serial, d)
          BY <2>4, <4>2, <5>1
        <5>3. devices'[m].device = devices'[i].device
          BY <2>4, <5>1, <5>2
        <5> QED BY <3>2, <3>3, <3>4, <5>1, <5>3
      <4> QED BY <4>1, <4>2
    <3>5. devices' \in Seq(Honest(Unmounted))
      BY <2>5, <3>4, HonestRows
    <3>6. CASE Underway \cup Reported = {}
      <4>1. /\ \A e \in Ejections : pc[e] \notin {"unmount", "succeeded"}
            /\ \A i \in DOMAIN mainQueue : mainQueue[i].kind # "success"
        BY <3>6 DEF Underway, Reported
      <4>2. pc' = pc /\ mainQueue' = mainQueue
        BY <2>1
      <4>3. TargetKept' /\ ReportTrue'
        BY <4>1, <4>2 DEF TargetKept, ReportTrue
      <4> QED BY <3>5, <4>3
    <3>7. CASE Underway \cup Reported # {}
      <4>1. \A i \in DOMAIN devices : devices'[i].device = devices[i].device
        BY <2>2, <2>8, <3>7
      <4>2. pc' = pc /\ row' = row /\ target' = target /\ mainQueue' = mainQueue /\ Unmounted' = Unmounted
        BY <2>1, <1>unm
      <4>3. TargetKept'
        BY <2>5, <3>1, <4>1, <4>2 DEF TargetKept
      <4>4. ReportTrue'
        BY <2>5, <3>1, <4>1, <4>2 DEF ReportTrue
      <4> QED BY <3>5, <4>3, <4>4
    <3> QED BY <3>6, <3>7
  <2> QED BY <2>1, <2>6, <2>7, <2>8, <1>unm DEF MarkInv
<1>8. CASE \E r \in 0 .. Len(devices) : Select(r)
  <2>1. selected' \in Nat /\ UNCHANGED <<bus, devices, row, target, pc, mainQueue, unmounted, shifted>>
    BY <1>8, <1>dev DEF Select, hardwareVars, ejectVars, historyVars
  <2>2. bus' \in Seq(Devices)
    BY <2>1, <1>typ DEF WindowTypeOK
  <2> QED BY <1>1, <2>1, <2>2
<1>9. CASE ClickedEjectButton
  <2>1. UNCHANGED <<bus, devices, selected, target, mainQueue, unmounted, shifted>>
        /\ row' = [row EXCEPT ![clicks + 1] = selected] /\ pc' = [pc EXCEPT ![clicks + 1] = "disable"]
    BY <1>9 DEF ClickedEjectButton, hardwareVars, windowVars, historyVars
  <2>2. row' \in [Ejections -> Nat] /\ pc' \in [Ejections -> Pcs]
    BY <2>1, <1>typ DEF WindowTypeOK, Pcs
  <2>3. WindowTypeOK'
    BY <2>1, <2>2, <1>typ DEF WindowTypeOK
  <2>4. \A e \in Ejections : pc'[e] \in {"unmount", "succeeded"} => pc'[e] = pc[e] /\ row'[e] = row[e]
    BY <2>1, <1>typ DEF WindowTypeOK
  <2>5. TargetKept => TargetKept'
    BY <2>1, <2>4, <1>unm DEF TargetKept
  <2>6. ReportTrue => ReportTrue'
    BY <2>1, <1>unm DEF ReportTrue
  <2> QED BY <2>1, <2>3, <2>5, <2>6, <1>keep
<1>10. ASSUME NEW b \in Blocks, mainQueue' = Append(mainQueue, b), NEW e \in Ejections, NEW p \in Pcs \ {"unmount", "succeeded"},
              pc' = [pc EXCEPT ![e] = p], UNCHANGED <<bus, devices, selected, row, target, unmounted, shifted>>,
              b.kind = "success" /\ ~ shifted => b.row \in DOMAIN devices /\ devices[b.row].device \in Unmounted
       PROVE  MarkInv'
  <2>1. mainQueue' \in Seq(Blocks)
    BY <1>10, <1>typ, AppendProperties DEF WindowTypeOK
  <2>2. pc' \in [Ejections -> Pcs]
    BY <1>10, <1>typ DEF WindowTypeOK
  <2>3. WindowTypeOK'
    BY <2>1, <2>2, <1>10, <1>typ DEF WindowTypeOK
  <2>4. \A x \in Ejections : pc'[x] \in {"unmount", "succeeded"} => pc'[x] = pc[x]
    BY <1>10, <1>typ DEF WindowTypeOK
  <2>5. TargetKept => TargetKept'
    BY <1>10, <2>4, <1>unm DEF TargetKept
  <2>6. ~ shifted /\ ReportTrue => ReportTrue'
    <3>1. \A i \in DOMAIN mainQueue' : mainQueue'[i] = b \/ (i \in DOMAIN mainQueue /\ mainQueue'[i] = mainQueue[i])
      <4>1. mainQueue \in Seq(Blocks) /\ DOMAIN mainQueue = 1 .. Len(mainQueue) /\ Len(mainQueue) \in Nat
        BY <1>typ, LenProperties DEF WindowTypeOK
      <4>2. /\ DOMAIN mainQueue' = 1 .. Len(mainQueue) + 1
            /\ mainQueue'[Len(mainQueue) + 1] = b
            /\ \A i \in 1 .. Len(mainQueue) : mainQueue'[i] = mainQueue[i]
        BY <4>1, <1>10, AppendProperties, LenProperties
      <4> QED BY <4>1, <4>2
    <3> QED BY <3>1, <1>10, <1>unm DEF ReportTrue
  <2> QED BY <1>10, <2>3, <2>5, <2>6, <1>keep
<1>11. ASSUME NEW e \in Ejections, DisableButtons(e) PROVE MarkInv'
  <2> DEFINE b == [kind |-> "disable", row |-> 0, of |-> e]
  <2>1. b \in Blocks /\ mainQueue' = Append(mainQueue, b) /\ pc' = [pc EXCEPT ![e] = "path"]
        /\ UNCHANGED <<bus, devices, selected, row, target, unmounted, shifted>> /\ b.kind # "success"
    BY <1>11 DEF DisableButtons, Dispatch, hardwareVars, windowVars, historyVars, Blocks
  <2> QED BY <1>10, <2>1 DEF Pcs
<1>12. ASSUME NEW e \in Ejections, EjectPath(e) PROVE MarkInv'
  <2>1. UNCHANGED <<bus, devices, selected, row, mainQueue, unmounted, shifted>>
    BY <1>12 DEF EjectPath, hardwareVars, windowVars, historyVars
  <2>2. CASE UNCHANGED <<target, pc>>
    BY <2>1, <2>2, <1>1, <1>typ DEF WindowTypeOK
  <2>3. CASE /\ row[e] \in DOMAIN devices /\ target' = [target EXCEPT ![e] = devices[row[e]].device]
             /\ pc' = [pc EXCEPT ![e] = "unmount"]
    <3>1. devices[row[e]].device \in Devices \cup {Unknown}
      BY <1>dev, <2>3 DEF Row
    <3>2. target' \in [Ejections -> Devices \cup {Unknown}] /\ pc' \in [Ejections -> Pcs]
      BY <2>3, <3>1, <1>typ DEF WindowTypeOK, Pcs
    <3>3. WindowTypeOK'
      BY <2>1, <3>2, <1>typ DEF WindowTypeOK
    <3>4. target'[e] = devices[row[e]].device /\ pc'[e] = "unmount"
          /\ \A x \in Ejections \ {e} : pc'[x] = pc[x] /\ target'[x] = target[x]
      BY <2>3, <1>typ DEF WindowTypeOK
    <3>5. TargetKept => TargetKept'
      BY <2>1, <2>3, <3>4, <1>unm DEF TargetKept
    <3>6. ReportTrue => ReportTrue'
      BY <2>1, <1>unm DEF ReportTrue
    <3> QED BY <2>1, <3>3, <3>5, <3>6, <1>keep
  <2> QED BY <1>12, <2>2, <2>3 DEF EjectPath
<1>13. ASSUME NEW e \in Ejections, UnmountDisk(e) PROVE MarkInv'
  <2>1. UNCHANGED <<bus, devices, selected, row, target, mainQueue, shifted>> /\ pc[e] = "unmount"
    BY <1>13 DEF UnmountDisk, hardwareVars, windowVars
  <2>2. CASE UNCHANGED unmounted /\ pc' = [pc EXCEPT ![e] = "failed"]
    <3>1. pc' \in [Ejections -> Pcs]
      BY <2>2, <1>typ DEF WindowTypeOK, Pcs
    <3>2. WindowTypeOK'
      BY <2>1, <2>2, <3>1, <1>typ DEF WindowTypeOK
    <3>3. pc'[e] = "failed" /\ \A x \in Ejections \ {e} : pc'[x] = pc[x]
      BY <2>2, <1>typ DEF WindowTypeOK
    <3>4. TargetKept => TargetKept'
      BY <2>1, <2>2, <3>3, <1>unm DEF TargetKept
    <3>5. ReportTrue => ReportTrue'
      BY <2>1, <2>2, <1>unm DEF ReportTrue
    <3> QED BY <2>1, <2>2, <3>2, <3>4, <3>5, <1>keep
  <2>3. CASE /\ unmounted' = [unmounted EXCEPT ![e] = @ \cup {target[e]}]
             /\ pc' = [pc EXCEPT ![e] = "succeeded"]
    <3>1. pc' \in [Ejections -> Pcs] /\ target[e] \in Devices \cup {Unknown}
      BY <2>3, <1>typ DEF WindowTypeOK, Pcs
    <3>2. unmounted' \in [Ejections -> SUBSET (Devices \cup {Unknown})]
      BY <2>3, <3>1, <1>typ DEF WindowTypeOK
    <3>3. WindowTypeOK'
      BY <2>1, <3>1, <3>2, <1>typ DEF WindowTypeOK
    <3>4. pc'[e] = "succeeded" /\ \A x \in Ejections \ {e} : pc'[x] = pc[x]
      BY <2>3, <1>typ DEF WindowTypeOK
    <3>5. unmounted'[e] = unmounted[e] \cup {target[e]} /\ \A x \in Ejections \ {e} : unmounted'[x] = unmounted[x]
      BY <2>3, <1>typ DEF WindowTypeOK
    <3>6. Unmounted \subseteq Unmounted' /\ target[e] \in Unmounted'
      <4>1. \A x \in Ejections : unmounted[x] \subseteq unmounted'[x]
        BY <3>5
      <4> QED BY <3>5, <4>1 DEF Unmounted
    <3>7. TargetKept => TargetKept'
      BY <2>1, <3>4, <3>6 DEF TargetKept
    <3>8. ReportTrue => ReportTrue'
      BY <2>1, <3>6 DEF ReportTrue
    <3>9. devices \in Seq(Honest(Unmounted)) => devices' \in Seq(Honest(Unmounted'))
      <4>1. devices \in Seq(Row)
        BY <1>typ DEF WindowTypeOK
      <4> QED BY <2>1, <3>6, <4>1, HonestRows
    <3> QED BY <2>1, <3>3, <3>7, <3>8, <3>9, <1>sha DEF MarkInv
  <2> QED BY <1>13, <2>2, <2>3 DEF UnmountDisk
<1>14. ASSUME NEW e \in Ejections, Report(e) PROVE MarkInv'
  <2>1. UNCHANGED <<bus, devices, selected, row, target, unmounted, shifted>> /\ pc' = [pc EXCEPT ![e] = "reset"]
    BY <1>14 DEF Report, hardwareVars, windowVars, historyVars
  <2>2. row[e] \in Nat
    BY <1>typ DEF WindowTypeOK
  <2>3. CASE pc[e] = "succeeded" /\ Dispatch("success", row[e], e)
    <3> DEFINE b == [kind |-> "success", row |-> row[e], of |-> e]
    <3>1. b \in Blocks /\ mainQueue' = Append(mainQueue, b)
      BY <2>2, <2>3 DEF Dispatch, Blocks
    <3>2. ~ shifted => row[e] \in DOMAIN devices /\ devices[row[e]].device \in Unmounted
      BY <2>3 DEF MarkInv, TargetKept
    <3> QED BY <1>10, <2>1, <3>1, <3>2 DEF Pcs
  <2>4. CASE Dispatch("failure", 0, e)
    <3> DEFINE b == [kind |-> "failure", row |-> 0, of |-> e]
    <3>1. b \in Blocks /\ mainQueue' = Append(mainQueue, b) /\ b.kind # "success"
      BY <2>4 DEF Dispatch, Blocks
    <3> QED BY <1>10, <2>1, <3>1 DEF Pcs
  <2> QED BY <1>14, <2>3, <2>4 DEF Report
<1>15. ASSUME NEW e \in Ejections, ResetEjecting(e) PROVE MarkInv'
  <2>1. UNCHANGED <<bus, devices, selected, mainQueue, unmounted, shifted>>
        /\ pc' = [pc EXCEPT ![e] = "ended"] /\ row' = [row EXCEPT ![e] = 0] /\ target' = [target EXCEPT ![e] = Unknown]
    BY <1>15 DEF ResetEjecting, hardwareVars, windowVars, historyVars
  <2>2. pc' \in [Ejections -> Pcs] /\ row' \in [Ejections -> Nat] /\ target' \in [Ejections -> Devices \cup {Unknown}]
    BY <2>1, <1>typ DEF WindowTypeOK, Pcs
  <2>3. WindowTypeOK'
    BY <2>1, <2>2, <1>typ DEF WindowTypeOK
  <2>4. pc'[e] = "ended" /\ \A x \in Ejections \ {e} : pc'[x] = pc[x] /\ row'[x] = row[x] /\ target'[x] = target[x]
    BY <2>1, <1>typ DEF WindowTypeOK
  <2>5. TargetKept => TargetKept'
    BY <2>1, <2>4, <1>unm DEF TargetKept
  <2>6. ReportTrue => ReportTrue'
    BY <2>1, <1>unm DEF ReportTrue
  <2> QED BY <2>1, <2>3, <2>5, <2>6, <1>keep
<1>16. ASSUME mainQueue # <<>>
       PROVE  /\ Head(mainQueue) \in Blocks /\ Head(mainQueue) = mainQueue[1] /\ 1 \in DOMAIN mainQueue
              /\ Tail(mainQueue) \in Seq(Blocks)
              /\ \A i \in DOMAIN Tail(mainQueue) : i + 1 \in DOMAIN mainQueue /\ Tail(mainQueue)[i] = mainQueue[i + 1]
  <2>1. mainQueue \in Seq(Blocks) /\ DOMAIN mainQueue = 1 .. Len(mainQueue) /\ Len(mainQueue) \in Nat
    BY <1>typ, LenProperties DEF WindowTypeOK
  <2>2. Len(mainQueue) # 0
    BY <2>1, <1>16, EmptySeq
  <2>3. Head(mainQueue) \in Blocks /\ Tail(mainQueue) \in Seq(Blocks) /\ Head(mainQueue) = mainQueue[1]
        /\ Len(Tail(mainQueue)) = Len(mainQueue) - 1
        /\ \A i \in 1 .. Len(Tail(mainQueue)) : Tail(mainQueue)[i] = mainQueue[i + 1]
    BY <2>1, <1>16, HeadTailProperties
  <2>4. DOMAIN Tail(mainQueue) = 1 .. Len(mainQueue) - 1
    BY <2>3, LenProperties
  <2> QED BY <2>1, <2>2, <2>3, <2>4
<1>17. CASE Disabled \/ Failed \/ Marked
  <2>1. mainQueue # <<>> /\ mainQueue' = Tail(mainQueue)
        /\ UNCHANGED <<bus, devices, selected, row, target, pc, unmounted, shifted>>
    BY <1>17 DEF Disabled, Failed, Marked, Handles, hardwareVars, ejectVars
  <2>2. WindowTypeOK'
    BY <2>1, <1>16, <1>typ DEF WindowTypeOK
  <2>3. TargetKept => TargetKept'
    BY <2>1, <1>unm DEF TargetKept
  <2>4. ReportTrue => ReportTrue'
    BY <2>1, <1>16, <1>unm DEF ReportTrue
  <2> QED BY <2>1, <2>2, <2>3, <2>4, <1>keep
<1>18. CASE Succeeded
  <2> DEFINE r == Head(mainQueue).row
             b == [Head(mainQueue) EXCEPT !.kind = "mark"]
             S == SameObject(r)
  <2>1. mainQueue # <<>> /\ Head(mainQueue).kind = "success"
        /\ UNCHANGED <<bus, selected, row, target, pc, unmounted, shifted>>
    BY <1>18 DEF Succeeded, Handles, hardwareVars, ejectVars
  <2>2. CASE r \notin DOMAIN devices /\ mainQueue' = Tail(mainQueue) /\ UNCHANGED devices
    <3>1. WindowTypeOK'
      BY <2>1, <2>2, <1>16, <1>typ DEF WindowTypeOK
    <3>2. TargetKept => TargetKept'
      BY <2>1, <2>2, <1>unm DEF TargetKept
    <3>3. ReportTrue => ReportTrue'
      BY <2>1, <2>2, <1>16, <1>unm DEF ReportTrue
    <3> QED BY <2>1, <2>2, <3>1, <3>2, <3>3, <1>keep
  <2>3. CASE r \in DOMAIN devices
             /\ devices' = [i \in DOMAIN devices |->
                              IF i \in S THEN [devices[i] EXCEPT !.wasItEjected = TRUE] ELSE devices[i]]
             /\ mainQueue' = Append(Tail(mainQueue), b)
    <3>1. b \in Blocks /\ b.kind # "success"
      <4>1. Head(mainQueue) \in Blocks
        BY <2>1, <1>16
      <4>2. \A h \in Blocks : [h EXCEPT !.kind = "mark"] \in Blocks /\ [h EXCEPT !.kind = "mark"].kind = "mark"
        BY DEF Blocks
      <4> QED BY <4>1, <4>2
    <3> HIDE DEF b
    <3>2. mainQueue' \in Seq(Blocks)
      BY <2>1, <2>3, <3>1, <1>16, AppendProperties
    <3>3. \A i \in S : i = r \/ (devices[i].shared /\ devices[r].shared /\ devices[i].serial = devices[r].serial)
      BY DEF SameObject
    <3> HIDE DEF r, S
    <3>4. DOMAIN devices' = DOMAIN devices
          /\ \A i \in DOMAIN devices : /\ devices'[i] \in Row /\ devices'[i].serial = devices[i].serial
                                       /\ devices'[i].device = devices[i].device
                                       /\ devices'[i].shared = devices[i].shared
                                       /\ i \notin S => devices'[i].wasItEjected = devices[i].wasItEjected
      BY <2>3, <1>dev DEF Row
    <3>5. devices' \in Seq(Row)
      <4>1. devices' \in [1 .. Len(devices) -> Row]
        BY <2>3, <3>4, <1>dev
      <4> QED BY <4>1, <1>dev, SeqDef
    <3>6. WindowTypeOK'
      BY <2>1, <3>2, <3>5, <1>typ DEF WindowTypeOK
    <3>7. SharedAlike'
      BY <3>4 DEF MarkInv, SharedAlike
    <3>8. ASSUME ~ shifted' PROVE devices' \in Seq(Honest(Unmounted)) /\ TargetKept' /\ ReportTrue'
      <4>1. devices \in Seq(Honest(Unmounted)) /\ TargetKept /\ ReportTrue
        BY <2>1, <3>8 DEF MarkInv
      <4>2. devices[r].device \in Unmounted
        BY <2>1, <4>1, <1>16 DEF ReportTrue, r
      <4>3. \A i \in DOMAIN devices : devices[i].wasItEjected => devices[i].device \in Unmounted
        BY <4>1, <1>typ, HonestRows DEF WindowTypeOK
      <4>4. \A i \in DOMAIN devices : i \in S => devices[i].device \in Unmounted
        BY <2>3, <3>3, <4>2 DEF MarkInv, SharedAlike
      <4>5. \A i \in DOMAIN devices' : devices'[i].wasItEjected => devices'[i].device \in Unmounted
        BY <3>4, <4>3, <4>4
      <4>6. devices' \in Seq(Honest(Unmounted))
        BY <3>5, <4>5, HonestRows
      <4>7. TargetKept'
        BY <2>1, <3>4, <4>1, <1>unm DEF TargetKept
      <4>8. \A i \in DOMAIN mainQueue' : mainQueue'[i] = b
                 \/ \E j \in DOMAIN mainQueue : mainQueue'[i] = mainQueue[j]
        <5> DEFINE t == Tail(mainQueue)
        <5>1. t \in Seq(Blocks) /\ DOMAIN t = 1 .. Len(t) /\ Len(t) \in Nat
              /\ \A i \in DOMAIN t : \E j \in DOMAIN mainQueue : t[i] = mainQueue[j]
          BY <2>1, <1>16, LenProperties
        <5> HIDE DEF t
        <5>2. mainQueue' = Append(t, b)
          BY <2>3 DEF t
        <5>3. /\ DOMAIN mainQueue' = 1 .. Len(t) + 1 /\ mainQueue'[Len(t) + 1] = b
              /\ \A i \in 1 .. Len(t) : mainQueue'[i] = t[i]
          BY <5>1, <5>2, <3>1, AppendProperties, LenProperties
        <5> QED BY <5>1, <5>3
      <4>9. ReportTrue'
        BY <2>1, <3>1, <3>4, <4>1, <4>8, <1>unm DEF ReportTrue
      <4> QED BY <4>6, <4>7, <4>9
    <3> QED BY <2>1, <3>6, <3>7, <3>8, <1>unm DEF MarkInv
  <2> QED BY <1>18, <2>2, <2>3 DEF Succeeded
<1>19. CASE UNCHANGED vars
  BY <1>19, <1>1, <1>typ DEF vars, hardwareVars, windowVars, ejectVars, historyVars, WindowTypeOK
<1> QED BY <1>2, <1>3, <1>4, <1>5, <1>6, <1>7, <1>8, <1>9, <1>11, <1>12, <1>13, <1>14, <1>15, <1>17, <1>18, <1>19
    DEF USBNext, Hardware, User, RunBlock, Ejection

(* As long as no row changed its device under an ejection or under its mark, *)
(* a row is marked as ejected only if its device was unmounted, through any *)
(* refresh of the table and any later report, also of devices that have no  *)
(* serial number (ViewController.m:120-162, 190-264 and 266-287).           *)
THEOREM MarksTrue == USBSpec => []MarkedWasUnmounted
<1>1. MarkInv => MarkedWasUnmounted
  <2> SUFFICES ASSUME MarkInv, ~ shifted, NEW i \in DOMAIN devices, devices[i].wasItEjected
               PROVE  \E e \in Ejections : devices[i].device \in unmounted[e]
    BY DEF MarkedWasUnmounted
  <2>1. devices \in Seq(Row) /\ devices \in Seq(Honest(Unmounted))
    BY DEF MarkInv, WindowTypeOK
  <2>2. devices[i].device \in Unmounted
    BY <2>1, HonestRows
  <2> QED BY <2>2 DEF Unmounted
<1> QED BY <1>1, InitMarks, NextMarks, PTL DEF USBSpec

-----------------------------------------------------------------------------
(* BatteryChecker *)

(* After a regular end the delay is the one the user had chosen, or what was *)
(* read for it.                                                             *)
DelayOrGarbage == app = "off" /\ ~ crashedSince => displaysleep \in {chosen} \cup Garbage

(* While the application runs it remembers that delay.                      *)
BatteryInv ==
    /\ DelayOrGarbage
    /\ DelayRestored
    /\ app # "off" /\ ~ crashedSince
           => /\ defaultDisplaySleep \in {chosen} \cup Garbage
              /\ ~ misread => defaultDisplaySleep = chosen

(* It does so in every build.                                               *)
LEMMA BatteryRemembers == Battery!Spec => []BatteryInv
<1> USE DEF DelayRestored, Battery!DelayRestored
<1>1. Battery!Init => BatteryInv
  BY DEF Battery!Init, BatteryInv, DelayOrGarbage
<1>2. BatteryInv /\ [Battery!Next]_(Battery!vars) => BatteryInv'
  <2> SUFFICES ASSUME BatteryInv, [Battery!Next]_(Battery!vars) PROVE BatteryInv'
    OBVIOUS
  <2>1. CASE Battery!RememberDisplaySleep \/ Battery!ApplicationWillTerminate
    BY <2>1 DEF BatteryInv, DelayOrGarbage, Battery!RememberDisplaySleep, Battery!ReadSetting,
       Battery!ApplicationWillTerminate
  <2>2. CASE Battery!ShowFirst \/ Battery!InitializePowerSourceChanges
             \/ Battery!PowerSourcesHaveChanged \/ Battery!ChangedValueSlider
    BY <2>2 DEF BatteryInv, DelayOrGarbage, Battery!ShowFirst, Battery!InitializePowerSourceChanges,
       Battery!PowerSourcesHaveChanged, Battery!ChangedValueSlider
  <2>3. CASE Battery!Crash \/ Battery!SourceChanges \/ Battery!LevelChanges \/ Battery!UserSets
    BY <2>3 DEF BatteryInv, DelayOrGarbage, Battery!Crash, Battery!SourceChanges,
       Battery!LevelChanges, Battery!UserSets
  <2>4. CASE UNCHANGED Battery!vars
    BY <2>4 DEF BatteryInv, DelayOrGarbage, Battery!vars
  <2> QED BY <2>1, <2>2, <2>3, <2>4 DEF Battery!Next
<1> QED BY <1>1, <1>2, PTL DEF Battery!Spec

(* Whatever number[3] holds beyond the digits, the delay that the program   *)
(* leaves behind is the one the user had chosen or what rememberDisplaySleep *)
(* read for it (DisplaySleepController.m:14-49 and 70-82); a crash in       *)
(* between does not add to it.                                              *)
THEOREM DelayRemembered == Battery!Spec => []DelayOrGarbage
<1>1. BatteryInv => DelayOrGarbage
  BY DEF BatteryInv
<1> QED BY <1>1, BatteryRemembers, PTL

(* And as long as no launch has misread it, and no run has crashed, it is   *)
(* the one the user had chosen, whatever the slider, the preferences and    *)
(* the power source have done meanwhile.                                    *)
THEOREM DelayIsRestored == Battery!Spec => []DelayRestored
<1>1. BatteryInv => DelayRestored
  BY DEF BatteryInv
<1> QED BY <1>1, BatteryRemembers, PTL

-----------------------------------------------------------------------------
(* DeviceManager *)

(* The stages of a refresh at which the button is off.                      *)
Refreshing == {"off", "read", "filled"}

(* The inductive invariant: the button is off until the table shows what was *)
(* read.                                                                    *)
TableInv ==
    /\ refresh \in {"Load", "stopped", "off", "read", "filled", "on", "none"}
    /\ ToggleEnabled = (refresh \notin Refreshing)
    /\ refresh \notin {"off", "read"} => table = _devices

(* The device that a click disables is the one that the table shows in the  *)
(* selected row, although the array is read again on the thread of the      *)
(* watcher (DeviceManager.cs:30-57 and 66-101).                             *)
THEOREM ToggledDeviceShown == Manager!Spec => ToggledIsShown
<1>1. Manager!Init => TableInv
  BY DEF Manager!Init, TableInv, Refreshing
<1>2. TableInv /\ [Manager!Next]_(Manager!vars) => TableInv'
  <2> SUFFICES ASSUME TableInv, [Manager!Next]_(Manager!vars) PROVE TableInv'
    OBVIOUS
  <2>1. CASE Manager!PlugOrUnplug \/ \E r \in 1 .. Len(table) : Manager!ToggleClick(r)
    BY <2>1 DEF TableInv, Refreshing, Manager!PlugOrUnplug, Manager!ToggleClick, Manager!window
  <2>2. CASE Manager!Stop \/ Manager!ToggleOff \/ Manager!GetAllDevicesInfo
    BY <2>2 DEF TableInv, Refreshing, Manager!Stop, Manager!ToggleOff, Manager!GetAllDevicesInfo
  <2>3. CASE Manager!FillTheTableWithContent \/ Manager!ToggleOn \/ Manager!Start
    BY <2>3 DEF TableInv, Refreshing, Manager!FillTheTableWithContent, Manager!ToggleOn, Manager!Start
  <2>4. CASE UNCHANGED Manager!vars
    BY <2>4 DEF TableInv, Manager!vars
  <2> QED BY <2>1, <2>2, <2>3, <2>4 DEF Manager!Next
<1>3. ASSUME TableInv, NEW r \in 1 .. Len(table), Manager!ToggleClick(r),
             NEW d \in DOMAIN status, status'[d] # status[d]
      PROVE  d = table[r]
  <2>1. table = _devices
    BY <1>3 DEF TableInv, Refreshing, Manager!ToggleClick
  <2>2. PICK s \in Manager!Statuses : status' = [status EXCEPT ![_devices[r]] = s]
    BY <1>3 DEF Manager!ToggleClick, Manager!Change
  <2> QED BY <1>3, <2>1, <2>2
<1>4. TableInv => \A r \in 1 .. Len(table) :
                      Manager!ToggleClick(r) =>
                          \A d \in DOMAIN status : status'[d] # status[d] => d = table[r]
  BY <1>3
<1> QED BY <1>1, <1>2, <1>4, PTL DEF Manager!Spec, ToggledIsShown, Manager!ToggledIsShown

-----------------------------------------------------------------------------
(* WiFiManager *)

(* The type of the scans.                                                   *)
ScansOK ==
    scans \in [WiFi!Threads -> [state : {"none", "scanned", "counted", "found", "replaced"}, temp : WiFi!Air \cup {<<>>}]]

(* At most one attempt to connect is under way while the button is off, and *)
(* a table that does not show the scanned networks is about to be reloaded, *)
(* whichever of two scans is faster (ViewController.m:29-67 and 146-224 of  *)
(* WiFiManager).                                                            *)
THEOREM TableAndButtonAgree == WiFi!Spec => []TableAndButtonTrue
<1> DEFINE I == ScansOK /\ WiFi!OneAttemptAtATime /\ WiFi!ReloadIsUnderWay
<1>1. WiFi!Init => I
  <2> SUFFICES ASSUME WiFi!Init PROVE I
    OBVIOUS
  <2>1. ScansOK
    BY DEF WiFi!Init, ScansOK, WiFi!NoScan
  <2>2. WiFi!OneAttemptAtATime /\ WiFi!ReloadIsUnderWay
    BY DEF WiFi!Init, WiFi!OneAttemptAtATime, WiFi!ReloadIsUnderWay
  <2> QED BY <2>1, <2>2
<1>2. I /\ [WiFi!Next]_(WiFi!vars) => I'
  <2> SUFFICES ASSUME I, [WiFi!Next]_(WiFi!vars) PROVE I'
    OBVIOUS
  <2>1. ASSUME NEW t \in WiFi!Threads, WiFi!Scan(t) \/ WiFi!PostReload(t) PROVE I'
    BY <2>1 DEF WiFi!Scan, WiFi!PostReload, WiFi!panel, WiFi!NoScan, ScansOK, WiFi!OneAttemptAtATime,
       WiFi!ReloadIsUnderWay
  <2>8. ASSUME NEW t \in WiFi!Threads, WiFi!CompareCounts(t) \/ WiFi!CompareNetworks(t) PROVE I'
    <3>1. scans[t].state # "replaced" /\ UNCHANGED <<scanset, shown, reloads, attempts, connectButton>>
      BY <2>8 DEF WiFi!CompareCounts, WiFi!CompareNetworks, WiFi!panel
    <3>2. ScansOK' /\ \A u \in WiFi!Threads \ {t} : scans'[u] = scans[u]
      BY <2>8 DEF WiFi!CompareCounts, WiFi!CompareNetworks, WiFi!NoScan, ScansOK
    <3> QED BY <3>1, <3>2 DEF WiFi!OneAttemptAtATime, WiFi!ReloadIsUnderWay
  <2>2. ASSUME NEW t \in WiFi!Threads, WiFi!ReplaceScanset(t) PROVE I'
    <3>1. scans'[t].state = "replaced" /\ ScansOK'
      BY <2>2 DEF WiFi!ReplaceScanset, ScansOK
    <3> QED BY <2>2, <3>1 DEF WiFi!ReplaceScanset, WiFi!panel, WiFi!OneAttemptAtATime,
          WiFi!ReloadIsUnderWay
  <2>3. CASE WiFi!ReloadData
    BY <2>3 DEF WiFi!ReloadData, WiFi!panel, ScansOK, WiFi!OneAttemptAtATime, WiFi!ReloadIsUnderWay
  <2>4. CASE WiFi!TypePassword \/ \E r \in 1 .. Len(shown) : WiFi!TableViewSelectionDidChange(r)
    BY <2>4 DEF WiFi!TypePassword, WiFi!TableViewSelectionDidChange, WiFi!table, ScansOK,
       WiFi!OneAttemptAtATime, WiFi!ReloadIsUnderWay
  <2>5. CASE WiFi!ClickedConnectButton
    <3>1. attempts = {} /\ connectButton' = FALSE
      BY <2>5 DEF WiFi!ClickedConnectButton, WiFi!OneAttemptAtATime
    <3>2. \A a, b \in attempts' : a = b
      BY <2>5, <3>1 DEF WiFi!ClickedConnectButton
    <3> QED BY <2>5, <3>1, <3>2 DEF WiFi!ClickedConnectButton, WiFi!table, ScansOK,
          WiFi!OneAttemptAtATime, WiFi!ReloadIsUnderWay
  <2>6. ASSUME NEW a \in attempts, WiFi!Associate(a) \/ WiFi!AlertCloses(a) PROVE I'
    BY <2>6 DEF WiFi!Associate, WiFi!AlertCloses, WiFi!table, ScansOK, WiFi!OneAttemptAtATime,
       WiFi!ReloadIsUnderWay
  <2>7. CASE UNCHANGED WiFi!vars
    BY <2>7 DEF WiFi!vars, ScansOK, WiFi!OneAttemptAtATime, WiFi!ReloadIsUnderWay
  <2> QED BY <2>1, <2>2, <2>3, <2>4, <2>5, <2>6, <2>7, <2>8 DEF WiFi!Next
<1> QED BY <1>1, <1>2, PTL DEF WiFi!Spec, TableAndButtonTrue, WiFi!TableAndButtonTrue

-----------------------------------------------------------------------------
(* CDBurner: the names of the files. *)

(* The loop finds a name that is not in the list: among one more attempts    *)
(* than the list has names there is one, and the first one is taken.         *)
LEMMA UniqueIsNew ==
    ASSUME NEW q \in Seq(Burner!FileNames), NEW a \in Burner!FileNames
    PROVE  /\ Burner!Unique(q, a) \in Burner!FileNames
           /\ Burner!Unique(q, a).stem = a.stem /\ Burner!Unique(q, a).new >= a.new
           /\ \A i \in 1 .. Len(q) : q[i] # Burner!Unique(q, a)
<1> DEFINE with(n) == [a EXCEPT !.new = n]
           D == a.new .. (a.new + Len(q))
           M == {n \in D : ~ Contains(q, with(n))}
           First(n) == ~ Contains(q, with(n)) /\ \A k \in a.new .. (n - 1) : Contains(q, with(k))
<1>1. Len(q) \in Nat /\ a.new \in Nat /\ a.stem \in Stems
  BY LenProperties DEF Burner!FileNames
<1>2. \A n \in Nat : with(n) \in Burner!FileNames /\ with(n).new = n /\ with(n).stem = a.stem
  BY DEF Burner!FileNames
<1>6. Burner!Unique(q, a) = with(CHOOSE n \in D : First(n))
  BY Zenon DEF Burner!Unique, Burner!Contains, Contains
<1> HIDE DEF with
<1>3. M # {}
  <2> SUFFICES ASSUME M = {} PROVE FALSE
    OBVIOUS
  <2> DEFINE f == [n \in D |-> CHOOSE i \in 1 .. Len(q) : q[i] = with(n)]
  <2>1. ASSUME NEW n \in D PROVE f[n] \in 1 .. Len(q) /\ q[f[n]] = with(n)
    <3>1. \E i \in 1 .. Len(q) : q[i] = with(n)
      BY <2>1 DEF Contains
    <3> QED BY <3>1
  <2>2. f \in [D -> 1 .. Len(q)]
    BY <2>1
  <2>3. /\ IsFiniteSet(D) /\ Cardinality(D) = Len(q) + 1
        /\ IsFiniteSet(1 .. Len(q)) /\ Cardinality(1 .. Len(q)) = Len(q)
    <3> HIDE DEF f, M, First
    <3>1. /\ a.new \in Int /\ a.new + Len(q) \in Int /\ 1 \in Int /\ Len(q) \in Int
          /\ ~ (a.new > a.new + Len(q)) /\ (a.new + Len(q)) - a.new + 1 = Len(q) + 1
          /\ 1 > Len(q) <=> Len(q) = 0
          /\ Len(q) - 1 + 1 = Len(q)
      BY <1>1
    <3>2. IsFiniteSet(D) /\ Cardinality(D) = Len(q) + 1
      BY <3>1, FS_Interval
    <3>3. IsFiniteSet(1 .. Len(q)) /\ Cardinality(1 .. Len(q)) = Len(q)
      BY <3>1, FS_Interval
    <3> QED BY <3>2, <3>3
  <2>4. PICK x \in D, y \in D : x # y /\ f[x] = f[y]
    <3>1. Cardinality(1 .. Len(q)) < Cardinality(D)
      BY <1>1, <2>3
    <3> HIDE DEF f, D
    <3> QED BY <2>2, <2>3, <3>1, FS_PigeonHole
  <2>5. with(x) = with(y)
    <3> HIDE DEF f
    <3> QED BY <2>1, <2>4
  <2>6. x \in Nat /\ y \in Nat
    BY <1>1
  <2> QED BY <1>2, <2>4, <2>5, <2>6
<1>4. \E n \in D : First(n)
  <2>1. M \subseteq Nat
    BY <1>1
  <2>2. PICK n \in M : \A k \in M : n <= k
    <3> HIDE DEF M
    <3> QED BY <1>3, <2>1, SmallestNumber
  <2>3. ASSUME NEW k \in a.new .. (n - 1) PROVE Contains(q, with(k))
    <3>1. k \in D /\ ~ (n <= k)
      BY <1>1, <2>2
    <3> QED BY <2>2, <3>1
  <2> QED BY <2>2, <2>3
<1> DEFINE n == CHOOSE n \in D : First(n)
<1>5. n \in D /\ First(n)
  <2> HIDE DEF D, First
  <2> QED BY <1>4
<1> HIDE DEF n
<1>9. Burner!Unique(q, a) = with(n)
  BY <1>6 DEF n
<1>7. n \in Nat /\ n >= a.new
  BY <1>1, <1>5
<1>8. \A i \in 1 .. Len(q) : q[i] # with(n)
  BY <1>5 DEF Contains
<1> QED BY <1>2, <1>7, <1>8, <1>9

(* Names of a list that are all different.                                  *)
Different(q) == \A i, j \in 1 .. Len(q) : q[i] = q[j] => i = j

(* How far the loop of addFileNames has come after k of the new names: s has *)
(* the names that were there, and then k names made of the new ones, unless  *)
(* an exception ended it.                                                   *)
Added(final, newFiles, k, s) ==
    /\ Different(s.names)
    /\ Len(s.names) >= Len(final) /\ \A i \in 1 .. Len(final) : s.names[i] = final[i]
    /\ ~ s.thrown =>
           /\ Len(s.names) = Len(final) + k
           /\ \A j \in 1 .. k : /\ s.names[Len(final) + j].stem = newFiles[j].stem
                                /\ s.names[Len(final) + j].new >= newFiles[j].new

(* One more name.                                                           *)
LEMMA OneMoreName ==
    ASSUME NEW final \in Seq(Burner!FileNames), NEW newFiles \in Seq(Burner!FileNames),
           NEW k \in 1 .. Len(newFiles),
           NEW s \in [names : Seq(Burner!FileNames), thrown : BOOLEAN],
           Added(final, newFiles, k - 1, s), ~ s.thrown,
           NEW t \in [names : Seq(Burner!FileNames), thrown : BOOLEAN],
           t = [names |-> Append(s.names, Burner!Unique(s.names, newFiles[k])), thrown |-> FALSE]
    PROVE  Added(final, newFiles, k, t)
<1> DEFINE u == Burner!Unique(s.names, newFiles[k])
           m == Len(s.names)
<1>1. Len(final) \in Nat /\ Len(newFiles) \in Nat /\ m \in Nat /\ newFiles[k] \in Burner!FileNames
  BY LenProperties, ElementOfSeq
<1>2. /\ u \in Burner!FileNames /\ u.stem = newFiles[k].stem /\ u.new >= newFiles[k].new
      /\ \A i \in 1 .. m : s.names[i] # u
  BY <1>1, UniqueIsNew
<1> HIDE DEF u
<1>3. /\ t.names = Append(s.names, u) /\ ~ t.thrown
  BY DEF u
<1>4. /\ Len(t.names) = m + 1 /\ t.names[m + 1] = u
      /\ \A i \in 1 .. m : t.names[i] = s.names[i]
  BY <1>2, <1>3, AppendProperties
<1> HIDE DEF m
<1>5. m = Len(final) + (k - 1) /\ m + 1 = Len(final) + k
  BY <1>1 DEF Added, m
<1>6. Different(t.names)
  <2> SUFFICES ASSUME NEW i \in 1 .. m + 1, NEW j \in 1 .. m + 1, t.names[i] = t.names[j]
               PROVE  i = j
    BY <1>4 DEF Different
  <2>1. CASE i \in 1 .. m /\ j \in 1 .. m
    BY <1>4, <2>1 DEF Added, Different, m
  <2>2. CASE i = m + 1 /\ j \in 1 .. m
    BY <1>2, <1>4, <2>2
  <2>3. CASE j = m + 1 /\ i \in 1 .. m
    BY <1>2, <1>4, <2>3
  <2> QED BY <1>1, <2>1, <2>2, <2>3
<1>7. \A i \in 1 .. Len(final) : t.names[i] = final[i]
  <2> SUFFICES ASSUME NEW i \in 1 .. Len(final) PROVE t.names[i] = final[i]
    OBVIOUS
  <2>1. i \in 1 .. m
    BY <1>1, <1>5
  <2> QED BY <1>4, <2>1 DEF Added
<1>8. ASSUME NEW j \in 1 .. k
      PROVE  /\ t.names[Len(final) + j].stem = newFiles[j].stem
             /\ t.names[Len(final) + j].new >= newFiles[j].new
  <2>1. CASE j = k
    BY <1>2, <1>4, <1>5, <2>1
  <2>2. CASE j # k
    <3>1. j \in 1 .. k - 1 /\ Len(final) + j \in 1 .. m
      BY <1>1, <1>5, <2>2
    <3> QED BY <1>4, <3>1 DEF Added
  <2> QED BY <2>1, <2>2
<1>9. Len(t.names) = Len(final) + k /\ Len(t.names) >= Len(final)
  BY <1>1, <1>4, <1>5
<1> QED BY <1>6, <1>7, <1>8, <1>9 DEF Added

(* addFileNames keeps the list, and makes a new name of each of the names.  *)
LEMMA FileNamesAdded ==
    ASSUME NEW final \in Seq(Burner!FileNames), Different(final), NEW newFiles \in Seq(Burner!FileNames)
    PROVE  /\ Burner!AddFileNames(final, newFiles) \in [names : Seq(Burner!FileNames), thrown : BOOLEAN]
           /\ Added(final, newFiles, Len(newFiles), Burner!AddFileNames(final, newFiles))
<1> DEFINE n == Len(newFiles)
           Q == [names : Seq(Burner!FileNames), thrown : BOOLEAN]
           b == [names |-> final, thrown |-> FALSE]
           now(s, k) == s.thrown \/ Burner!Throws(s.names, newFiles[k])
           Step(s, k) ==
               [names |-> IF now(s, k) THEN s.names ELSE Append(s.names, Burner!Unique(s.names, newFiles[k])),
                thrown |-> now(s, k)]
           F(a) == [k \in 0 .. n |-> IF k = 0 THEN b ELSE Step(a[k - 1], k)]
           loop == CHOOSE a : a = F(a)
           G == [k \in 1 .. n |-> [s \in Q |-> Step(s, k)]]
<1>1. Burner!AddFileNames(final, newFiles) = loop[n]
  BY DEF Burner!AddFileNames
<1>2. n \in Nat /\ \A k \in 1 .. n : newFiles[k] \in Burner!FileNames
  BY LenProperties, ElementOfSeq
<1>3. ASSUME NEW s \in Q, NEW k \in 1 .. n PROVE Step(s, k) \in Q
  <2>1. Burner!Unique(s.names, newFiles[k]) \in Burner!FileNames
    BY <1>2, UniqueIsNew
  <2>2. Append(s.names, Burner!Unique(s.names, newFiles[k])) \in Seq(Burner!FileNames)
    BY <2>1, AppendProperties
  <2>3. now(s, k) \in BOOLEAN
    BY DEF Burner!Throws
  <2> HIDE DEF now
  <2> QED BY <2>2, <2>3
<1>4. b \in Q
  OBVIOUS
<1>5. loop = F(loop)
  <2>1. G \in [1 .. n -> [Q -> Q]]
    BY <1>3
  <2>2. PICK f : RunOf(f, n, Q, b, G)
    <3> HIDE DEF G, n, Q, b
    <3> QED BY <1>2, <1>4, <2>1, RunExists
  <2>3. ASSUME NEW k \in 0 .. n PROVE f[k] = IF k = 0 THEN b ELSE Step(f[k - 1], k)
    <3> HIDE DEF Step, b, Q
    <3>1. CASE k = 0
      BY <2>2, <3>1 DEF RunOf
    <3>2. CASE k # 0
      <4>1. k \in 1 .. n /\ k - 1 \in 0 .. n
        BY <1>2, <3>2
      <4>2. f[k - 1] \in Q
        BY <2>2, <4>1 DEF RunOf
      <4>3. G[k][f[k - 1]] = Step(f[k - 1], k)
        BY <4>1, <4>2
      <4> QED BY <2>2, <3>2, <4>1, <4>3 DEF RunOf
    <3> QED BY <3>1, <3>2
  <2>4. f = F(f)
    <3> HIDE DEF Step, b, Q
    <3> QED BY <2>2, <2>3 DEF RunOf
  <2> HIDE DEF F
  <2> QED BY <2>4
<1>6. loop[0] = b /\ \A k \in 1 .. n : loop[k] = Step(loop[k - 1], k)
  <2> HIDE DEF loop, Step, b
  <2>1. \A k \in 0 .. n : loop[k] = IF k = 0 THEN b ELSE Step(loop[k - 1], k)
    BY <1>5
  <2> QED BY <1>2, <2>1
<1> HIDE DEF loop, F, G
<1> DEFINE T == {k \in 0 .. n : loop[k] \in Q /\ Added(final, newFiles, k, loop[k])}
<1>7. 0 \in T
  <2>1. b.names = final /\ Len(final) \in Nat
    BY LenProperties
  <2>2. Added(final, newFiles, 0, b)
    BY <2>1 DEF Added
  <2> HIDE DEF b, Q
  <2> QED BY <1>2, <1>4, <1>6, <2>2
<1>8. ASSUME NEW k \in 1 .. n, k - 1 \in T PROVE k \in T
  <2> DEFINE s == loop[k - 1]
             t == loop[k]
  <2>1. s \in Q /\ Added(final, newFiles, k - 1, s) /\ t = Step(s, k) /\ k \in 0 .. n
    BY <1>2, <1>6, <1>8
  <2>2. t \in Q
    BY <1>3, <2>1
  <2> HIDE DEF s, t
  <2>3. CASE now(s, k)
    <3>1. t.names = s.names /\ t.thrown
      BY <2>1, <2>3
    <3>2. Added(final, newFiles, k, t)
      BY <2>1, <3>1 DEF Added
    <3> QED BY <2>1, <2>2, <3>2 DEF t
  <2>4. CASE ~ now(s, k)
    <3>1. ~ s.thrown /\ t = [names |-> Append(s.names, Burner!Unique(s.names, newFiles[k])), thrown |-> FALSE]
      BY <2>1, <2>4
    <3>2. Added(final, newFiles, k, t)
      BY <2>1, <2>2, <3>1, OneMoreName
    <3> QED BY <2>1, <2>2, <3>2 DEF t
  <2> QED BY <2>3, <2>4
<1>9. \A k \in 0 .. n : k \in T
  <2> HIDE DEF T, n
  <2> QED BY <1>2, <1>7, <1>8, UpTo
<1>10. n \in T
  BY <1>2, <1>9
<1> QED BY <1>1, <1>10

(* The files of the list under their names.                                 *)
Listed == {[name |-> filesName[i], path |-> filesPath[i]] : i \in 1 .. Len(filesPath)}

(* createFolderToBurn copies files of the list.                             *)
LEMMA FilesCopied ==
    ASSUME Len(filesName) \in Nat, Len(filesPath) \in Nat, Len(filesPath) <= Len(filesName),
           folder \subseteq Listed, Burner!CreateFolderToBurn
    PROVE  folder' \subseteq Listed
<1> DEFINE n == Len(filesPath)
           Q == SUBSET Listed
           Step(s, k) == Burner!Copied(s, filesName[k], filesPath[k])
           F(a) == [k \in 0 .. n |-> IF k = 0 THEN folder ELSE Step(a[k - 1], k)]
           loop == CHOOSE a : a = F(a)
           G == [k \in 1 .. n |-> [s \in Q |-> Step(s, k)]]
<1>1. folder' = loop[n]
  <2>1. n = IF Len(filesPath) < Len(filesName) THEN Len(filesPath) ELSE Len(filesName)
    OBVIOUS
  <2> HIDE DEF n
  <2> QED BY <2>1 DEF Burner!CreateFolderToBurn
<1>2. n \in Nat /\ folder \in Q
  OBVIOUS
<1>3. ASSUME NEW s \in Q, NEW k \in 1 .. n PROVE Step(s, k) \in Q
  <2>1. [name |-> filesName[k], path |-> filesPath[k]] \in Listed
    BY DEF Listed
  <2> QED BY <2>1 DEF Burner!Copied
<1>4. loop = F(loop)
  <2>1. G \in [1 .. n -> [Q -> Q]]
    BY <1>3
  <2>2. PICK f : RunOf(f, n, Q, folder, G)
    <3> HIDE DEF G, n, Q
    <3> QED BY <1>2, <2>1, RunExists
  <2>3. ASSUME NEW k \in 0 .. n PROVE f[k] = IF k = 0 THEN folder ELSE Step(f[k - 1], k)
    <3> HIDE DEF Step, Q
    <3>1. CASE k = 0
      BY <2>2, <3>1 DEF RunOf
    <3>2. CASE k # 0
      <4>1. k \in 1 .. n /\ k - 1 \in 0 .. n
        BY <1>2, <3>2
      <4>2. f[k - 1] \in Q
        BY <2>2, <4>1 DEF RunOf
      <4>3. G[k][f[k - 1]] = Step(f[k - 1], k)
        BY <4>1, <4>2
      <4> QED BY <2>2, <3>2, <4>1, <4>3 DEF RunOf
    <3> QED BY <3>1, <3>2
  <2>4. f = F(f)
    <3> HIDE DEF Step, Q
    <3> QED BY <2>2, <2>3 DEF RunOf
  <2> HIDE DEF F
  <2> QED BY <2>4
<1>5. loop[0] = folder /\ \A k \in 1 .. n : loop[k] = Step(loop[k - 1], k)
  <2> HIDE DEF loop, Step
  <2>1. \A k \in 0 .. n : loop[k] = IF k = 0 THEN folder ELSE Step(loop[k - 1], k)
    BY <1>4
  <2> QED BY <1>2, <2>1
<1> HIDE DEF loop, F, G
<1>6. loop[0] \in Q /\ \A k \in 1 .. n : loop[k - 1] \in Q => loop[k] \in Q
  <2> HIDE DEF Step, Q
  <2> QED BY <1>2, <1>3, <1>5
<1>7. \A k \in 0 .. n : loop[k] \in Q
  <2> HIDE DEF Q, n
  <2> QED BY <1>2, <1>6, RunStays
<1> QED BY <1>1, <1>2, <1>7

(* The types, and that there is a name for every path: after an exception    *)
(* there may be more.                                                       *)
BurnInv ==
    /\ filesName \in Seq(Burner!FileNames) /\ filesPath \in Seq(Paths) /\ thrown \in BOOLEAN
    /\ Len(filesPath) <= Len(filesName)
    /\ Different(filesName)
    /\ Burner!NamesBelongToPaths
    /\ folder \subseteq Listed

(* The names and the paths of files that were chosen are added together.    *)
LEMMA ChosenFiles ==
    ASSUME BurnInv, NEW n \in Nat, NEW files \in [1 .. n -> Paths], Burner!AddFiles(files)
    PROVE  BurnInv'
<1> DEFINE newFiles == [i \in 1 .. Len(files) |-> NameOf[files[i]]]
           added == Burner!AddFileNames(filesName, newFiles)
<1>1. /\ Len(filesName) \in Nat /\ Len(filesPath) \in Nat
      /\ \A i \in 1 .. Len(filesPath) : filesPath[i] \in Paths
  BY LenProperties, ElementOfSeq DEF BurnInv
<1>2. files \in Seq(Paths) /\ Len(files) = n
  BY SeqDef, LenProperties
<1>3. newFiles \in [1 .. n -> Burner!FileNames] /\ \A i \in 1 .. n : newFiles[i] = NameOf[files[i]]
  BY <1>2, FilesAssumption DEF Burner!FileNames
<1>4. newFiles \in Seq(Burner!FileNames) /\ Len(newFiles) = n
  <2> HIDE DEF newFiles
  <2> QED BY <1>3, SeqDef, LenProperties
<1>5. /\ filesName' = added.names /\ thrown' = (thrown \/ added.thrown)
      /\ filesPath' = IF added.thrown THEN filesPath ELSE filesPath \o files
      /\ folder' = folder
  BY DEF Burner!AddFiles
<1> HIDE DEF newFiles
<1>6. /\ added \in [names : Seq(Burner!FileNames), thrown : BOOLEAN]
      /\ Added(filesName, newFiles, n, added)
  BY <1>4, FileNamesAdded DEF BurnInv
<1> HIDE DEF added
<1>7. /\ Len(filesPath) <= Len(filesName)
      /\ ~ thrown => /\ Len(filesPath) = Len(filesName)
                     /\ \A i \in 1 .. Len(filesName) :
                            /\ filesName[i].stem = NameOf[filesPath[i]].stem
                            /\ filesName[i].new >= NameOf[filesPath[i]].new
  BY DEF BurnInv, Burner!NamesBelongToPaths
<1>8. /\ \A i \in 1 .. Len(filesName) : filesName'[i] = filesName[i]
      /\ Len(filesName') >= Len(filesName) /\ Different(filesName')
      /\ filesName' \in Seq(Burner!FileNames) /\ thrown' \in BOOLEAN
  BY <1>5, <1>6 DEF Added
<1>9. Different(filesName)'
  BY <1>8 DEF Different
<1>10. /\ filesPath' \in Seq(Paths) /\ Len(filesPath') >= Len(filesPath)
       /\ \A i \in 1 .. Len(filesPath) : filesPath'[i] = filesPath[i]
       /\ IF added.thrown THEN filesPath' = filesPath
          ELSE /\ Len(filesPath') = Len(filesPath) + n
               /\ \A j \in 1 .. n : filesPath'[Len(filesPath) + j] = files[j]
  <2>1. CASE added.thrown
    BY <1>1, <1>5, <2>1 DEF BurnInv
  <2>2. CASE ~ added.thrown
    <3>1. filesPath' = filesPath \o files
      BY <1>5, <2>2
    <3>2. /\ filesPath' \in Seq(Paths) /\ Len(filesPath') = Len(filesPath) + n
          /\ \A i \in 1 .. Len(filesPath) + n :
                 filesPath'[i] = IF i <= Len(filesPath) THEN filesPath[i] ELSE files[i - Len(filesPath)]
      BY <1>2, <3>1, ConcatProperties DEF BurnInv
    <3>3. ASSUME NEW j \in 1 .. n PROVE filesPath'[Len(filesPath) + j] = files[j]
      <4>1. /\ Len(filesPath) + j \in 1 .. Len(filesPath) + n
            /\ ~ (Len(filesPath) + j <= Len(filesPath))
            /\ (Len(filesPath) + j) - Len(filesPath) = j
        BY <1>1
      <4> QED BY <3>2, <4>1
    <3>4. ASSUME NEW i \in 1 .. Len(filesPath) PROVE filesPath'[i] = filesPath[i]
      <4>1. i \in 1 .. Len(filesPath) + n /\ i <= Len(filesPath)
        BY <1>1
      <4> QED BY <3>2, <4>1
    <3>5. Len(filesPath') >= Len(filesPath)
      BY <1>1, <3>2
    <3> QED BY <2>2, <3>2, <3>3, <3>4, <3>5
  <2> QED BY <2>1, <2>2
<1>11. Len(filesPath') <= Len(filesName')
  <2>0. Len(filesName') \in Nat
    BY <1>8, LenProperties
  <2>1. CASE added.thrown
    BY <1>1, <1>7, <1>8, <1>10, <2>0, <2>1
  <2>2. CASE ~ added.thrown
    BY <1>1, <1>5, <1>6, <1>7, <1>10, <2>2 DEF Added
  <2> QED BY <2>1, <2>2
<1>12. Burner!NamesBelongToPaths'
  <2> SUFFICES ASSUME ~ thrown'
               PROVE  /\ Len(filesName') = Len(filesPath')
                      /\ \A i \in 1 .. Len(filesName') :
                             /\ filesName'[i].stem = NameOf[filesPath'[i]].stem
                             /\ filesName'[i].new >= NameOf[filesPath'[i]].new
    BY DEF Burner!NamesBelongToPaths
  <2>0. ~ thrown /\ ~ added.thrown
    BY <1>5
  <2>1. Len(filesName') = Len(filesName) + n /\ Len(filesPath') = Len(filesName) + n
    BY <1>5, <1>6, <1>7, <1>10, <2>0 DEF Added
  <2>2. ASSUME NEW i \in 1 .. Len(filesName) + n
        PROVE  /\ filesName'[i].stem = NameOf[filesPath'[i]].stem
               /\ filesName'[i].new >= NameOf[filesPath'[i]].new
    <3>1. CASE i \in 1 .. Len(filesName)
      BY <1>7, <1>8, <1>10, <2>0, <3>1
    <3>2. CASE i \notin 1 .. Len(filesName)
      <4> DEFINE j == i - Len(filesName)
      <4>1. j \in 1 .. n /\ i = Len(filesName) + j
        BY <1>1, <3>2
      <4> HIDE DEF j
      <4>2. /\ filesName'[Len(filesName) + j].stem = newFiles[j].stem
            /\ filesName'[Len(filesName) + j].new >= newFiles[j].new
        BY <1>5, <1>6, <2>0, <4>1 DEF Added
      <4>3. newFiles[j] = NameOf[filesPath'[i]]
        <5>1. filesPath'[Len(filesPath) + j] = files[j]
          BY <1>10, <2>0, <4>1
        <5>2. Len(filesPath) = Len(filesName)
          BY <1>7, <2>0
        <5>3. newFiles[j] = NameOf[files[j]]
          BY <1>3, <4>1
        <5> QED BY <4>1, <5>1, <5>2, <5>3
      <4> QED BY <4>1, <4>2, <4>3
    <3> QED BY <3>1, <3>2
  <2> QED BY <2>1, <2>2
<1>13. folder' \subseteq Listed'
  <2> SUFFICES ASSUME NEW f \in folder' PROVE f \in Listed'
    OBVIOUS
  <2>1. PICK i \in 1 .. Len(filesPath) : f = [name |-> filesName[i], path |-> filesPath[i]]
    BY <1>5 DEF BurnInv, Listed
  <2>2. i \in 1 .. Len(filesPath') /\ filesName'[i] = filesName[i] /\ filesPath'[i] = filesPath[i]
    BY <1>1, <1>7, <1>8, <1>10
  <2> QED BY <2>1, <2>2 DEF Listed
<1> QED BY <1>8, <1>9, <1>10, <1>11, <1>12, <1>13 DEF BurnInv

(* The list keeps the names of its files apart and in their places, and the  *)
(* folder holds files of the list under their names: addFileNames,           *)
(* createFolderToBurn and eraseBurnFolder, for any files and names.          *)
THEOREM NamesStandForFiles == Burner!Spec => []NamesTrue
<1>1. Burner!Init => BurnInv
  <2> SUFFICES ASSUME Burner!Init PROVE BurnInv
    OBVIOUS
  <2>1. /\ filesName \in Seq(Burner!FileNames) /\ filesPath \in Seq(Paths)
        /\ Len(filesName) = 0 /\ Len(filesPath) = 0
    BY EmptySeq DEF Burner!Init
  <2>2. Burner!NamesBelongToPaths /\ Different(filesName)
    BY <2>1 DEF Burner!NamesBelongToPaths, Different
  <2>3. Len(filesPath) <= Len(filesName)
    BY <2>1
  <2>4. thrown \in BOOLEAN /\ folder \subseteq Listed
    BY DEF Burner!Init
  <2> QED BY <2>1, <2>2, <2>3, <2>4 DEF BurnInv
<1>2. BurnInv /\ [Burner!Next]_(Burner!vars) => BurnInv'
  <2> SUFFICES ASSUME BurnInv, [Burner!Next]_(Burner!vars) PROVE BurnInv'
    OBVIOUS
  <2>1. ASSUME NEW n \in 1 .. (MaxFiles - Len(filesName)), NEW files \in [1 .. n -> Paths],
               Burner!AddFiles(files)
        PROVE  BurnInv'
    <3>1. n \in Nat
      BY FilesAssumption, LenProperties DEF BurnInv
    <3> QED BY <2>1, <3>1, ChosenFiles
  <2>2. CASE Burner!EraseBurnFolder
    BY <2>2 DEF Burner!EraseBurnFolder, BurnInv, Different, Burner!NamesBelongToPaths, Listed
  <2>3. CASE Burner!CreateFolderToBurn
    <3>1. Len(filesName) \in Nat /\ Len(filesPath) \in Nat
      BY LenProperties DEF BurnInv
    <3>2. folder' \subseteq Listed
      BY <2>3, <3>1, FilesCopied DEF BurnInv
    <3>3. UNCHANGED <<filesName, filesPath>> /\ thrown' = (thrown \/ Len(filesPath) < Len(filesName))
      BY <2>3 DEF Burner!CreateFolderToBurn
    <3>4. thrown' \in BOOLEAN
      BY <3>3 DEF BurnInv
    <3>5. Burner!NamesBelongToPaths'
      BY <3>3 DEF BurnInv, Burner!NamesBelongToPaths
    <3> QED BY <3>2, <3>3, <3>4, <3>5 DEF BurnInv, Different, Listed
  <2>4. CASE UNCHANGED Burner!vars
    BY <2>4 DEF Burner!vars, BurnInv, Different, Burner!NamesBelongToPaths, Listed
  <2> QED BY <2>1, <2>2, <2>3, <2>4 DEF Burner!Next
<1>3. BurnInv => NamesTrue
  <2> SUFFICES ASSUME BurnInv PROVE NamesTrue
    OBVIOUS
  <2>1. Burner!NamesDistinct
    <3>1. DOMAIN filesName = 1 .. Len(filesName)
      BY LenProperties DEF BurnInv
    <3> QED BY <3>1 DEF BurnInv, Different, Burner!NamesDistinct, Burner!IsInjective
  <2>2. Burner!FolderHasTheList
    BY DEF BurnInv, Listed, Burner!FolderHasTheList
  <2> QED BY <2>1, <2>2 DEF BurnInv, NamesTrue, Burner!NamesTrue
<1> QED BY <1>1, <1>2, <1>3, PTL DEF Burner!Spec
=============================================================================
