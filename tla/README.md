# Verification of I-PC

The repository holds six small desktop programs (Objective-C and C#, about 2900
lines of their own) and, inside one of them, a copy of the mail library mailcore2.
The programs have no tests. What is hard about them is the same everywhere: work
is handed from the main thread to another one and back, and state that was read
before is used after. In the mail library two things are added: sessions that must
stay usable after any sequence of failed exchanges with a server, and containers whose
searches rely on an order that every operation must keep. These TLA+ modules model
that part, TLC checks them on small instances, and TLAPS proves what holds for every
size.

## Inventory

| component | state | operations | what makes it hard | what makes it correct | module |
|---|---|---|---|---|---|
| mailcore2 `OperationQueue` (`core/basetypes/MCOperationQueue.cpp`) | array of operations, three semaphores, `mStarted`, `mQuitting`, `_pendingCheckRunning`, a reference count | `addOperation`, `cancelAllOperations`, `runOperations`, the callbacks on the main thread, the delayed check | a worker started on demand and stopped when idle, additions while it is quitting, `dispatch_sync` in both directions | a serial executor: order, one at a time, one callback, none after a cancel, nothing forgotten, the worker stops, references balance | `OperationQueue`, `SerialExecutor` |
| SMTP session lifetime (`async/smtp`, `objc`) | who retains the session, the delayed disconnection, `_started` of wrappers | `start`, `cancel`, completion, `queueStartRunning`, `queueStoppedRunning`, automatic disconnection | bare pointers backed by retains of someone else; a user who drops anything at any time | nothing uses a dead session; the connection is closed; the session is freed | `SMTPAsyncSession` |
| sending and cancelling a message (`core/smtp/MCSMTPSession.cpp`) | connection state, stream, `mSendingCancelled`, `mCanCancel` | `sendMessage`, `cancelMessageSending` | `cancel()` on the main thread reaches into the transmission; the flags belong to the session, not to a message | a cancel reaches only a transmission, and leaves nothing behind | `SMTPSend` |
| IMAP session (`core/imap/MCIMAPSession.cpp`) | `mState`, `mImap`, `mCurrentFolder`, `mShouldDisconnect`, capabilities, delimiter | connect, login, select, and every command on an account or a folder | some forty places decide whether an error ends the connection; the selected folder is a cached copy of the server's | commands run in their own folder; a broken stream is left; the session can always reconnect | `IMAPSession` |
| IMAP connection pool (`async/imap/MCIMAPAsyncSession.cpp`, `MCIMAPAsyncConnection.cpp`) | connections with their queues and last folders, `mQueueRunning`, the count of a disconnection | choose a connection, start, cancel, disconnect, the queues' callbacks | four functions that choose call each other; queues stop and restart on their own | the limit is kept; the running state is true; a disconnection is reported when done; idle connections close | `IMAPAsyncSession` |
| IDLE (`async/imap/MCIMAPIdleOperation.cpp`) | `mInterrupted`, `mSetupSuccess`, `mIdleEnabled`, the stream | prepare, idle, unprepare, `interruptIdle` | the main thread reaches into the stream of another thread at any moment | the stream is alive when it is interrupted, and set up exactly while it is idle | `IMAPIdle` |
| download of an attachment to a file (`core/imap`, `MCDataStreamDecoder.cpp`) | offset, retries, remaining data, the file | fetch a chunk, retry, decode, flush | retries while a decoder keeps a rest; a size that is only estimated | the file is the part, once and in order | `AttachmentDownload` |
| POP session (`core/pop/MCPOPSession.cpp`) | `mState`, `mPop`; at the server: messages, marks | connect, login, list, fetch, delete, no-op, disconnect | deletion is a mark and a QUIT; errors leave the state as it was | the session's belief is the server's; no deletion stays pending | `POPSession` |
| account validator (`core/provider/MCAccountValidator.cpp`) | the service and server being tried, results, resolver, timer | `start`, resolver, timeout, next server, `cancel` | the resolver races its timeout and the user | one search, one end, and a report of what was answered | `AccountValidator` |
| `IndexSet` (`core/basetypes/MCIndexSet.cpp`) | a sorted array of ranges | add, remove, intersect, search, conversion to IMAP sets | boundaries, unbounded ranges, merging of neighbours | a set of integers | `IndexSet`, `IntegerSet` |
| `HashMap` (`core/basetypes/MCHashMap.cpp`) | chains of cells, their number, the count | set, get, remove, clear, growth | keys move when the table grows | a map | `HashMap`, `ObjectMap` |
| USBDevicesChecker window (`ViewController.m`, `USBDevicesModel.m`) | array of rows, selection, buttons, `ejecting` | 1 s timer, mount notification, selection, ejection on a global queue | a row index is used on another thread, and again after an alert; two external programs are read one after the other | rows follow the hardware; marks and buttons are about the right device | `USBDevices` |
| WiFiManager window | `scanset`, the table, Connect button, password | scans on a concurrent queue every 2 s, selection, connecting | two scans replace what the table reads | the last scan is going to be shown; one attempt at a time | `WiFiScan` |
| BatteryChecker | display sleep setting, the remembered one, slider | launch, power source changes, slider, termination | the setting must come back after any sequence of events, crashes included | the user's value comes back | `DisplaySleep` |
| DeviceManager (C#) | `_devices`, the rows, the button | refresh by an event watcher on its own thread, toggle | row numbers are used while the list behind them is replaced | the device toggled is the one that was selected | `DeviceTable` |
| CDBurner | list of names, list of paths, the folder to burn | add files, create and erase the folder | made-up names may clash with real ones | names are unique and stand for their files | `BurnFolder` |
| USBDevicesChecker volume sheet, Lab1, Lab2 | none | display sizes; straight-line programs | - | - | not modelled |
| KeyboardHooker's own program | - | - | - | - | not modelled (see the end) |
| NNTP, parsing and building of messages, strings, ICU, minizip | - | - | conversions of data, or vendored | - | not modelled |

How they interact. Every asynchronous session of mailcore2 runs its operations on an
`OperationQueue`. For SMTP the composition is explicit: `SMTPAsyncSession` and
`SMTPSend` extend `OperationQueue` and take its actions with their own effects
conjoined. `IMAPAsyncSession` has several queues at once, and keeps of each what
`OperationQueue` shows: one operation after the other, a thread that ends some time
after its queue got empty, and a restart when operations came while it ended. What one
connection then does, one operation at a time, is `IMAPSession`; `IMAPIdle` is the one
operation of it that the main thread reaches into, and `AttachmentDownload` the one
that keeps state of its own across exchanges. `POPSession` is used in the same way by a
queue of its own. `AccountValidator` uses the sessions only for the answer of one
check. The desktop programs stand alone.

The hazards, each at its line and with the properties that cover it, are in
`PROJECT.json`.

## The modules

### mailcore2: queue and SMTP

**`SerialExecutor`** is what an `OperationQueue` promises, with no thread in sight:
operations wait in order, one is executed at a time, its completion callback comes
afterwards, once and never after a cancellation, and the next one begins when it is
settled.

**`OperationQueue`** is the implementation. Two processes: the main thread (clients,
the blocks of the serial dispatch queue `mainQueue`, the delayed check) and the
worker (`worker` is its program counter in `runOperations`). What is under `mLock` is
one step; every semaphore operation that the other thread can see in the middle of
something is a step of its own, so `addOperation` is three steps (append, signal,
`startThread`) and `startThread` two (create, wait for the start semaphore). A client
runs in a block of its own or inside a completion callback, as the comment at line
222 requires ("addOperation() should also be called from main thread"). `frame` and
`mainPc` are the stack of the main thread: the block it is in and where it is in
`addOperation` or `startThread`; `dispatch_sync` returns to the worker when its block
ends. `mCounter` follows every `retain()` and `release()` numbered (1) to (4) in the
source and those of the delayed call (`MCObject.cpp` 336-379). The autorelease pool
matters only for how long an operation lives and appears as `current`, which is reset
at the end of the iteration. `phase` is a history variable. Left out:
`setDispatchQueue` and `setCallbackDispatchQueue` (everything is on the main queue,
the default), and the code inside `#if 0`.

**`SMTPAsyncSession`** adds who holds the session. It does not count its references
but says what holds one: the `MCOSMTPSession`, the queue from `queueStartRunning` to
`queueStoppedRunning`, the delayed disconnection, and every native operation, which
lives in its wrapper, in the array, or in the worker's autorelease pool. `destroyed`
latches the first moment nothing does. A wrapper's self-retains are counted
(`selfRetains`), because `start`, `cancel` and `_operationCompleted` must balance.
`DisconnectOps` are names for the operations of the automatic disconnection; a dead
one's name is used again, one name is enough because a second disconnection is
scheduled only when the queue stopped.

**`SMTPSend`** adds `sendMessage` as the worker executes it: reset the flag, connect,
log in, test the flag, set `mCanCancel`, transmit, reset it, close the stream.
`cancel()` on the main thread is three steps (mark the operation, set the session's
flag, cancel the stream), repeated for each operation under the queue's lock for
`cancelAllOperations`. The sections of the session's two locks take no other lock and
are single steps. Errors are reduced to whether there is one; the server is a
nondeterministic answer. `sent` (accepted by the server) and `disturbed` (some
`cancel()` overlapped the send) are history variables.

### mailcore2: IMAP

**`IMAPSession`** is one connection. A session is a record of its fields (`state`,
`folder` for `mCurrentFolder`, `stream` for `mImap`, `closing` for
`mShouldDisconnect`...) together with what the server has on the other side (`peer`). A
function of the session (`Connect`, `Login`, `SelectIfNeeded`, `InFolder`, ...) is an
operator from a session to the set of its outcomes, each with the session left behind
and the error reported; the answers of the server and a network that fails at any
exchange make the outcome a set. An action performs one operation of
`async/imap/MCIMAP*Operation.cpp` as a whole, because the queue runs them one after
the other on one thread. `Fold` says which folder names differ only in case (the
session compares them without case), `Offers` what a server may announce: its extensions,
and whether it greets with PREAUTH, which `hasError` (551-555) takes for an ordinary greeting.
The default namespace of the account may be known from another connection
(`MCIMAPAsyncSession.cpp` 273), so that `Init` leaves it open. `configured` is a history: a
login was completed. A failed assertion, a command through a NULL `mImap` and a command through
a NULL `defaultNamespace()` are outcomes of their own (`Faults`), after which nothing happens.
`login` calls `fetchNamespace`, which calls `loginIfNeeded`, which may call `login`:
`Logins[n]` is the function from a session to the outcomes of a login with up to `n`
logins in one another, and `MaxRelogins` bounds `n`.
`last` remembers the operation, its error, and its folder if it got a result. What
the answers contain, and how a command is chosen among extensions of equal effect, is
abstract.

**`IMAPAsyncSession`** is the account. `mSessions` is the sequence of connections, each
with its `queue`, the operation in `current`, what its `thread` does (`off`, `ready`,
`main`, `after`, `stopping`), `isQueueRunning`, `lastFolder`, `connected` and the
pending automatic disconnection. `AvailableSession`, `MatchingSessionForFolder` and
`SessionForFolder` are the functions of the same names, with `SessionWithMinQueue` in
between. `multi` is the operation that disconnects the whole account by one part per
connection. Users start any request (`Urgent` ones ask for a connection of their
own), disconnect and cancel.

**`IMAPIdle`**: `Step` is the next statement of `main()` of an idle operation on the
queue's thread, split where the main thread can see the difference; `InterruptIdle` is a
step of the main thread, allowed at any moment. `selectIfNeeded()` is called in three places
(`Selects`): by `main()` before the stream is set up, by `idle()` itself (`MCIMAPSession.cpp`
3555), and by the fetch inside it (3562). `selecting` says where it is: it may disconnect,
connect and log in at each of them, so that the stream that was set up can be let go of, freed
and replaced between `Prepare` and the wait (`replaced` is the history of that). A login may
end well with `mShouldDisconnect` set (the error of COMPRESS, 4483, ignored at 4459); the next
`selectIfNeeded()` then disconnects, or `identity` and `fetchNamespace` in the same login do
(`caller`). The sections of `mIdleLock` and `mLock` are single steps. `freed` are the streams
that no longer exist.

**`AttachmentDownload`**: `FetchChunk` with its retries and `FlushChunks` are
`fetchMessageAttachmentToFileByChunks`, `Receive` and `FlushStream` the one that
streams. The part is the numbers 1, 2, ..., so that a lost, repeated or displaced piece
shows in `file`. The decoder turns `Quantum` numbers at once and keeps the rest in
`mRemainingData`.

### mailcore2: POP, validation, containers

**`POPSession`** is built like `IMAPSession`: functions are sets of outcomes, actions
are operations. The server's side (`peer`, its messages, its marks) is part of the
session record, because the marks are committed only by QUIT.

**`AccountValidator`**: one action per callback on the main thread (`Start`,
`ResolveMXDone`, `ResolveMXTimeout`, `CheckNextHostDone`, `Cancel`) and one for each of
the two queues that post a result. `DropCancelled` is the queue that drops the result of
a cancelled operation. An account whose address is missing never calls back; this is
what the code does and the model keeps it.

**`IndexSet`** translates the searches and the merging of `MCIndexSet.cpp` as functions
on sequences of ranges, with arithmetic modulo `MAX + 1`; **`IntegerSet`** is what the
header promises. **`HashMap`** is the table, its chains as sets of cells;
**`ObjectMap`** is a map with the answers it gives. The refinement of the map covers the
state and the answers; `IntegerSet` has no questions, `ReadsWhatItHolds` says that the
searches answer truly. **`Containers`** has the two side by side.

### The desktop programs

**`USBDevices`** is the window of USBDevicesChecker. The main thread reads the
devices in two steps (`SystemProfiler`, then the rest of the handler with the answer of
ioreg), because the hardware can change in between; then a device has no serial
number (`Unknown`) and no disk path. Some devices never have a serial number
(`withoutSerial`): all of them get the same text for one (`USBDevicesModel.m` 238), and the
serial number is all by which the handlers tell rows apart. `volumesChanged` may so put one
object into several rows (`shared`), which are then marked together. `told` is a history: which
alert an ejection was answered with. `WithAdded`, `WithoutRemoved` and
`WithFoundMedia` are the three branches of `updateData`, with the skip that
`removeObjectAtIndex` inside the index loop causes. An ejection is a process of its
own: it asks for the buttons to be disabled, reads the path of its row, runs
diskutil, dispatches its report and resets `ejecting`. The main queue's blocks are
handled between events; an alert is one step, because neither the timer nor another
block of the main queue runs while it is open and it changes state only when it is
dismissed. An uncaught exception (a row out of range, the path of a device that is no
disk) stops the program (`crashed`). External and simplified in favour of the code:
`reloadData` keeps a selected row that still exists, and tells the delegate when it
drops one.

**`WiFiScan`**: a scan is up to five steps on a thread of the concurrent queue (scan, compare
the numbers, compare the networks, replace `scanset`, post the reload), each of which finds
`scanset` as another scan may have left it; the table shows the set of its last `reloadData`,
and an attempt to connect keeps the button disabled until its alert closes.

**`DisplaySleep`**: `viewDidLoad` in three steps, the notifications of the power source,
the slider, the termination, and a crash at any moment. What a launch reads of the setting is
the setting or a member of `Garbage`, since `number[3]` is neither initialised nor terminated
(`DisplaySleepController.m` 29-38); `misread` and `crashed` are histories. The user may set the
delay by other means at any time; `chosen` is what he set it to between two runs.

**`DeviceTable`**: the handler of the event watcher in its six steps (stop the watcher,
disable the button, read the devices, fill the rows, enable the button, start the
watcher) with plugging and the toggle at any point; `Invoke` waits, so that a step on
the thread of the form is one step. Events that arrive while the watcher is stopped are
lost.

**`BurnFolder`**: a name is its stem and how many " (new)" were put into it. The window
that keeps names and paths is not in the repository: that they are in parallel lists is
what the methods that take them assume. After an exception of `addFileNames` (`thrown`) there
are names without a path: the window stays, more files may be chosen, and `createFolderToBurn`
copies until it throws in turn.

### Conventions

The modules whose names begin with `MC` give the constants their values. Definitions
marked "Mutant" are variants of a definition near them with a plausible bug; nothing
uses them. For each property there is one with which TLC finds that property violated
(`PROJECT.json`, "mutants"), so that no property holds for want of anything that could
break it. A property of a run that names several parts (`TableCorrect`,
`SearchCorrect`, ...) is a conjunction of named statements, each with its own comment in
its module.

## The runs

| run | instance | shows |
|---|---|---|
| `operation_queue` | 3 operations, one with `mShouldRunWhenCancelled` | the queue implements `SerialExecutor` (with its progress); tokens and references are exact; no assertion failure, no forgotten operation; every operation settles; an idle worker stops |
| `smtp_session` | 2 messages, 1 name for disconnections | no use after destruction, balanced self-retains; an unused connection is closed; a dropped session is destroyed |
| `smtp_send` | 2 messages, `MaxCancels` = 2 | a cancel finds only a transmission, a cancelled stream is not used again, a send that no cancel overlapped reports success only when the server accepted it, every message is settled |
| `smtp_send_success` | same, one cancel | **violation**: a message that nobody cancelled reports success without having been sent |
| `imap_pool` | 2 operations on one folder, the second urgent, 1 on INBOX; 2 connections; 1 cancellation, 1 disconnection | the limit of connections, the running state, the report of a disconnection; idle connections close |
| `local_parts` | Hash map: 5 keys, two with one hash value, two chains of depth 1. Index sets: two, numbers up to 6. WiFiManager: 2 networks, 2 scans at once. DeviceManager: 3 devices. BatteryChecker: delays 1, 3, 10, `Garbage` 0 and 100, 2 crashes. CDBurner: 6 paths, lists of 4 files | the table is consistent and implements a map, through two growths; index sets are searched and converted truly and, bridging additions aside, are sets of integers; WiFiManager's table is going to show the last scan and one attempt runs at a time; a toggle is about the selected device; the delay comes back, unless it was misread or a run crashed; names and folder stand for the files |
| `mail_parts` | IMAP session: folders INBOX, work and Work, four servers (two with every extension between them, one with COMPRESS and ID, one that greets with PREAUTH), `MaxRelogins` = 1. IDLE: 3 operations, 2 connections. Download: 7 units, chunks of 3, quantum 2, 3 retries, estimates 0, 4, 7, 9. POP: 2 messages and a new one. Validator: 0 or 2 servers for each service | every operation on a folder runs in that folder; cached and real selection agree; nothing stops the program but the two known faults; a broken stream is left; a second attempt can always succeed; the interruption of an idle is safe, also when its stream is replaced; downloads lose nothing; the POP session believes what is so; the validator ends once and reports what was answered |
| `validator_services` | 0 or 1 server for each service | **violation**: when no server of a service works the search ends, and the next service is not tried |
| `imap_login` | folders INBOX and work, a server with ID and COMPRESS | **violation**: a login that reports success leaves a session that is not logged in, and the next assertion fails |
| `index_set_add` | 1 index set, numbers up to 7 | **violation**: an added range that bridges two others loses numbers |
| `usb_devices` | mouse and disk, any of them without a serial number; 2 changes, 2 ejections, 3 of both together | ejections exclude each other, and each is answered by the alert that tells how it ended, unless the program stops; marks belong to unmounted disks while rows stay; the number of rows converges, unless devices cannot be told apart |
| `usb_buttons` | mouse and disk, 1 ejection | **violation**: buttons enabled with nothing selected |

`mail_parts` and `local_parts` check several modules in one run each. Their parts share no
state. The variable `running` picks the one that is started; the others keep one initial
value and take no step. The states of the run are the union of the states of its parts,
not their product, and a property of one part, which reads only the variables of that
part, is checked on exactly the states that the part has alone.

Why the bounds are enough. Three operations make the cases of the queue: one being
run, one waiting behind it, one arriving while the worker quits or is being
restarted; the worker looks only at the head and at emptiness. Each operation is
added once, so the number of restarts is bounded by three. Two messages are enough
for one to suffer from the cancellation of the other; `MaxCancels` = 2 lets a second
cancel meet what the first one left. For the IMAP session three folders are enough for
a stale selection to be wrong in both ways (another folder, another case), and since
every operation can follow every other the number of operations is not bounded; the four
servers have every extension between them, the two whose errors `login` ignores together, and
the greeting that makes a login impossible. Two connections let an idle lose its stream once
inside `idle()` and go on with another. In the
pool two requests for one folder and one for another make a connection with the right
folder, one with a wrong one, and a full pool. Two index sets with ranges up to 6 hold up to
two separate ranges and the unbounded one; that is what merging needs, and
`index_set_add` uses one number more. Two growths of the hash table show a key that moves
twice. In a download of 7 units the last chunk is short, the decoder keeps a rest at every
second boundary, and the estimates are unknown, too small, right and too large. Two USB
devices allow a removal that shifts the row of an ejection, a replacement, and two that
cannot be told apart; `MaxChanges` counts plugging, unplugging and mounting by the user,
`MaxClicks` ejections, `MaxEvents` both together: two ejections with a change between them, or
one with a change before and one after it. Two crashes let the
second one remember what the first one spoiled.

Deadlock is checked in `operation_queue` and `local_parts` (and in
`index_set_add`). The other runs disable it, because the systems may stop: a
session that was destroyed and dropped has nothing left to do, each message and request
is started once, an exception stops USBDevicesChecker, a download or a validation ends.

### Fairness

`OperationQueue`: weak fairness of the main thread, the worker and the delayed check,
each as a whole: the system schedules both threads, a `dispatch_after` fires, `main()`
and completion callbacks return. No client ever has to do anything. `SMTPAsyncSession`
adds that the disconnection's delay expires, `SMTPSend` that a `cancel()` that was
begun goes on (and that the calls to the server return, which
`mailsmtp_set_timeout` ensures). `IMAPAsyncSession`: weak fairness of the work of each
connection, its thread and its callbacks together, on the same grounds. `USBDevices`: weak
fairness of the timer, of a handler that has begun and of each ejection; strong fairness of
the main queue's blocks and of the notifications, because the run loop serves each of its
sources in every pass, while the timer takes the thread again and again. The other modules
state no fairness and no liveness: they have safety and action properties only.

### The five violations

`smtp_send_success`: `MCOSMTPSendOperation.h` line 32 promises an error on failure.
The run cancels an operation that waits in the queue while the other one is between
`setSendingCancelled(false)` and the test at line 736 of `MCSMTPSession.cpp`. The flag
is the session's, so the other one, which nobody cancelled, takes it for its own and
leaves with the `ErrorNone` of `loginIfNeeded`: its completion block gets a nil error
and nothing was sent. `UndisturbedSuccessMeansSent` in `smtp_send` shows that this is
the only way: without an overlapping cancel success means sent.

`imap_login`: `select` and `folderStatus` assert that the session is logged in
(`MCIMAPSession.cpp` 1147 and 1217); the operations call them after `loginIfNeeded`
reported no error. `login` ignores two errors: that of COMPRESS (4457) and that of ID
(1042). An answer to COMPRESS that cannot be parsed sets `mShouldDisconnect`, and
`identity`, the last command of the login, begins with `connectIfNeeded`: it closes the
connection that was just authenticated and opens another, or fails to. `login` then
reports success for a session that is connected, or not even that, and the assertion
fails. The server must announce both extensions: `OnlyKnownFaults` in `mail_parts`, and the
theorem `FaultsAreKnown`, say that with any other server no assertion fails. Where the other
properties of the session need such a server, `Separate` says so in their text.

`usb_buttons`: the comment at line 73 of `ViewController.m` says the buttons follow
the selected device. Changes of the selection are ignored during an ejection, and
the alert of a failed one enables both buttons whatever is selected by then.

`index_set_add`: `MCOIndexSet.h` line 42 says that `addRange` adds a range to the set.
`mergeRanges` (`MCIndexSet.cpp` 256) replaces the added range and all it reaches by the
union of the added range and the last of them. When the first of them begins before the
added range its beginning is lost: with {1-3, 5-6}, adding 2-5 gives {2-6}.
`ImplementsIntegerSet` in `local_parts` shows that this is the only way: with the additions
that bridge left out (`UnbridgedNext`), every operation does what the header says.

`validator_services`: the comment before `checkNextHost` (`MCAccountValidator.cpp` 274-280)
says that each service is tested one after the other, and that after the last server of one
"checkNextHost() is then called for the next service". When none of them worked, lines 305, 333
and 365 call the callback of the validator instead: with an IMAP server that cannot be reached
the POP and SMTP servers are never tried, and nothing is reported of them. `SearchCorrect` in
`mail_parts` is about what is tried and reported until then.

### What the properties leave open

Some weaknesses of the code are visible in the models and excluded from the properties by name.
`SessionIsDestroyed` leaves out
wrappers whose native operation was cancelled by `cancelAllOperations` (`Leaked`):
nothing gives back their self-retain. `MarkedWasUnmounted` leaves out runs in which a
row changed its device during an ejection (`shifted`): the mark then goes to whatever
is in that row. `CountConverges` speaks of the number of rows: devices exchanged
between two ticks are not noticed. Devices without a serial number count as one: a second one
gets no row, and its row stays as long as another one is there; `CountBlurred` names the two
cases, and the property holds only outside them. The devices have names of their own
(`Devices`); two devices of one name would share a description. A message
cancelled after the worker's test and before `setSendingCancelled(false)` is sent.
`BrokenStreamIsLeft` leaves out `noop`. `SelectedFolderTrue`, `SecondAttemptCanSucceed` and
`BrokenStreamIsLeft` leave out servers that announce both COMPRESS and ID (`Separate`; see
`imap_login`), and `SecondAttemptCanSucceed` those that greet with PREAUTH: the session is
`CONNECTED` for the code, `loginIfNeeded` sends a login (line 775), and the server refuses it
for good. `OnlyKnownFaults` names the two faults that the code does have: the one of `imap_login`,
and a NULL `defaultNamespace()` in `fetchSubscribedFolders` (line 1498), which
`fetchAllFolders` tests for (line 1537). A login that fails in its LIST (1015-1039) leaves the
session logged in and without a namespace, so that the next operation does not log in again;
the property says that this can happen only as long as no login was completed, and that a
completed one leaves a namespace.
`InterruptionSafe` says that an interruption reaches nothing that was freed; when `idle()` has
replaced the stream that was set up, the interruption goes nowhere, and the wait ends by itself,
after `MAX_IDLE_DELAY` at the latest. `DelayRestored` leaves out what follows a crash or a
misread setting until the user's next choice between two runs. There the code does not restore
the user's delay, although the comment at `AppDelegate.m` 24 says without a condition that the
setting of the system is restored; a run that crashes cannot, and one whose `number[3]` ended in
something else than the end of the string writes back another number. Nor does what the user sets
in the preferences of the system during a run outlive it. `SuccessMeansComplete` speaks of a
download whose estimate was not too small. `NamesBelongToPaths` leaves out what follows the
exception for a second name without a dot, after which names and paths no longer belong
together. The range that begins at 0 is no set of
message numbers and is not in `Ranges`.

### Seen while modelling

The following are behaviours of the code that the models contain and that no run counts
as a violation, because no sentence of the repository says otherwise.

- `MCIMAPSession.cpp` 2675: an error of the second fetch of `fetchMessages` is
  dropped; 3050: whether a chunk is the last is decided by an estimate; 3059: the result of
  `flushData` is dropped, so that a download may report success although the end of the file
  was not written.
- `MCIMAPIdleOperation.cpp` 79: on a server without IDLE the operation ends without an
  error; 94: `interruptIdle` of an operation that already ended interrupts the one that
  runs now.
- `MCDataStreamDecoder.cpp` 74: `flushData` closes the file and the destructor closes it again.
- `MCIndexSet.cpp` 375: `intersectsRange` with a range that begins at 0 removes everything: 0 - 1
  is the length without end.
- `MCPOPSession.cpp` 282: the result of QUIT, which commits a deletion, is dropped; 463: an
  index listed before a reconnection is used after it; 585: `noop` without a connection
  returns with the error not set.
- `DisplaySleepController.m` 41: a setting that a crashed run left behind is remembered as the
  user's.
- `WiFiManager/ViewController.m` 128, 150, 175, 206: the row of the table is looked up in a set that
  may have been replaced; the Connect button stays disabled when the network is gone; the network
  and the password are read when the attempt begins on its own queue, not when the button was
  clicked.
- `MCIMAPAsyncSession.cpp` 315: with concurrent access to a folder switched off, two
  connections may still be in one folder, since the last folder of a connection is overwritten
  when it is shared.

## What is proved

TLAPS checks the following for all values of the constants.

**`OperationQueueProofs`**, for any set `Ops` of operations and any `RunsWhenCancelled`
among them (assumed: `NoOp \notin Ops` and `RunsWhenCancelled \subseteq Ops`):

- `TypeCorrectness`: `Spec => []TypeOK`; no semaphore is negative;
- `TokenAccounting`: `Spec => []TokensExact`, the meaning of `mOperationSem`;
- `AssertHolds`: `MCAssert(op != NULL)` at line 116 never fails;
- `NothingStranded`: an operation in the array has a worker, or the main thread is
  about to start one;
- `Meeting`: a block that the worker waits for finds it waiting, and the worker runs
  the head of the array.

The invariant that is inductive is

    IInv == TypeOK /\ TokensExact /\ Rendezvous /\ NoOperationStranded

None of its parts is inductive alone. That a worker woken up with an empty array was
asked to quit follows from the token count; that the count survives the end of the
worker needs that a stop notice is handled only while the worker is stopping and has
`mQuitting` set, which is `Rendezvous`; that `Rendezvous` survives the removal of the
head needs the array not to be empty, which is what the tokens say. `NextIInv`
has one step per action and under it one per conjunct; facts about the head of
`mainQueue` (that it is the block the worker waits for, and the last one) are stated
first and used by every handler.

- `Phases`: `Spec => []PhasesAgree`: how far each operation has come is what the array,
  the worker and the main queue say, so that at most one is under way;
- `ExecutorSteps`: every step of the queue is one of `SerialExecutor` or leaves it alone.
  This is `ImplementsExecutor` without the fairness of the abstract specification, which
  stays with TLC;
- `References`: `Spec => []ReferencesExact`.

`PhasesAgree` is inductive beside `IInv` and gives the abstract state: `NextPhases` and
`StepExecutor` have one step per action, and an action of the queue that only hands
control on is a `QuietStep`. For `References` the invariant adds that a check is pending
exactly while its timer is armed (`RIInv`); the posted blocks are counted as the places of
`mainQueue` that hold them (`PlacesAppend`, `PlacesTail`).

**`SMTPSendProofs`** and **`SMTPAsyncSessionProofs`** extend the proofs of the queue, for
any operations and any number of cancels:

- `CancelReachesTransmission`, `UndisturbedSuccess`, `StreamNotReused`: the three safety
  properties of `smtp_send`;
- `QueueWithin`: sending and cancelling takes the queue through its own steps only, so that
  all that is proved of the queue holds while messages are sent;
- `SessionKept`, `WrapperKept`: the two safety properties of `smtp_session`.

`SendInv` says where the two threads are (`CallsFramed`), that the stream is open and logged
in from the login to its closing (`ConnectionUp`), that a flag of a cancel is up only while
that cancel or the send that it met goes on (`FlagsFramed`), and that an operation on its
way to success was sent or disturbed (`SentSoFar`). `SInv` says when the queue holds the
session (`HeldByQueue`), that the destructor ran only when nobody did, and what each wrapper
holds of itself (`SelfRetained`), which needs how far its operation has come
(`StartedPhases`, over `PhasesAgree`). The automatic disconnection uses the name of a dead
operation again, which no step of `OperationQueue` does: that its invariants survive this is
shown separately (`DisconnectIInv`, `DisconnectPhases`).

**`IMAPAsyncSessionProofs`**, for any requests, folders, urgent requests and limit
(assumed: `PoolAssumption`, the types of the constants, and `RequestsAssumption`, that the
names of the account's own operations are no requests):

- `PoolTypeCorrectness`;
- `LimitRespected`: never more connections than `maximumConnections`;
- `RunningStateTrue`: `isOperationQueueRunning` agrees with the threads;
- `DisconnectionComplete`: a disconnection is reported when no part of it is left.

The inductive invariant adds to the type three things: that every connection is
`Good` (its `isQueueRunning` agrees with its thread, it has at most one part of the
disconnection, a running thread has something to run), `AccountAgrees` (the account's
flag is that of its connections), and `PartsCounted`: the answers counted and the connections
that still have a part (`Pending`) are together no more than the parts that were made. The
last one is the argument of `DisconnectionComplete`: when the count is full, `Pending` is
empty. Lemmas say what the operators on a connection keep (`GoodRunOperation`,
`GoodStartThread`, ...), and how the cardinality of `Pending` changes when one connection
does (`OneChanges`, `CountKept`). `MinQueueChooses` rests on the least element of a set of
numbers (`SmallestNumber`).

**`ContainerProofs`**, of `HashMap` for any keys, values, hash function, initial size and
depth (assumed: `HashMapAssumption`, their types, the size and depth not 0, and NULL no
value):

- `Correctness`: `Spec => []TableCorrect`, which is inductive as it stands: every cell is in
  the chain of its key, no key has two, the count is their number, and the chains stay short;
- `Refinement`: `Spec => ImplementsMap`: every step is a step of `ObjectMap`, with the same
  answer, or leaves the map alone.

The proof of `Correctness` counts cells when one is added, replaced or removed
(`CountWith`, `CountWithout`) and follows them through `allocate` (`AllocateKeeps`); that of
`Refinement` says what the map of the cells is after each (`MapOfWith`, `MapOfWithout`).

Of `IndexSet`, for any objects, any `MAX` and any ranges of message numbers (assumed:
`IndexAssumption`: a range begins at 1 at least, and ends before `MAX - 2` or has no end;
message numbers are 32 bits wide, and `MAX` is `UINT64_MAX`):

- `IndexSetsRead`: `Set!Spec => []ReadsWhatItHolds`. The ranges are sorted and apart, the
  search finds exactly what is in them, and the conversion to the set of an IMAP command and
  back keeps it. This holds through bridging additions too: they lose numbers, but they do not
  spoil the array;
- `OperationsExact`: `addRange` of a range that bridges no others, `removeRange` and
  `intersectsRange` change their object by exactly the numbers of the range, and no other
  object. Together with the violation of `index_set_add` this says when `addRange` is right;
- `IndexSetsAreSets`: without bridging additions the objects implement `IntegerSet`.

The inductive invariant is `SetsInOrder`: the array of every object is in `IndexSets`, the
sorted sequences of `Numbers`, which are the ranges that can come about (one that ends before
`MAX - 2`, at `MAX` because it was joined with one without end, or has no end). That `Numbers` is
closed under the operations is what the assumption is for: after a range that ended later,
the range of all numbers behind it would begin where `RangeEmpty` does. Around it:

- the lemmas on ranges say what union, intersection and difference of two hold
  (`IntersectionIs`, `UnionIs`, `RangeRemoved`);
- the searches are recursive functions on pairs of bounds. `Halving` finds for any two bounds
  what the search returns: of the pairs on which it would be wrong, one with the least
  distance would be halved into one that is nearer (`LeftSearch`, `Search`);
- an addition inserts, merges a run of ranges and then tries the neighbours; one lemma for each
  says that the array stays sorted and what it holds after (`Insertion`, `MergedIs`,
  `MergedHolds`, `NeighboursMerged`), and `WithRangeIs` puts them together. `WithoutRangeIs`
  and `KeepingRangeIs` do the same for the two others;
- the loops over the ranges of a second set, and `splitSet`, go by `RunExists`, `RunStays` and
  `UpTo` of `QueueLemmas` (`WithIndexSetIs`, `KeepingIndexSetIs`, `SplitKeeps`,
  `ConversionKeeps`).

**`LabProgramsProofs`**, for any devices, networks, delays, clicks, changes and crashes
(assumed of USBDevicesChecker: disks are devices, the unknown serial number is none, the
bounds are numbers; of CDBurner `FilesAssumption`, that a file has a name; of the others
nothing):

- `OneAtATime`: one ejection at a time (`EjectionInv`: the flag is up exactly while the last
  ejection that was begun goes on);
- `MarksTrue`: `[]MarkedWasUnmounted`. As long as no row changed its device under an
  ejection, the row of an ejection keeps its device through every merge of the table
  (`RowsMerged`), and a posted success is about a device that was unmounted (`MarkInv`);
- `ToggledDeviceShown`: DeviceManager's toggle is about the device in its row (`TableInv`:
  the button is off from before the devices are read until the rows are filled);
- `TableAndButtonAgree`: WiFiManager's table is about to show the last scan, and one attempt
  to connect is under way while the button is off;
- `DelayRemembered`: after a regular end the delay is the user's, or one that was read in its
  place (`Garbage`). `DelayIsRestored` is the property of `local_parts`, for any `Garbage`: as
  long as no launch misread it, it is the user's (`BatteryInv`);
- `NamesStandForFiles`: `[]NamesTrue` of CDBurner. The loop that adds " (new)" ends, after as many
  attempts as the list has names at the most, with a name that is new (`UniqueIsNew`: a list
  cannot hold more names than it has places); `Added` says what of a choice of files is in the
  list after each of them (`FileNamesAdded`), and `BurnInv` adds that the list of paths is
  never the longer one, so that after an exception the copying ends with the last path.

**`MailPartsProofs`**, for the instances in `MailParts`. Assumed: `FoldersAssumption` (INBOX
is a folder; the names of the states without a folder are none), `OffersAssumption` (`Offers`
are sets of the names in `Announced`, `MaxRelogins` a number), `DownloadAssumption` (sizes are numbers, a
quantum is not empty), `MaildropAssumption` and `CountsAssumption` (types):

- `SelectedFolder`, `FaultsAreKnown`, `StreamIsLeft`: `SelectedFolderTrue`, `OnlyKnownFaults`
  and the action property `BrokenStreamIsLeft` of the IMAP session, for any folders, any folding
  of their names, any servers and any nesting of logins;
- `SecondAttempt`: `[]SecondAttemptCanSucceed`, for the same. It asks for outcomes instead of
  excluding them, so that its lemmas say what can happen: over a stream that is up a login can
  end well without another one in it (`LoginSucceeds`), and an operation on a folder after it
  (`InFolderSucceeds`); a stream that broke unnoticed is noticed by the first attempt at the
  latest (`FirstAttemptBreaks`), which leaves a session that connects again;
- `IdleInterruption`: `interruptIdle` is safe at every moment, for any number of operations
  and connections, through the reconnections inside `idle()` too;
- `DownloadKeepsPart`: for any size of part, chunk and quantum, any estimates and retries;
- `POPBelief`: for any maildrop and any index sets;
- `ValidatorSearch`: for any numbers of servers.

The argument about the IMAP session has the shape of its module. `Fine(F)` are the sessions
of a server that announces `F` in which there is a stream unless they are disconnected, and
which agree with the server unless they are going to be closed; `LoggedIn` and `Within` are
those that were logged in, and those that are in a folder. `Ends(F, c, K)` are the outcomes
whose success leaves a session of `K`. For each function of the session one lemma says from
which of these sets it leads to which (`ConnectEnds`, `LoginEnds`, `SelectEnds`, ...), and a
lemma about an operation cites those of the functions it calls, in their order. The nested
logins are followed with `RunStays`: that a login ends well only in a session that is logged
in (`LogsIn`) holds for `Logins[0]`, and passes from `Logins[n - 1]` to `Logins[n]`. After
COMPRESS the session may be one that is going to be closed, and at `identity` it must not be:
this is where a server with ID needs to be one without COMPRESS. `Well` is then that the
session is `Fine`, and `Within` the folder of the last operation that got a result. What holds
with every server is `Kept`: the types, that a completed login leaves a namespace, and which
faults there can be. Its lemmas follow the namespace alone, through each function (the family
around `Held` and `Outs`). `ImapInv` is `Kept /\ (Separate(offers) => Well)`. The proof found that the alternatives
of a `CASE` in `SelectIfNeeded` overlapped, which TLC evaluates in their order but TLA+
leaves open; the definition now tells them apart.

`IdleInv` says that streams are made and freed one after the other, in which stages and places
of `selectIfNeeded` the session has one, and which of them is set up. `DownloadInv` says that file and rest together are the part up to `offset`
(`PieceFollows`, `Divided`), `POPInv` that a session between two operations is `Sound`, and
`ValidatorInv` that the services before the one being tried are settled and those behind it
untried.

`QueueLemmas` has what the others need of sequences and numbers. The library's induction
theorems cannot be cited, because they take an operator; where a fact about a recursive
function is needed for every number (`RunStays`, `RunExists`: what a loop over an array
keeps, and that it has a result; `UpTo`: induction up to a number), the set of counterexamples has a least element, and that
one is contradicted.

Only model-checked: liveness, and the fairness in `ImplementsExecutor` (out of the prover's
reach).

## Not modelled

- KeyboardHooker's own program: it records and mails the input of the machine without a
  sign to its user, and is left out on purpose. Of it only the mail library is modelled,
  which is a library like any other.
- libetpan, which mailcore2 calls for every exchange, is not in the repository: its calls are
  nondeterministic answers, and a write to a file reaches it or fails at once.
- NNTP, message parsing and building, rendering, strings: conversions of data with
  little state of their own, for which a model would repeat the code. They make most of the
  lines of the library. ICU, minizip and the Unicode tables are copies of other projects.
- Of the modelled components: setters, factories of operations, progress callbacks,
  connection loggers, `setDispatchQueue` and code inside `#if 0`; `isEqual`, `copy` and
  serialisation of containers; reference counts of the IMAP session (`SMTPAsyncSession` shows
  the same ownership).
- The volume sheet of USBDevicesChecker, the ping window of WiFiManager, the details
  window of DeviceManager and `InsertedDiscManager` of CDBurner only show text. Lab1 and Lab2
  are straight-line programs.

## Possible further work

Devices of USBDevicesChecker that share a name.
