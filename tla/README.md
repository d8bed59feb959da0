# A verification of team

`team` is a localhost message bus for Claude Code sessions: a server holds one
websocket per client in a registry and routes messages between them; a
long-lived listener (`team connect`) represents a session on the bus, and short
helper commands (`team send`, `team list`, ...) act for it over a *control*
connection of their own.

This directory models that program in TLA+, checks the models with TLC on small
instances and proves the main safety properties with TLAPS for every instance.
`PROJECT.json` lists the runs, the mutants that show each property can fail,
the source lines behind each definition, the hazards and the findings.

## Inventory

| Part | State | Operations | Talks to |
|---|---|---|---|
| Bus server (`internal/bus`) | `registry` under `registryMu`; a `clientState` per connection; counters; broadcast windows under `broadcastMu` | handshake of agents and controls, replacement, send, broadcast, rename, list, ping, bye, unregister | clients over websockets; `messages.log` |
| Message log (`internal/logfile`) | `messages.log` and five backups | rotate, append | called by every handler, without a lock |
| Identity and token (`internal/auth`, `cmd/server.go`) | pidfile, `.meta`, token file | write, verify, unlink; create or read | the server writes, every client reads |
| Listener (`internal/client/client.go`, `state.go`, `internal/flock`) | flock, state file, session id, nonce, name, collisions, backoff | acquire, dial, hello, record, serve, retry, stop | bus, state file |
| Control commands (`internal/client/control.go`, `cmd/`) | none of their own | find the state file, dial, request, clean up stale state | bus, state file |
| Service (`internal/service`) | plist, launchd job | install, uninstall, start, stop | launchd |
| Inspect (`internal/inspect`) | none | health, sessions, stats, tail of the log | registry, log |
| Key resolution (`internal/procutil`), validation (`internal/validate`) | none | pure functions, process table | |

What is hard in it:

* one goroutine per connection; the registry is locked only for short critical
  sections, and what was read in one is used (to log, to write) after it;
* a connection may be replaced by another of the same session while its handler
  is in the middle of a call, and its own clean-up then runs late;
* handlers share files and a clock without a lock;
* every write to another client may hang for its timeout, and events share one;
* listeners, helpers and the server share files, and each of them may be killed
  between two steps.

What makes each part correct: names and sessions are exclusive and only their
owner gives them up; a message reaches each session once, not its sender, and
leaves a record; what is broken is cleaned up; calls end; one listener runs per
Claude Code session, the state file leads to it, and it reconnects or exits.

## Modules

| Module | What it is |
|---|---|
| `Directory` | abstract specification: session ids are held under distinct names, and claimed again only with the nonce |
| `Bus` | the bus server, handler by handler |
| `BusProofs` | inductive invariant and theorems of `Bus` |
| `BusDeliveryProofs` | theorems about its deliveries and totals, and that it implements `Directory` |
| `MCBus` | instances of `Bus` for TLC |
| `Listener` | the listeners and helpers of one Claude Code session |
| `ListenerProofs` | inductive invariant and theorems of `Listener` |
| `MCListener` | instances of `Listener` for TLC |
| `Server` | the life of server processes, their identity files, the token |
| `ServerProofs` | invariants and theorems of `Server` |
| `MCServer` | instances of `Server` for TLC |
| `Journal` | `messages.log`: handlers that rotate and append, a reader of its tail |
| `Quota` | the broadcast quota of a listener |
| `Commands` | a helper's command and what it reports |
| `Names` | the name of a session at the listener, the server and in the state file |
| `Service` | the launchd service and the commands that change it |
| `Keys` | the key under which listener and helpers of a session find each other |
| `JournalProofs` | invariants and theorems of `Journal` |
| `CommandsProofs` | those of `Commands`, `Quota` and `Service` |
| `NamesProofs` | those of `Names` and `Keys` |
| `MCLocal` | instances of these six for TLC |
| `LocalProofs` | what is proved of the six holds of their instance |

### Bus

A value of `Conn` is a connection, its handler goroutine and its `clientState`
together. `pc` says where the handler is: waiting for the `hello`, about to write
the `welcome`, in `dispatchLoop` (`serve`), announcing its end (`leave`), `done`.
`job` is what is left of the call it is in: `ack` (rename answers its client
first), `snapshot` (broadcastEvent takes its targets), `log`, `write` to each
target, `expired`.

What is one step: a critical section of `registryMu`; a frame written to a
client other than the handler's own; an append to the log. Between any two,
every other handler may run. The reply of a handler to its own client is part
of the step that decides it, because nobody else can see the difference; its
write may fail, which the next read notices.

| Code | Actions |
|---|---|
| `doHello` | `RefuseHello` |
| `helloAgent` | `AgentUnauthorized`, `AgentNameTaken`, `AgentAccepted`, `Welcome`, `WelcomeFails`, `CloseReplaced` |
| `helloControl` | `ControlRefused`, `ControlAccepted`, `Welcome`, `WelcomeFails` |
| `dispatchLoop`, `handleList` | `Answer`, `Reject`, `Bye`, `ReadFails` |
| `handleSend`, `resolveSendTarget` | `HandleSend`, `Reject`, `LogMessage`, `WriteTo`, `WriteFails`, `Finish` |
| `handleBroadcast` | `HandleBroadcast`, `Reject`, `LogMessage`, `WriteTo`, `WriteFails`, `Finish` |
| `handleRename` | `HandleRename`, `Ack`, `Snapshot`, ... |
| `broadcastEvent` | `Snapshot`, `WriteTo`, `WriteFails`, `Expire`, `WriteExpired`, `Finish` |
| `unregister`, end of `handleWS` | `Unregister` (in `Bye` and `ReadFails`), `Exit` |

`AgentNameTaken` deserves a look: `helloAgent` removes the session's old entry
before it checks the name, so a refused reconnect leaves the old connection
served but unregistered. The model does the same.

A failed write closes the connection it was for: the websocket library closes a
connection whose write context ends, and a reset connection is unusable. Under a
context that has *already* expired the write may succeed, fail without closing,
or fail and close, as the library selects between ready channels; `WriteTo` and
`WriteExpired` allow all three.

Abstracted: tokens and malformed hellos are refused without a reason; labels,
cwd, pid and texts are left out; a fresh uuid is the connection itself; message
ids are fresh numbers (the code draws 32 random bits and may repeat one); the
broadcast quota may be exhausted whenever a broadcast comes (`Quota` says when);
`Target` and
`Prefix` stand for the strings a sender may address. Concurrent writes to one
client are serialised by its `writeMu`; the model has each as one step.

### Directory

`Directory` has one variable, who holds which session id under which name and
nonce. `Bus` implements it with the mapping `Holders`: a session is held by its
registered *agent* (controls hold nothing), under the client's current name and
nonce. Every step of `Bus` is a claim, a release, a rename or nothing to
`Directory`.

### Listener

One Claude Code session, so one flock, one state file. A `Proc` is a `team
connect` process and stands for its session id and nonce, which it keeps for
life; a `Helper` is a helper command. `pc` follows `Run` and `connectAndServe`:
`dial`, `hello` (waiting for the server's answer), `record` (about to write the
state file), `serve`, `retry`, then the deferred calls `delete` and `unlock`.
The server is reduced to what a listener's connection needs: it answers a hello,
unregisters a connection that is gone, stops and starts.

A listener may be told to stop (`Cancel`: SIGTERM, or `parentWatch`) or be
killed (`Kill`) anywhere; the kernel then releases the flock and the file stays.
`UnlinkIfMatches` is two steps, as it reads and then removes.

Left out: the names themselves (a taken name is an answer that counts as a
collision; `Names` has them), the backoff's length, printing, pings.

### Server

The processes that share the token and identity files: `team server` processes
(each a pid, started once), a listener that verifies the server before it sends
the token, and commands such as `team debug token` that only call `EnsureToken`.
`pc` follows the program: a server goes through `token`, `pid`, `meta`,
`listen`, `notify`, `mount` (signals are caught, `httpServer` is still nil),
`serve`, and the deferred `unlink`, `remove_pid`, `remove_meta`; a listener
through `verify`, `verify_meta`, `token`, `dial`, `in`, and back to `verify`
after any error. Every file operation is a step and may fail, which the bound
`MaxFaults` counts with the kills; every process may be killed between two. Reads
that find nothing, or something else, are no faults and are not counted.

| Code | Actions |
|---|---|
| `EnsureToken`, `writeNewToken`, `readExistingToken` | `OpenToken`, `OpenTokenFails`, `WriteToken`, `WriteTokenFails`, `ReadToken`, `ReadTokenFails` |
| `WriteServerIdentity` | `WritePid`, `WriteMeta`, `WriteIdentityFails` |
| `serverCmd`, `Server.Serve`, `Server.Stop` | `Start`, `Listen`, `ListenFails`, `Notify`, `Serve`, `Signal`, `Stop`, `ServeFails` |
| `unlinkOwnIdentity` | `ReadOwnPid`, `RemovePid`, `RemoveMeta`, `UnlinkFails` |
| `verifyServerIdentity`, `connectAndServe` | `VerifyPid`, `VerifyMeta`, `VerifyFails`, `Dial`, `DialFails`, `Dropped` |

`Listener` and `Server` look at the same process from two sides: `Listener` has
the flock, the state file and the server as something that is up or down;
`Server` has what makes it up, and the listener as a client of its files.

### Journal

Handlers call `logMessage` without a lock. A writer goes through `stat`, `drop`,
`shift` (once for each backup), `open` and `write`; each is a file operation
that may fail, after which the code goes on as the source says (only a failed
open or write ends the call). A file keeps its identity through renames and a
handle stays good on it: files are numbered in the order they are created, and
`slot` says which one a path leads to. `O_APPEND` makes a write one step at the
end of the file; a failed one may leave a torn line, which the next record is
then glued to. The reader is `TailJSONL`, a line a step, between which handlers
append and rotate; it skips what is no record, fails on a line longer than its
buffer (`Overlong`), and keeps the last `n` in a ring.

| Code | Actions |
|---|---|
| `logMessage` | `LogRecord`, then `Rotate`, `AppendJSONL` |
| `Rotate` | `Stat`, `StatFails`, `DropOldest`, `DropFails`, `Shift`, `ShiftFails` |
| `AppendJSONL` | `OpenLog`, `OpenLogFails`, `WriteRecord`, `WriteRecordFails` |
| `TailJSONL` | `OpenTail`, `Scan`, `ScanEnds`; `TailOut` is what it returns |

Sizes are counted in records. `Bus` has the append as one step that may fail,
which is all its properties need.

### Quota

`consumeBroadcastQuota` reads the clock (`ReadClock`) before it waits for
`broadcastMu`; the rest is one step, `Charge` or `RefuseCharge`. A handler and
those of the listener's controls may therefore charge the window out of order.
How late depends on the scheduler: `Skew` bounds it, and the properties give the
code that much leeway: no more than `Limit` in any `Minute - Skew`, none refused
unless there were `Limit` within `Minute + Skew`. `granted` is a history: every
broadcast let through, when, and the stamp it was recorded under. The code's
slice of stamps is `window`, the numbers in `granted` of the broadcasts whose
stamps it has; the count and the pruning by age do not look at its order.

### Commands

One control connection, from the request on. The helper writes, waits for a
frame, for its deadline or for the connection to close, and exits; its handler
at the server reads, acts, and replies or delivers. `Conclude` and `TimesOut` are
`expectErrorOrTimeout` and the reads of `Rename` and `List`; the deadline may
pass at any time. Texts have a raw size, which the caps of `SendDirect` and
`SendBroadcast` look at, and a size escaped as JSON, which counts for a frame:
`OverLimit` is the read limit of the websocket, which closes the connection.
`VerdictIsHonest` is what the verdicts are worth; that a reported success is no
rejection is what the comment of `SendDirect` adds to it, and does not hold (see
Findings).

### Names

A name is in four places: `own` (`Client.name`), `held` (the registry), `filed`
(the state file) and `offered` (the candidate in a `name_taken` error).

| Code | Actions |
|---|---|
| `helloAgent` | `Accept`, `NameTaken` (which removes the old entry first, and offers `NextName`) |
| `handleRename` | `RenameTo` |
| `unregister` | `Unregister`, at any time after a connection broke |
| `connectAndServe`, `handleHelloError`, `Run` | `RecordName`, `TakeOffer`, `Drop` |

A name is a base followed by suffixes, so that "a-2" offered in place of a
taken "a" may itself be taken later and become "a-2-2". `Suffix` and `MaxParts`
stand for the cap of 40 characters, at which `NextAvailableName` gives up.

A suggestion is free when it is made, but nothing reserves it: the server may
suggest one name to several that it has refused, or others may take it first.
`FiledNamesDiffer` says that connected listeners have different names all the
same, `NameIsKept` that a listener loses its name only to a rival, never to the
entry of its own old connection, and `FileTellsName` that helpers read the right
one.

### Service

A `Cli` is a `team service` command; `step` is how far it is in `Install` or
`Uninstall`. Every call of launchctl and every write is a step that may fail, and
a command may be killed between two (`Abandon`). launchd is modelled from what
the code asks of it: it has at most one `job`, keeps it whatever the plist says
later, refuses `bootstrap` when it has one, loads the plist at a login, and
starts the process again (`Revive`). A plist stands for the binary it names.

| Code | Actions |
|---|---|
| `Install`, `Status` | `ReadPlist`, `WritePlist`, `AlreadyInstalled`, `ReadStatus`, `ReadStatusFails`, `Bootout`, `BootoutRefused`, `Bootstrap`, `BootstrapRefused` |
| `Uninstall` | `UninstallJob`, `UninstallRefused`, `RemovePlist` |
| `Start`, `Stop`, `Restart` | `StartStop` |

`alarm` records that a command failed or was killed since the last one that
loaded or removed the service. `StaleJobHadFailure` says that plist and job part
only by such a failure, never by the interleaving of commands that run through.
It does not say that the user still knows: a later `Install` may find the plist
unchanged and say "already installed" of the old job (see Findings).

### Keys

A process tree in which processes start and exit, orphans going to the root,
while any process walks up from its parent, one look at the process table a
step. `claude` is the set of processes that `isCCProcess` accepts. A process
that has exited ends the walk, and the fallback is the parent of that moment.
`Ancestors`, which `KeysAgree` is about, is the least set that has the process
and, with a running process, its parent; the walk itself never computes it.
`TEAM_PPID_OVERRIDE` and the reuse of pids are left out. The key is the one that
`Listener` takes as given: one Claude Code session, one flock, one state file.

## Runs

| Run | Shows |
|---|---|
| `bus_team` | `TypeOK`, `UniqueNames`, `NoEcho`, `ControlsHearReplies`, `AtMostOncePerSession`, `DeliveredIsLogged`, `StatsBalance`, `OnlyOwnerOrSuccessorRemoves`, `TargetsAreServed` over every interleaving of three connections |
| `bus_live` | `ImplementsDirectory`, `HandlersFinish`, `BrokenConnectionsLeave` |
| `bus_welcome_first`, `bus_ghost`, `bus_unlisted`, `bus_stale_control` | claims of comments and tests that the code does not keep (see Findings) |
| `listener` | `ListenerTypeOK`, `ServingIsFindable`, `LiveRecordIsKept`, `Settles`, `CancelledExits` |
| `listener_fresh` | a claim that the code does not keep |
| `server` | `ServerTypeOK`, `TokensAgree`, `BoundHasIdentity`, `ServingStops`, `ListenersGetIn`, servers started one after the other |
| `server_pair` | a claim that the code does not keep when two servers are started |
| `local`: `Journal` | `BackupsAreInOrder`, `FilesAreBounded`, `TailIsLatest`, with two handlers, a reader and a failure |
| `local`: `Quota` | `RateIsBounded`, `RefusalIsJustified`, with three handlers of one listener |
| `local`: `Commands` | `VerdictIsHonest`, for every command and size |
| `local`: `Names` | `NameIsKept`, `FiledNamesDiffer`, `FileTellsName`, with two listeners that want one name and a third |
| `local`: `Service` | `StaleJobHadFailure`, with two commands at once, two binaries, failures and kills |
| `local`: `Keys` | `KeysAgree`, in every tree of five processes |
| `log_rotation` | a claim that the code does not keep when two handlers rotate at once |

Bounds. Three connections are what the interesting races need: an old
connection, the one that replaces it, and a third party that wants the name,
sends, or speaks for the session. `MaxRequests = 1` bounds the frames read after
the hellos; joins, leaves and replacements are not bounded by it, so one request
runs against every possible change of the registry around it. The three may all
be agents, so that a broadcast has two targets. `bus_live` has two connections,
since it keeps no symmetry, and every kind of hello (the second listener's try
with another name, an impostor, a stale control). In `Listener`, two processes
are a killed or exiting listener and its successor; two faults allow an outage
and another failure during the recovery from it; `MaxCollisions = 3` is the
code's default. In `Server`, two faults are a crash and another during the
recovery, and three servers are one more than what can end, so that launchd is
never out of pids (`EnoughServers`); a server and a command race for the token.
`server_pair` needs no fault at all.

`local` runs the six small modules one after the other: they share no state, so
the first state chooses one (`part`) and the others stand still, and the states
are the sum of theirs and not the product. In `Journal`, two writers and five
records over a limit of one are enough for rotations to overlap and for all
three paths to be filled and dropped, and one failure for a torn line;
`log_rotation` lets every message rotate. In `Quota`, a minute is three ticks,
two of them more than the longest delay, and seven ticks are two windows. In
`Commands`, the sizes are the code's in megabytes: those at and beside each cap,
escaped to up to six times as much. In `Names`, two drops let one listener lose
its connection while another takes its name, or the same lose it twice; the
third listener has no rival and is the one `NameIsKept` is about. In `Service`,
two failures are one in a command and one in the command that repairs it, and
four calls two commands each. Deadlock is not checked, because in every instance
all connections or processes may have come to their end.

Symmetry is used in the safety runs only, over connections (and listener and
helper processes), which no constant distinguishes.

Fairness. In `Bus`: handlers are goroutines, so a handler that can step does;
each write ends by its timeout, so `Work` and the welcome are weakly fair. A
read is fair only once its connection is closed: a healthy client may say
nothing but ping for ever. Nothing makes a client send. In `Listener`: a process
takes its steps, the server answers a hello (it has `helloTimeout`), and a
server that stopped is started again, which is launchd's `KeepAlive`; outages
and faults are bounded by `MaxFaults`, so `Settles` says that a listener
connects once the faults are over. In `Server`: processes take their steps, a
pending signal is handled, and a server is started when none is alive (launchd
again); `ListenersGetIn` excepts the one state nothing recovers from, a token
file left empty, and `ServingStops` a signal that comes before the server serves
(both under Findings). `Exclusive = TRUE` says that launchd alone starts
servers, one at a time; `team server` by hand is `Exclusive = FALSE`.

Each property has a mutant in `PROJECT.json`, an operator beside the definition
it replaces, marked `Mutant:`. It is the bug the property is there for.

## Findings

Those with a run named are shown by it. The others are in the model named, which
does as the code does, and bound what the properties promise.

* An agent is registered before its welcome is written, so another handler's
  frame may come first; the listener takes that for an error and reconnects
  (`bus_welcome_first`).
* A welcome that cannot be written leaves a registered agent without a handler
  (`bus_ghost`).
* A hello that is refused its name has already removed its session's old entry:
  the old connection is served on, but is in no list, gets no message, and its
  controls are refused (`bus_unlisted`).
* A control whose listener has left can still have its message delivered
  (`bus_stale_control`).
* A slow client can use up the time an event has for all: the writes to those
  after it fail untried (`WriteExpired` of `Bus`).
* A failed append to `messages.log` is ignored, and rotation drops old records,
  against the README's "always preserved".
* Two handlers that rotate the log at once lose a newer backup and keep an older
  one (`log_rotation`). What still holds of it: the backups stay in order, and
  a file is too long by a record per handler at most.
* `team send` takes a late answer, and a connection closed under it, for success
  (`NoFrame` of `Commands`): "refused" and the success of a rename or list can be
  relied on, the success of a send cannot.
* A text within the 10 MB cap may, escaped, exceed the 16 MB of a frame: it is
  never delivered and reported as sent (`ReadCommand` of `Commands`).
* A rename is undone by the next reconnect, and the state file never shows it
  (`Accept` and `RecordName` of `Names`; `FileTellsName` and `FiledNamesDiffer`
  except renamed sessions).
* `team service install` says "already installed" when the plist is right and an
  older server runs, after a reload that failed (`AlreadyInstalled` of `Service`);
  `uninstall` removes the plist when launchd refused to let go of the service
  (`UninstallRefused` of `Service`).
* `UnlinkIfMatches` can remove the state file of a connected listener
  (`listener_fresh`).
* A second `team server` overwrites the identity of the first, finds the port
  taken, and removes it: the first serves on, and nobody can verify it
  (`server_pair`).
* A SIGTERM between `signal.Notify` and `Serve` is lost, and so is every later
  one (`Stop` of `Server`).
* A crash between creating and writing the token file leaves it empty for ever
  (the exception in `ListenersGetIn`).

## Proofs

The theorems hold for any sets of connections, sessions, names, nonces, hellos,
handlers, helpers and processes, any sizes and any bounds. Their assumptions are
the ones named in the modules (`ConstantsAssumption`, `ListenerAssumption`,
`ServerAssumption`, `JournalAssumption`, `CommandsAssumption`,
`NamesAssumption`, `ServiceAssumption`, `HolderAssumption`, `QuotaAssumption`,
`KeysAssumption`): the special values are none of the others, an entry of the
directory is told from none, session ids made up by listeners are no server
uuids, processes of different kinds are different, an encoded text is no shorter
than the text, the handlers are finitely many, and bounds, sizes and limits are
numbers, positive where the code's constants are and the models need it.

`BusProofs`. The properties are not inductive by themselves: that the entry a
handler removes is its own depends on an entry being filed under its own session
id; that a message does not come back depends on a connection that has not said
hello being in nobody's list of targets, so that it cannot turn into a
connection of the sender's session; that a target is an agent depends on the
same. So `IInv` adds to them

* `SessionsAreOwn`: a connection's session is one it was given in its hello, or
  itself; controls have their own;
* `HelloIsBlank`: before its hello a connection has no role, no job, and by
  `ControlsHearReplies` is nobody's target;
* `EntriesMatch`: entries are filed under their session id;
* `EventsAreOwn`: an event still to be fanned out is about its handler's session;
* `WritesAreLogged`: a message being written has been logged.

`NextRegistryInv`, `NextJobInv`, `NextUniqueNames` and `NextLogInv` show that
each part is kept by every step, `InvNext` puts them together, and the theorems
follow: `TypeCorrect`, `NamesAreUnique`, `NobodyHearsItself`,
`ControlsOnlyHearReplies`, `LogPrecedesDelivery`, and, as an action property from
the same invariant, `SessionsAreNotStolen`.

`BusDeliveryProofs`. On top of `IInv`, `DeliveryInv` says what a handler's call
has behind it and before it.

* `JobsFit`: a job is of the shape its stage needs; `IdsAreFresh`: no message that
  was logged, is being delivered or has been delivered has a number that is still
  to be given.
* `AtMostOnce`: a message that a session *has* (delivered to one of its
  connections) it has at that one only, and is not *due* to it again (in anybody's
  list of targets). It rests on `TargetsDiffer`, that the targets of a call are of
  different sessions, as the registry is keyed by session. From it,
  `MessagesArriveOnce`.
* `TotalsInv`: what `StatsBalance` leaves open is exactly what is under way. Those
  counted as left, those about to be and the agents still there are no more than
  joined (`JoinsBalance`); those counted as sent and the `Busy` ones, logged but
  not yet counted, are the records of the log (`LogBalance`). It gives
  `TotalsAgree`.

`TargetsGetTheirMessage` is an action property: a step drops a target of a message
only by delivering to it or by finding its connection broken, whatever happens to
the other targets.

`RegistryImplementsDirectory` is the refinement, by step simulation under
`Holders`. An accepted hello is a claim of a free name, by nobody before or by the
holder with its nonce (`AcceptMaps`); a rename is a rename (`RenameMaps`); a taken
name and an unregistration release the session, or change nothing if another
connection has succeeded to it (`ReleaseMaps`, `UnregisterMaps`); everything else
keeps every holder (`HolderKept`). That entries are filed under their own session
(`EntriesMatch`), that names are unique and that a connection's role and nonce do
not change is what each of them needs from `IInv`.

`ListenerProofs`. `ListenerInv` adds `LockIsHeld` (whoever is past `Acquire` has
the flock), `RecordIsOwned` (the record in the file is of a listener that has yet
to delete it, or was killed) and `CollisionsAreLeft` (a listener in its loop may
still collide) to `ServingIsFindable` and the types. From it:
`ListenerTypeCorrect`, `OneListenerRuns`, `ServingListenerIsFindable`,
`DeletesNoLiveRecord`.

`ServerProofs`. `TypeInv` adds to the types that each kind of process stays on
its own path. `OneToken` (only its creator writes the file, which is empty until
then, and what anybody got is in the file) gives `CallersShareOneToken`, for any
number of racing callers, kills and failed writes. `SoleServer` (one server is
alive, the port belongs to one past `Listen`, the files hold what it has
written) gives `IdentityCoversPort`, under `Exclusive`: without it the theorem
is false, as `server_pair` shows.

`JournalProofs`. Files are numbered as they are created and none has a number
above `Len(lines)` (`DiskType`), so a file that is created is newer than all
others, and a rename moves a file up to a path whose lower neighbours are newer:
`BackupsStayInOrder`. That files are bounded is not inductive: a handler that has
found the log small enough writes to it later, when others may have filled it.
`Pending(f)` is the set of handlers that will write to `f` without looking again,
and `Bounded` adds their number to the length of the file. A handler joins
`Pending(f)` when it finds `f` within the limit, or by an error, which is counted;
a write takes it out and adds a line at most: `FilesStayBounded`.

`TailsAreLatest` is about the reader. A torn line is the last of its file
(`TornIsLast`), since what is appended next is glued to it, so a line the reader
has gone past will not change, and one that it takes for the end is the end.
`RingHoldsLatest` says where the ring has what it has gone past: a record that `k`
others were put in after is `k` places before the next (`Place`), as long as `k`
is below `LastN`. `OneMore` and `TakeKeeps` show that for the next record,
`TailOutIs` that `TailOut` reads the ring from there. The property counts the
records after a line (`After`) and so needs no filtered sequence.

`CommandsProofs`. `Answered` says what each stage of helper and handler implies
for the reply (an error is decided on instead of carrying a command out, and
before it is written). It gives `VerdictsAreHonest`.

Its second part is about `Quota`. A stamp is no newer than the moment it charges
the window, and at most `Skew` older (`StampsAreRecent`, and `GrantsAreTimely` for
those that did). So a pruning drops no broadcast of the last `Minute - Skew`,
whichever stamp it prunes by: `WindowHoldsLatest`. These broadcasts are a part of
the window, which has at most `Limit`: `RatesAreBounded`. In the other direction,
all that a pruned window still has was let through within `Minute + Skew`, and a
refusal finds `Limit` of them: `RefusalsAreJustified`.

Its third part is about `Service`. `ServiceInv` says that where plist and job
differ a command has failed or one is still `Mending` it: it has found the plist
changed or no job, or is about to reload or to remove. It gives
`StaleJobsHadFailures`.

`NamesProofs`. `NamesInv` adds that an entry has its listener's own name until it
is renamed, that a connected listener's file has its own name too, and that
collisions stay below their limit until the listener exits: `FilesTellNames`.
That no two entries of the registry have one name (`HeldNamesDiffer`) is kept by
every hello and rename, whatever was suggested before; with `NamesInv` it gives
`FiledNamesAlwaysDiffer`. For `NamesAreKept`, `KeptInv` says that, as long as
nobody is renamed, every name a listener has, holds or is offered is the one it
was started with, or that with suffixes (`FromSuffix`): whoever holds the name of
another is its rival, so a listener without rivals is never refused.

Its second part is about `Keys`. Parents are older than their children, so that
the ancestors of a process form a line (`AboveIsLine`: there is an upward set
with no process between a member and its parent). `KeysInv` says of each process
that has begun its walk that no ancestor has lost its place in the line it began
with while those below it run (`LinesHold`): exits cut a line, and forks only add
to its young end. The walk is on that line, goes nowhere twice (`TrailsBegin` lets
none begin with processes it has seen), and while the line up to the nearest
Claude process is unbroken it is not past it (`WalksClimb`), so it can only end
there: `KeysAlwaysAgree`.

`LocalProofs`. In `MCLocal` a step is one of one part and leaves the others
alone, so a behaviour of it is a behaviour of each (`PartsRun`), and the theorems
about the parts hold of what `local` checks; with the types of each,
`LocalTypeCorrect`.

Every invariant and every action property that a run shows to hold, and the
refinement, is thus proved. Only model-checked: the liveness properties
(`HandlersFinish`, `BrokenConnectionsLeave`, `Settles`, `CancelledExits`,
`ServingStops`, `ListenersGetIn`), whose fairness and ENABLED the prover does not
reach.

## Not modelled

* `format.go`, `paths`, `version`, `debug`, the HTTP handlers and the CLI of
  inspect: they read and print, and change nothing.
* The syntax of names and labels, sanitizing (`validate`), JSON shapes,
  timestamps, the plist's XML and launchctl's output: string functions without
  state. Only `NextAvailableName` decides anything, and is `NextName`.
* The backoff between reconnects and pings: `Listener` lets a retry come at any
  time, and a connection break at any time.
* `broadcastWindows` is never pruned of listeners that are gone; a leak, on
  which no operation depends.

## Plan

1. The order of the events about a session at a receiver, in `Bus`.
2. Lemmas that take the liveness properties as far as steps go: that each wait of
   a handler has a bound that every step lowers.

