# A verification of the Android controller in TLA+

The server manages Android emulators for several users, mirrors their screens
over WebSocket with scrcpy, and injects control events into them. This
directory holds TLA+ modules translated from its source, the TLC
configurations that check them on small instances, and proofs checked by
TLAPS. `PROJECT.json` maps every definition to the lines it stands for.

    tlc -workers 2 -config Supervisor.cfg MCSupervisor
    tlapm SupervisorProofs.tla

Paths below are relative to `src/internal/` unless they start with `web/`;
`scrcpy/` is short for `infrastructure/scrcpy/`.

## 1. The system

| component | state it keeps | operations | what is hard | what makes it correct |
|---|---|---|---|---|
| **Supervisor** `scrcpy/supervisor.go`, `restart_policy.go`: one goroutine per device | the running session, a backoff timer, parked callers, an attempt counter, a state word | Acquire, CurrentSession, Snapshot, Reset, Close | bounded channel, select races, deaf while a session opens, sessions that die at any time | owns what it opened, answers everybody, bounds restarts, leaves nothing behind |
| **Session** `scrcpy/session.go`, `session_state.go`: one scrcpy connection | jar, listener, reverse tunnel, process, two sockets, lifecycle word, subscriber maps | OpenSession, Close, SendControl, Subscribe, SubscribeRaw, cancel | rollback at eight steps; Close, the pump's own exit and cancel race | no leak, no double close, exactly one owner of the teardown |
| **Pump** `scrcpy/session.go`, `fmp4.go`: its frame loop | muxer state, parameter sets kept for the next key, three caches, bounded channels | read, mux, broadcast, deliver | subscribers come and go between two critical sections; slow readers | a stream without gap or duplicate, decodable from its first chunk |
| **SessionManager** `scrcpy/session_manager.go`: one actor | map serial → supervisor with a count and a generation, idle timers | AttachVideo(Raw), SendControl, Dimensions, Snapshots, Reset, Close, Shutdown | late ticks, abandoned calls, synchronous calls inside the actor | collects what is idle and only that, loses no supervisor, serves everybody |
| **Mirror handler** `interfaces/httpapi/mirror_handler.go` | a WebSocket, a reader goroutine, a rate counter | Stream | writer and reader end each other; the close code | both goroutines end; the client learns why |
| **Mirror client** `web/src/lib/mirror/websocket.ts`, `transport-registry.ts` | sockets, reconnect timer and count, decoder, registry | connect, disconnect, events | late events of old sockets, error followed by close | the open transport is the registered one, bounded retries, disconnect leaves nothing |
| **Control service** `application/control` | a lock per instance | Tap, Swipe, Text, Key, Touch | serial read before the lock, lock released inside a tap, one pointer id for all touches | writes of one instance are serial, taps lift their finger |
| **Control client** `web/src/features/mirror` | a gesture, a pending move, an animation frame | pointer events, unmount, mode switch | the screen goes in the middle of a gesture; each connection has a reader of its own | events arrive in order, no finger stays down |
| **Instance service** `application/instance` | rows: status and serial | Create, Start, Stop, Delete, group dispatch and fan-out | read-modify-write of rows around minutes of booting | rows and emulators agree in the end |
| **Emulator runner** `infrastructure/emulator/runner.go` | processes, reserved ports | Start, Stop | check, act, register in three sections | one emulator per instance, one instance per port |
| **Groups** `application/group`, `domain/group` | groups with a unique name, their rows and AVDs | Create, Rename, Delete, start, stop | check-then-create; a bounded fan-out with partial failure | rows, groups and AVDs agree |
| **Lifecycle** `bootstrap/` | the open database, the background context | start, signal, deferred calls, exit | requests and fan-outs outlive the listener; crash | rows say what this life of the process did |
| **Users** `application/user` | rows, tokens | Login, GetProfile | find-then-create | one user per name |
| **Artifacts and files** `application/artifact`, `app`, `file` | rows, files on the disk, staged files | Upload, Install, Push | files written in place under the client's name | row and file agree; a device gets the file that was sent |

`web/src/lib/control/http.ts` and `dispatch.ts`, which look like the control
client, are called by nothing but their tests: the screens send their events over
the mirror's WebSocket.

How they interact. HTTP handlers call the services. The mirror handler calls
SessionManager.AttachVideo(Raw), which sends a command to the actor, gets the
device's supervisor, calls its Acquire and streams a subscription of the session
it got; a deferred detach tells the actor. Touches come up the same WebSocket:
a reader goroutine hands them to the control service. Control calls go through
the instance lock to SessionManager.Dimensions and SendControl. The actor calls
supervisors synchronously (CurrentSession, Snapshot, Reset) and closes collected
ones in goroutines of their own. A supervisor calls OpenSession inside its own
goroutine and watches the session's Done channel; a session's pump runs alone
and ends when its socket does. Group start and stop mark rows in the request and
do the work in a background fan-out. Start and shutdown of the process reset
every row to stopped.

`PROJECT.json` lists the hazards, each at the line where it bites, with the
properties that cover it or the reason why none does.

## 2. Plan

Ordered by what hurts most when it goes wrong. All of this exists.

1. `Circuit`, `Supervisor`, `SupervisorProofs`: retries and ownership; refinement and proofs;
   `SupervisorLife`, what the manager takes a supervisor for.
2. `Session`, `SessionProofs`: resources, channels and the teardown.
3. `SessionManager`, `SessionManagerProofs`: counting, idle collection, shutdown.
4. `Pump`, `PumpProofs`: the data path of one session.
5. `EmulatorRunner`, `Instances` on top of it, and `InstancesProofs` for both:
   ports, processes, rows, single and group operations.
6. `MirrorClient` and `MirrorStream`, composed in `Mirror`, and `MirrorProofs`:
   reconnects, registry, decoder, the two goroutines of a handler.
7. `Control`, `ControlProofs`: a gesture from the pointer to the device, beside
   HTTP calls and instances that stop and start.
8. `Process`, `Accounts`, `Groups`, `Files`, composed in `Backend`, and
   `BackendProofs`: the services over one database and one disk, in a process
   that is stopped, killed and started again.

What is left, in this order:

9. `Tunnel`: two sessions of one device that overlap in the one reverse mapping.
10. The widths of timestamps (fmp4.go:117) and the layouts of header and touch message.

Runs stay with two or three actors per role: every race listed is between two
parties, and a third one shows that a bystander is not harmed.

## 3. The modules

An `MC...` module extends its module with the symmetry set; constants are given
in the `.cfg` files. A definition whose comment starts with "Slip:" is a
plausible mistake in the definition that follows it. It is used by no
specification: substituted for that definition it makes the property it is
listed with in `PROJECT.json` fail, which shows that the property can tell.

### Circuit
What a supervisor promises, without its queue, timer and callers: idle, trying,
up, tripped, shut, and a budget of retries that only a reset refills.

### Supervisor
`Run` is the select loop of `run()`; one action per case: `RecvAcquire`,
`RecvReset`, `RecvRead` (CurrentSession and Snapshot, which wait and are served
alike), `BackoffOver`, `SessionDone`, `StopSeen` and `Stopped`. `tryStart` is
split where it blocks: `BeginStart` up to the call of OpenFunc, `OpenSucceeds`
and `OpenFails` after it; in between `pc = "opening"` and nothing else of run()
is enabled. The callers' two selects are `SendCmd`, `SendAborted`, `Receive`,
`WaitAborted`, `Cancelled`. `CircuitOpen` and `NextDelay` are the policy.
Delays are not represented: the timer may fire at any moment after it is armed.
A session is alive or gone; `pc = "closing"` is run() inside the Close of its
session on the way out.

History variables: `opens` (OpenFunc calls since a reset), `streak` (failed
opens in a row).

### SupervisorLife
The same supervisor as its manager sees it: not made, up, closing (somebody
called Close), ending (run() has seen that and closes its session), closed, and
whether run() is inside OpenFunc, deaf to commands and to the stop channel. An
open may still begin behind a Close, because a select in which two cases are
ready may take either. It ties the two modules that model one object: Supervisor
implements it (`ImplementsLife`), and SessionManager has one for each of its
supervisors (`KeepsLives`).

### Session
`phase` walks the eight steps of OpenSession; `Rollback` is what each error path
gives back. `held` is the set of resources that exist because of the session.
The pump's deferred function is three actions, because others see the moments
in between: `PumpDrains`, `PumpMarksDead`, `PumpSignals`. Close is split at
every point at which the pump or another call may come between. Subscribe looks
at the lifecycle word in `SubCheck` and takes the lock in `SubRegister`.
`Cancel` stands for the subscriber's call and for the watcher of its context.
`CloseRest` is what follows the sockets, up to `adb reverse --remove`; it happens
or it does not, as nothing in the code bounds it.

### Pump
`ReadFrame`, `BroadcastInit`, `BroadcastFrag`, `StashConfig` and `BroadcastRaw`
are one round of the loop, split where `subsMu` is free. A frame is its position,
its kind (parameter sets, IDR, intra picture with the key flag, predicted) and
the generation of its parameter sets. There are two fan-outs, fMP4 and raw;
`Deliver` is the non-blocking send into each channel of one. Timestamps and
bytes are left out. History variables: what a subscriber took (`got`), found in
its channel (`prime`), when it came (`joined`), whether it ever was full
(`lagged`), and all that was broadcast (`log`).

### SessionManager
`Receive` is the actor's select; Dimensions, Snapshots and Reset call supervisors
synchronously, so the actor stays in `asking` until each has answered, which a
supervisor that is inside an open does not. `Drop` is `delete` and `go Close()`.
The deferred detach (`SendDetach`) names the serial, as in the code. A
supervisor is its `SupervisorLife` (`sup`, `busy`; `SupStops` and `SupCloses` are
its end), and what Acquire answers is
left open: the answer may lie in its channel while the supervisor opens again or
closes. `MayAbandon` says
whether a context may end between a command and its reply: with it the idle
collection is wrong (see the findings), so the passing liveness run does without.

### EmulatorRunner
A task is a goroutine in Start or Stop; `run` holds its place and its locals.
Start is cut at every section of the mutex and around every adb command, since
that is where others come in: `CheckProcs`, `ListPorts` (adb, before the lock is
taken), `ReservePort`, `Spawn`, `BootOk` or `BootFails`, `ReleasePort`,
`Register`. Stop is `EmuKill` and `Collect`. A serial is its port. External: adb
lists any part of the emulators, `emu kill` may have no effect and hits whoever
has the port, an emulator boots or not and dies at any moment. A process that is
killed is gone at once. History variable: `doubled`, the ports of entries that a
second start of the same name overwrote; nothing stops their emulators or gives
back their ports, so the properties of the runner name them as an exception.

### Instances
EXTENDS EmulatorRunner. `rows` is the table, a job is what a goroutine is doing
and the row it read, `fan` is the work of fan-outs that has not begun. The rows
are those of one user and one group. `Begin` reads a row and calls the runner,
`RunnerReturned` goes on with the result, `Save` writes the whole row back;
`Dispatch` marks the rows of a list that was read once, one by one; `Work` is a
goroutine of a fan-out; `Cleaned` is the `wg.Wait()` of a group deletion. Each
request is made once and the behaviours begin behind the reset of a server
start. The semaphore of eight only delays and is left out, like ownership checks
and recovered panics. The database may refuse one access (`dbFailed`); a request
whose client has gone away is refused any (`Refused`), and a dispatch that is
given up so leaves the rows it had marked in starting or stopping
(`abandoned`). A failed stop is an error for a fan-out and a success for a
request, as in the code.

### MirrorClient, MirrorStream, Mirror
`MirrorClient` is the browser: JavaScript runs one callback at a time, so every
action is a whole callback (`Connect`, `Disconnect`, `TimerFires`, `Opened`,
`Closed`, `Frame`, `DecoderFails`). A transport remembers one timer and one
socket; those it overwrites go on living and are counted (`stray`) or stay in
`ws`. `HandleDisconnect` is what a failure makes of the fields; an error and the
close behind it are one task of the browser and call it twice. The constructor of
a socket may throw. Of a transport's status only "open" is told from the rest.
`MirrorStream` is a handler per connection with its two goroutines: `Upgrade`,
`Dispatch`, `StreamReturns`, `Join` and `ReadFails`. A reader may be in a touch
(`"touching"`) and then sees nothing of its connection until the touch returns.
`Mirror` composes them: a socket is a connection, the network breaks it for each
end in its own time, and a page mounts one screen of an instance after another.
A touch over a sound connection hinders nobody, so one is taken to begin when
the connection breaks (`Touch`). A socket's name is used again
when both ends are done with it. History variable: `orphaned`, a socket was
overwritten before it was closed; the properties of the client hold unless that
happened, and the section on disagreements says how it does.

### Control
One gesture (`g`, the hook's refs) that goes to several instances, each on a path
of its own, so one target is followed: the instance under the pointer (`self`)
or another one of a broadcast. `Send` is the lookup in the registry and the send
on the open socket, whose connection is `cur`. Each connection has a reader: `net`
is what it has not read, `Read` its next frame, which the rate limiter may drop.
A connection that has ended may still be read, and its reader may be in a touch,
while the next is open. A call of the control service, by a reader or a request,
is `Lookup` (ownership and serial), `Lock` (the mutex is made on demand) and one
of `ActTouch`, `ActTap`, `ActOther`, `ActFails`; a tap goes round twice
(`LiftsTap`).

All touches of a device are of the one pointer id that the code uses: `finger`
says of each device whether that pointer is up or who put it down last, and
anybody's up lifts it (`Press`). A row's serial and the device on it are two
things. `Start` takes a port that no device is on, whatever the rows say; `Stop`
kills by serial; `DeviceGoes` is a device that dies, or that another row's stale
stop killed. So two rows may have one serial. `acted` is the last gesture frame
that took effect; `lost` is history: a frame of the gesture for the target was
dropped, may have gone to another device, or may be overtaken, because a reader
was busy when the next connection opened.

### Process, Accounts, Groups, Files, Backend
`Process` says what the services need of `bootstrap/app.go`: the phase, and from
it whether the database is open, the background context alive, the port listened
on. `Accounts` is Login, cut at each statement, over the table of users and its
unique index. `Groups` has creation (check, insert, a fan-out behind a semaphore,
AVD, row, roll back), rename, deletion and start of a group, and start and
deletion of an instance, over the two tables and the AVDs on the disk. The
languages of a group may repeat, and instances of one language share an AVD. A
failed `CreateAvd` leaves the AVD or not. `Files` has uploads,
installations and pushes: a content is the number of the request that brought
it, `Partial` one that nobody sent, and a copy into a file that others write or
remove may leave any of them. `Backend` composes the three with the process:
`StartUp` (NewApp with its reset), `Signal`, `AcceptFails` (the listener ends the
server, and the background context `bg` lives on), `ShutDownReset` and `CloseDB`
(the deferred calls of Serve), `Exit`, `Crash`, `Restart`. Tables and files outlive the
process, calls and fan-outs do not.
History variables: `tokens`; `fresh`, rows started in this life; `excused`, groups
whose deletion overlapped their creation, of which an avdmanager call failed
behind its effect or left what was to go, whose deletion failed behind its AVDs
or died with the process, or whose shared AVD was deleted for one of two
instances; `spoilt`, names whose last upload failed,
overlapped or died; `left`, names whose staged file no push removes; `raced`,
a call whose file another one touched; `quiet`, nothing was left to write a
status when the reset ran (`Settled`). Each property names the exception it makes, so that it says what
the code does guarantee; what it does not is listed below.

## 4. The runs

| run | question | bounds |
|---|---|---|
| `supervisor` | ownership, waiters, refinement of Circuit and of SupervisorLife; Acquire and Close return | 2 callers, 2 sessions, 1 attempt, channel of 1 |
| `session` | rollback, channels, teardown; Close returns, subscribers are released | 2 closers, 1 sender, 2 + 1 subscribers |
| `pump` | no gap, order, bootstrap, parameter sets; a slow reader harms nobody else | every sequence of 3 frames, 2 + 1 subscribers, channel of 2 |
| `manager_safety` | no supervisor lost, none collected in use | 2 serials, 3 supervisors, 2 attachers, 1 sender, channel of 2, contexts may end |
| `manager_liveness` | the unused are collected, callers are served, Shutdown returns | 1 serial, 1 supervisor, an attacher, a reader, a closer, channel of 1 |
| `instances` | ports exclusive, none lost, emulators known, no row left in starting or stopping as long as commands return | 2 requests and 1 fan-out goroutine, 2 instances, 2 names, 2 ports, every operation offered |
| `mirror` | the open transport is the registered one, the decoder is of its stream, disconnect releases; retries end, handlers end | 2 transports, 2 sockets at a time, 2 attempts, 1 stray timer |
| `control` | taps lift their finger, frames act in order, a finished gesture lifts its finger | 2 instances, 1 serial, 1 request, 2 connections at a time, 2 frames |
| `backend` | one user per name; groups, rows and AVDs agree; uploads, installs and pushes deliver what was sent; rows tell of this life of the process | 3 requests, 2 at a time, 1 end of the process, 1 group name, 2 of the others, 2 languages, 2 slots, 1 place in the semaphore |

Why these bounds are enough. A channel of one or two is full as soon as a second
party sends, so every blocked send occurs. One attempt has both verdicts of the
policy, granted and refused; in the client two attempts let an error and its
close arm two timers. Two sessions let a new one meet a dead one. Two
closers are the race for the teardown; a third would repeat the second. Three
frames hold two configurations in a row and their key, and a channel of two
overflows when its reader sleeps through them; with four frames the run of the
pump, which has passed too, takes minutes. Two requests and a fan-out are
three tasks in the runner for two ports, so a port is asked for while all are
taken. Two transports are a screen that is mounted while the one before it still
closes; two sockets at a time are an orphan beside its successor, and `MaxStray`
stops a transport with stray timers from opening, as each opening would allow
new failures and more timers. Two control frames are a down and a move or an up,
the first of them on the old connection and the second on the next; one serial
for two instances is given away as soon as its device is gone, while the row of
the one before may still have it. With one serial the halves of a tap cannot
reach two devices; TapsLift, below, holds for any number. In
Backend the services share no table and no file, so that a behaviour asks one of
them (`service`), with three requests of which two overlap, before and after one
signal, failing listener or crash; one place in the semaphore makes the second slot
wait. With one name a second group is made behind the deletion of the first, or
refused; GroupNamesUnique is for any number. Callers come
back for ever in Supervisor; in SessionManager and Instances each client makes
one call, so that the state is finite. The supervisors'
identities bound how often a serial can be given a new one, the instances'
identities how many are created. The proofs below lift the bounds for
Supervisor, Session, SessionManager, Pump, EmulatorRunner, Instances, Mirror,
Control and Backend. `Cap`,
`CmdCap`, `MaxAttempts`, `MaxFrames`, `MaxStray`, `MaxUsers`, `MaxGroups`,
`Concurrency`, `MaxCalls` and `MaxEnds` are the bounds' names (`Cap`, `CmdCap`,
`MaxAttempts` and `Concurrency` are also constants of the code).

Deadlock is not checked: callers and clients may stop calling, and every system
here may come to rest after Close or Shutdown.

Fairness. A Go select chooses uniformly among ready cases, so a case that is
ready again and again is taken: strong fairness for the cases of run() and of
the actor. Blocked senders of a channel and waiters of a mutex are queued (Go's
mutex hands over after a millisecond of starvation): strong fairness for sends
and locks. A goroutine that can run does, and the runtime's and the browser's
timers fire: weak fairness. A connection that is being made, or that one end has
closed, comes to its end at the other, because both ends have timeouts: weak
fairness in Mirror, while an open connection may live for ever. Calls of the
database are assumed to return, with or without success.

Nothing is assumed of devices, adb, contexts, sessions or users. What the code
sets no deadline is under no fairness, and where a property needs that it returns
the property says so, as a premise that is a definition of its own:

| premise | in | what returns |
|---|---|---|
| `OpensReturn` | Supervisor, SessionManager | OpenFunc, which waits in Accept |
| `ClosesReturn` | Supervisor, SessionManager | the Close of a session that run() makes on its way out |
| `WritesReturn` | Session | a write to the control socket, which holds `closeMu` |
| `TeardownReturns` | Session | `cmd.Wait` and `adb reverse --remove` of the owning Close |
| `CommandsReturn` | Instances | `adb devices`, `getprop`, `adb emu kill`, avdmanager; the three minutes of a boot are looked at between two `getprop` only |
| `TouchesReturn` | Mirror | the touch a reader is in: lock, dimensions, control write |
| `StreamsReturn` | Mirror | a stream whose context is cancelled: its detach waits for the manager's actor |
| `CallsReturn` | Control | what is done under an instance's mutex |

Three more are not about waiting: that nobody resets the policy for ever
(`ResetsStop`, Supervisor), that the database refuses nothing (`~dbFailed`,
Instances), that no attach is abandoned (`MayAbandon`, SessionManager). The
premises chain: an actor in `ClosesReturn` needs `TeardownReturns` and
`WritesReturn` of the sessions, `TouchesReturn` needs `CallsReturn`. Pump and
Backend are checked for safety alone.

Stated in the modules and not run: `NamesUnique`, `TokenNamesItsUser` and
`SemaphoreServes` (each hangs on one guard), and what the proofs of the next
section state on their own account (`RestartsBounded`, `QuietWhenStopped`,
`GaugeExact`, `DoneMeansDrained`, `LifecycleForward`, `RegisteredHasAnOpenSocket`,
`NoSocketAfterDisconnect`, `OneWriterPerInstance`, `KeepsLives`, the type
invariants).

### Where code and comments disagree

Each is a run that TLC must find violated.

| run | what the run shows |
|---|---|
| `session_leak` | a session whose pump died by itself is never cleaned up: socket, listener, process, tunnel, jar stay (session.go:616) |
| `manager_abandoned_attach` | an attach whose context ends before the reply is counted for ever (session_manager.go:241) |
| `instances_deleted_runs` | a delete beside a start reads an empty serial, stops nothing and erases the row; the emulator comes up without an instance (instance_service.go:258) |

Met while modelling, without a run of their own.

Sessions and supervisors. Successful restarts never refill the budget, so five
deaths in the life of a server trip the circuit although every restart worked
(supervisor.go:231; `OpenMeansConsecutiveFailures` in Supervisor says what the
comment does). The second key after one CONFIG is sent and cached without SPS
and PPS, so a late WebCodecs client cannot configure (session.go:512;
`CachedRawKeySelfContained` in Pump). Acquire may hand out a session whose Done is
closed but not yet received (supervisor.go:258). A key by its flag alone is
cached for MSE clients as a fragment that is no sync sample (session.go:499,
fmp4.go:73). A detach names the serial and is charged to whatever supervisor has
it by then, which needs a Close(serial) that no handler calls today
(session_manager.go:248). Shutdown does not wait for supervisors that are being
collected (session_manager.go:127).

Mirror. A failed attempt fires error and close, each of which arms a timer
(web/src/lib/mirror/websocket.ts:304-330), so that failures double the sockets,
one that was overwritten survives disconnect, and a failure uses up two of the
five attempts and two of the delays that line 13 lists. The handler closes the connection and writes
the close frame behind that (mirror_handler.go:59, 104), so its reason never
reaches a client that would not retry after "auth". A decoder error sets the
status to "error", and frames that go on leave it there (websocket.ts:206).

Control. The forced up of an unmount is dropped for the screen's own instance,
whose transport is disconnected first (MirrorScreen.tsx:38-48,
useTouchGesture.ts:104-114). A second pointer's down restarts the gesture of the
first (useTouchGesture.ts:52). A canvas that is removed in the middle leaves the gesture
active (MirrorScreen.tsx:131). A switch of the mode splits a broadcast. A tap lets
other calls in between its halves, which use the same pointer
(control_service.go:61), so that another caller's up ends it early. A stale serial
may lead a call to another instance's device (control_service.go:139), and the
halves of a tap to two. Frames of a connection that has ended may act behind those
of the next (mirror_handler.go:93-98). The
rate limiter may drop the up (mirror_handler.go:138). Installing, starting and
stopping do not take LockInstance, as instance_service.go:98-101 says all writes do.

Instances, groups, process. A second creation of the same group and
language does not fail with "already exists" as instance_service.go:280 says,
because `avdmanager create` is called with `--force` (avd/manager.go:61) and the
name has no unique index (repository/models.go:40), so two rows share an AVD, which
a request that names a language twice does by itself (group_service.go:107-111);
the roll back, or the deletion, of one takes the AVD of the other. An AVD whose
config.ini could not be written is left behind (avd/manager.go:75,
instance_service.go:300-303). The
dispatch of a group is not one transaction as group_service.go:237 says, so a refused
write leaves the rows before it in starting. A lost race for a group's name or a
user's first login is answered as a failure of the server, not as a conflict
(group_service.go:113). A deletion that overlaps the creation leaves rows or AVDs
without a group, and one that fails behind the cleanup leaves rows without AVDs.
Serve returns as soon as the listener is closed and does not wait for the
grace period (app.go:250-254, 265), so a request in flight may write "running"
behind the reset (app.go:281), and so may a fan-out where the listener failed
(app.go:265-268); the error of the reset is dropped (app.go:102).

Files. An upload that fails empties or removes the APK of the row that is already
there (artifact_service.go:69, 80-83). Uploads of one name that overlap may make
two rows or a checksum that is not the file's. A push that cannot be received
leaves its staged file, the removal being deferred only behind the copy
(file_service.go:76-79), and pushes of one name share one staged file.

## 5. The proofs

All are for any values of the constants that satisfy the ASSUMEs of the modules:
any sets of callers, sessions, closers, senders, subscribers (VideoSubs and
RawSubs finite in Session, for the gauge), requests, sockets and instances, any
budget and any capacity. Each proof has one lemma or step per action.

**SupervisorProofs.** The inductive invariant ties the state word to the rest of
run(): running exactly when there is a `cur`, backoff exactly when a timer is
armed or fired, starting exactly when run() is in OpenFunc, parked callers only
in starting and backoff (or behind the stop), a live session only as `cur`, and
`opens` bounded by the attempts charged so far. `NoOrphanSession` and `NoStrandedWaiter`
alone are not inductive: that a restart finds no live `cur`, and that a parked
caller is not left by a state change, both follow only from those ties.
Theorems: TypeCorrect, SessionsOwned, WaitersServed, RestartStormBounded,
StopIsClean, SupervisorImplementsBreaker (initial states map to initial
states; each action maps to the breaker action named in its step, or stutters),
and in the same way SupervisorImplementsLife.

**SessionProofs.** The inductive invariant adds to the properties who may hold
`closeMu` where, that only the owner passes the compare-and-swap and that the
pump and the lifecycle word move together (reading or ended: running or closing; exited: dead),
that registered subscribers are `on` with an open channel and that every other
`on` subscriber has had exactly one close, and that the maps are nil from
`PumpDrains` on. The gauge needs cardinalities of finite sets. Theorems:
TypeCorrect, RollbackComplete, ChannelsNeverPanic, GaugeIsExact, DoneIsDrained,
WritesKeepSocket, TeardownComplete, LifecycleOneWay.

**SessionManagerProofs.** A client that is answered must be the one whose
operation and serial the command carries, which the types of queue and clients
need (TypeCorrect). NoSupervisorLost adds that the map is empty behind the
beginning of a shutdown. OnlyIdleIsCollected counts: `Owed(s)` is the attachers from their
reply to their detach (`Holders`) and the detaches in the queue, and the count of
a mapped supervisor is at least that; a detach moves from the one set to the other, and the
cardinalities of both are carried through every step, the queue's by a bijection
between the detaches of a sequence and of its tail. Its hypothesis is that nobody calls
Close(serial), as nobody does in the server: Close drops a supervisor with its
holders, and their detaches would be counted off its successor. The count may exceed `Owed`, and then the
supervisor is never collected (run manager_abandoned_attach).
AttachCountIsExact says that nothing else leads there: where, in addition, no
wait for a reply is abandoned (`~MayAbandon`), the count *is* `Owed` until the
shutdown. For that an attach in the queue has its caller waiting
(`AttachWaits`) and a new supervisor counts nobody (`FreshIsZero`). IdleIsTimed, without either
hypothesis: a mapped supervisor that counts nobody has a timer or a tick in the
queue with its present generation, which is the safety half of IdleCollected.
Two theorems justify the supervisors of this model. ManagerKeepsLives: each step
is a step of `SupervisorLife` for every supervisor, or none. EveryLifeIsAllowed:
whatever `SupervisorLife` lets a supervisor do of its own, the model lets it do.
With SupervisorImplementsLife the manager therefore meets every order of opens
and ends that module Supervisor is capable of.

**InstancesProofs.** First the runner alone, from `RunnerAssumption` (ports are
numbers, None is neither port nor name). None of the three properties is
inductive alone. The invariant says that every reserved port has exactly one
user: a start in flight, an entry, or an overwritten entry; that in-flight
starts have distinct ports, and entries too; and which locals a place of Start
or Stop relies on. A new emulator then cannot meet another on its port, because
the other's user would be a second user of the port. Theorems: RunnerTypeCorrect,
OnePortOneEmulator, NoStrayEmulator, PortsAccounted. Then the service on top:
type correctness of rows, jobs and fan-outs gives that each step of Instances is a step of
the runner or leaves it alone (InstancesTypeCorrect), hence InstancesDriveRunner
(Spec => RunnerSpec), and with it the runner's theorems for any number of
requests, fan-outs and instances: InstancesShareNoPort, InstancesLoseNothing.

**PumpProofs.** From a capacity of at least two (a bootstrap is two chunks). The
properties of streams are not inductive, because they say nothing of what is
still to come. The invariant adds when a chunk is `Due`: which chunks may stand
in front of the next broadcast of each fan-out, at each stage of the loop. All that is
cached or in a stream is due, so the next chunk is behind it; while the pump is
in `init` nothing is cached and every fMP4 stream is empty, and later every one
begins with the init segment. `KeyInv` ties the parameter sets kept to the log:
none are kept only if a key of this generation was sent. Lemmas about sequences
(appending behind a concatenation, the subsequence since a position when one
more is sent) carry the history variables along. Theorems: PumpTypeCorrect,
NothingLost, StreamInOrder, StreamStartsWithInit, KeysCarryTheirParams.

**MirrorProofs.** The invariant adds that one transport at most is connected and
only that one keeps a socket (`OneConnected`); that, unless orphaned, a socket
that is or may become open is the one its transport keeps (`KeepsItsSocket`),
without which neither the registry nor the decoder could be told to be of the
present stream; and that no close frame is ever on the wire (`NoCloseFrame`), so
that every failure is retried. Theorems: TypeCorrect, RegistrationEnds, RegistrationIsCurrent,
DecoderIsOwn, DisconnectComplete, TimersDieWithTransport.

**ControlProofs.** What each kind of caller can be at (`CallsSound`) comes with the
types. The lock: of the mutexes made on demand, a holder has the one in the map
(`OneMutex`). Taps: a finger that a tap has put down is on the device it
remembers, and its up goes either there, or to another device and is then
astray; what other callers do to that finger in between only lifts it or makes
it theirs. Order: the frames of a connection are behind the one in
its reader (`NetInOrder`), those of the open connection are the newest
(`CurrentIsNewest`), and unless `lost` nobody else has any (`NoneOvertaken`).
Theorems: TypeCorrect, WritersTakeTurns, TapsLift, GesturesInOrder.

**BackendProofs.** Each service has an invariant of its own, kept by its steps,
by the ends and starts of the process, and untouched by the other services'
steps. None of the run's properties is inductive.

- Accounts: names are unique in the table, and whoever is about to sign signs for
  the user whose name it was given (`SignsForItself`), from the lookup or from
  the insert, whichever of two racing ones won. Theorems: OneUser,
  TokensKeepTheirUser.
- Groups: while a group is made, the job of each slot tells whether its row is there
  and that its AVD is (`JobTells`); every AVD is that of a row or of one that is
  about to be inserted (`BackedInv`), which needs the two apart because slots may
  share an AVD, so that what a failed step rolls back may be what another has
  made. While nobody makes it, a row lacks its AVD exactly when a deletion has
  cleaned it (`DeletingInv`). That nothing is stored under an id not given
  out yet (`IdsInv`) and that making and deleting meet only in groups that are excused
  (`MakersInv`) lets the two halves meet. The semaphore equals the number of
  goroutines at work (`SemInv`). Theorems: GroupNamesUnique, GroupsOfRowsExist,
  AvdsAndRowsAgree, NoPlaceIsLost.
- Files: who shares a file is marked (`RacesSeen`), so who is not marked was alone
  and finds what it wrote (`OwnFile`); a name that is not spoilt has one row
  at most (`OneRow`). Theorems: ArtifactsMatchFiles, DeliveriesAreOwn,
  StagingEmpties.
- Process: when the reset of a shutdown ran with nothing left to write, nothing is
  until the end, and no row has left stopped (`QuietInv`). Theorems: StatusesAreOfThisLife, and
  TypeCorrect for all services together.

The assumptions on constants are that sets that are counted are finite, numbers
are numbers, that the "none" values are none of the real ones, and that there
is a device.

Only model-checked: all liveness (AcquireReturns, the CloseCompletes of two
modules, SubscribersReleased, IdleCollected, CallsServed, ShutdownCompletes,
TransientResolves, GivesUp, HandlerEnds, FingerLifts), since fairness and
ENABLED are beyond the prover. Every invariant and every action property of a
passing run is a theorem.

## 6. Not modelled, and why

- The adb tunnel as a component: one command per method. What it means to a
  session is a resource of module Session; two sessions of one serial that
  overlap in its one mapping (session.go:643) are not modelled yet.
- The control codec and the layout of frames, fragments and headers: pure
  functions over bytes. With them the width of timestamps (fmp4.go:117) and the
  content of the init segment, which is written once (fmp4.go:41).
- Configuration, routing and logging keep no state that changes; the cleanup
  scheduler's tick only logs; pages render what the server answers.
- The HTTP endpoint for single touches, which the web client does not call;
  uninstalling, clearing data and listing, pulling or deleting remote files,
  which change the device alone.
- Positions and sizes of touches (the server fills in the size it knows, so that
  scrcpy's own check of it never refuses one: control_service.go:94).

adb, the emulator, scrcpy on the device, the database, the browser and the
network are external: they are modelled by how the code uses them, as choices
of the environment. Metrics and log text are left out everywhere.
