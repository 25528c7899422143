# Verification of yepanywhere

TLA+ models of the parts of yepanywhere whose correctness depends on the order
in which concurrent things happen, checked by TLC on small instances, with
theorems about them proved by TLAPS. Paths below are relative to
`packages/server/src` unless they start with `packages/`.

## The system

yepanywhere is a server that supervises coding agents (Claude, Codex, ...) on
the user's machine, and clients (browser, mobile, desktop) that reach it
directly or through a relay. The server is one Node process: code between two
awaits runs alone, and everything hard happens at the awaits, at timers, at
events and at process deaths.

| Component | State | Operations | What is hard | What makes it correct |
|---|---|---|---|---|
| Project Queue store, `services/ProjectQueueService.ts` | items per project, global pause, the JSON file | create, edit, delete, retry, reorder, pause, resume, claim, release, fail, complete, associate, reload | memory changes before the save; a save may fail; the process may die during it | order and items agree in memory and in the file; a claim is exclusive; nothing acknowledged is lost |
| Project Queue scheduler, `services/ProjectQueueScheduler.ts`, `services/projectWorkIdle.ts`, `services/ProjectQueueReadinessCheck.ts` | a timer and a run per project, readiness snapshots, user reservations | events, timer, Start now, promotion, dispatch | every check is an await before it is used | promotes only idle projects, delivers once, never stops retrying, users win |
| Session creation store, `sessions/SessionCreationStore.ts`, `sessions/SessionIdentityStore.ts`, `sessions/creation-process-identity.ts` | per request: its current attempt, the attempts with state, delivery, generation and server; native allocations; identities | admit, begin dispatch, bind, confirm, refuse, mark uncertain, retry, recover, adopt | late calls of old attempts; a provider may have taken the message when its start seems to fail; a native file is seen before its owner names it | one effect per creation; refused only when nothing happened; doubt ends only by proof; a native belongs to one session |
| Dispatch, `supervisor/Supervisor.ts`, `supervisor/WorkerQueue.ts` | calls in progress, worker queue, processes, worker limit | start, copy, queue, promote, cancel, tear down | nine awaits between a request and its settled process; overlapping callers; two servers | every waiting attempt is in somebody's hands; the worker limit; no owned attempt is doubted |
| Message queue, `sdk/messageQueue.ts`, `supervisor/Process.ts` | queued user messages, one consumer | push, withdraw, close | consumer waits while the process ends | each message reaches the provider once, in order |
| Session activation, `supervisor/SessionActivationCoordinator.ts`, `supervisor/Supervisor.ts` | the activation promise and the configuration queue of a session, its processes, its owner | resume, reactivate, reconfigure, restart, Stop, promote, tear down | two locks that do not exclude each other; looks taken before an await; teardowns that fail | one provider per session; no provider untracked; no waiter forgotten |
| Relay server, `packages/relay/src` | waiting servers, pairs, limits | register, connect, close, claim | a replaced socket closes late; the same user reconnects | one pair per client, no eviction of the newer registration |
| Relay client, `services/RelayClientService.ts` | the connection under way, the waiting one, three timers | start, stop, register, claim, handoff, close | late events of a connection that was handed off or replaced, silent links | one registration while enabled, and again after any failure |
| Phone of the relay, `packages/client/src/lib/connection/RelayClientSocket.ts` | one connection | open, ask, be paired or refused, leave | the server it was paired with is gone | it speaks with one server or loses its connection |
| Local stream of a client, `packages/client/src/lib/connection/ConnectionManager.ts`, `WebSocketConnection.ts`, `RelayProtocol.ts`, `packages/client/src/lib/transport` | manager state, back-off, pong and stale timers, the socket, the connect promise, subscriptions | connect, error, close, reconnect, heartbeat, visibility, uploads, dispose | timers and promises of older attempts; any socket's close empties the slot of the current one | a source that reconnects is driven by something; no subscription is left behind; a visible source recovers |
| Provider host, `sdk/providers/provider-runtime-host.ts` | detached provider processes | adopt, release, recover | survives server restarts | one controller per provider session |

Components talk by calls (scheduler to store, scheduler to supervisor), by
callbacks (completion, reservation release) and by the synchronous
`EventBus`: an event's handlers run inside the step that emits it.
`PROJECT.json` lists every component with what is modelled of it and why the
rest is not, and the hazards of the code at their lines.

## Modules

| Module | Models |
|---|---|
| `ProjectQueueService` | the store: one operator per mutation, its save, its failure, the reload |
| `ProjectQueueScheduler` | the scheduler, composed with the store, its users, the work around it and crashes: the specification `Spec` |
| `ProjectQueue` | the properties, the fairness, the inductive invariant |
| `MCProjectQueue` | TLC instances, one `.cfg` per question |
| `ProjectQueueProofs` | proofs that the store stays consistent and each claim with its run |
| `ProjectQueuePromises` | proofs of what the queue promises its users, on top of them |
| `SessionCreationStore` | the durable rows: for each store transaction the condition under which it does not throw, and what it writes |
| `SessionDispatch` | the supervisor's calls, worker queue and processes over the store, the providers, discovery, crashes and competing servers: the specification `Spec` |
| `CreationLedger` | the abstract promise: each creation is a card that is offered at most once |
| `SessionCreation` | the properties, the refinement of the ledger, the inductive invariant, the fairness |
| `MCSessionCreation` | TLC instances |
| `SessionCreationProofs` | proofs about the rows: one effect, safe retries, the refinement |
| `SessionNativeProofs` | proofs about native sessions, allocations and proofs of consumption |
| `SessionWorkProofs` | proofs about who answers for an attempt and about the limit on workers |
| `RelaySockets` | the connections between relay, server and phones: two ends, what is under way in each direction, silent links (external) |
| `RelayServer` | `packages/relay`: who waits, who is paired, the handlers and timers, a restart |
| `RelayClient` | the server's `RelayClientService` and the connections it handed off |
| `RemoteAccess` | the phones, and the composition of the three: the specification `Spec`, its properties, inductive invariant and fairness |
| `MCRemoteAccess` | TLC instances |
| `RemoteAccessProofs` | the theorems and their proofs |
| `ConnectionManager` | the client's manager: one record, each method a function of it |
| `WebSocketConnection` | sockets, connect promises and the subscriptions they carry |
| `LocalStream` | the composition of the two in a tab that is hidden and shown: the specification `Spec`, its properties, inductive invariant and fairness |
| `MCLocalStream` | TLC instances |
| `LocalStreamProofs` | the theorems and their proofs |
| `SessionActivation` | the requests that may launch a provider for one session, its processes and their teardown: the specification `Spec`, its properties, inductive invariant and fairness |
| `MCSessionActivation` | TLC instances |
| `SessionActivationProofs` | the theorems and their proofs |

### How the Project Queue model corresponds to the code

`withMutation` chains the store's mutations on one promise: a mutation changes
`state`, awaits `save()`, emits its event and returns. Readers and the
scheduler see the changed memory while the save is pending. So a mutation is
two steps: `Do...` changes `mem` and fills `pend`, and `SaveSucceeds` writes
`disk`, runs the event's handlers (`OnQueueChanged`) and lets the caller go on;
`SaveFails` restores what `createItem` and `updateItem` restore and nothing
else; `CleanupFails` is an attachment removal that throws after the save, so
that no event is emitted. The lock is the guard `Unlocked`. The code serves the
waiting mutations in their order; the model lets any of them be next.

A queue state is a record of `order` (item ids by project), `rec` (item by id)
and `paused`. An item keeps its status, its failure count, whether its target
is an existing or a new session, whether a saved creation was associated, and
its retry id. Messages, titles, attachments, permissions are data no property
tells apart; refusals that depend on them are nondeterministic. The file is a
JSON image replaced by a rename: a crash leaves the old or the new one
(`CrashImages`). `Initialize` requeues what was being dispatched, pauses a
queue that is not empty and saves the result.

`runProjectNow` is an async function; `run[p].pc` names the await it is
suspended at, and each action is the code up to the next await: `StartRun`
(synchronous part), `IdleChecked`, `ReadinessChecked`, `ClaimItem`, `Claimed`,
`Rechecked`, the dispatch (`LaunchExisting`, or `AdmitCreation`,
`AssociateItem`, `Associated`, `LaunchNew` for a new session), and the endings
`CompleteItem`, `ReleaseItem`, `StartupFailure`, `FailItem`, `RunEnds`. The idle
predicate lists the supervised processes and the external sessions before its
awaits and counts the users' reservations after them; the model samples `turn`
and `ext` into `busy` when a check begins and reads `resv` when it ends.
`promoteNow` that finds the queue paused resumes it first and goes on in
`PromoteResumed`; either way it then drops the timer and starts a run, or finds
nothing to run (`StartNow`). A request to schedule a project whose run is in
flight is dropped, as `scheduleProject` drops it.

`sent` counts how often the provider got an item's message, and `late` how
often a launch failed after that: `startProviderSession` queues the message to
the provider and then awaits `persistSuccessfulSessionBoundaryOrAbort`, which
throws when it cannot save, so that the item is failed or requeued although it
was delivered. Both are history variables.

What surrounds the queue is nondeterministic: sessions start and end turns,
another program's session appears with an event and decays without one, saved
creations go on or fail (`"creation"` among the `Disturbances`), users reserve
starts, automation is held and released, the readiness command
changes, the scheduler is disposed. The creation store and the supervisor are
modelled by what the queue reads of them (`creation`, `CreationAdvances`,
`OwnerLost` and the outcomes of the launches).

Over-approximations, which can only add behaviours: any waiting mutation may
be next; a timer may fire at any time once armed; a launch starts a turn, or
not, through `TurnStarts`. Delays are abstracted, so that an automatic attempt
with a readiness command may always find that it came too soon.

### How the session creation model corresponds to the code

`SessionCreationStore.ts` keeps a row per creation and a row per attempt in
SQLite; each method is one synchronous transaction that first compares the
caller's fence (creation, attempt, generation) with the row (`assertCurrent`)
and throws when it is stale. Each is a pair in the model: `CanX(f)`, under
which it does not throw, and `X(f)`, what it writes. The attempt's states are
the code's, and so are the three values of the delivery; `markDelivery`, which
only the tests call, is not an action.
`controllerPid` is `pid`; `native_session_allocations` is `claim`;
`session_identities` is `native` and, for sessions found on disk, `adopted`.

A call of `startSession`, `startSavedSession`, `copySession` or `processQueue`
is an element of `Runs`; its `pc` is the await it is suspended at (listed at
the head of `SessionDispatch`), and each action is the code up to the next
one. The record of a call is itself the fence it works under. A catch block
that may run at several awaits is one action for them (`RunFails`).
`RecordFailure` is the common catch: an attempt that still waits is refused,
one that was dispatched is uncertain unless something settles it. The worker
queue is the sequence `queue`.

`owner[c]` is the native side: a provider's process, or a finished copy, and
what this server's `Process` object knows of it. The provider's own moves
(`OwnerNames`, `OwnerTakesInput`, `OwnerEnds`) are separate from what the
server hears of them (`ReportNative`, `ReportInput`, `ReportBoth`,
`HostEvidence`, `StreamEnds`), so that every report may be late or lost.
`launches` counts native effects; nothing in the code reads it.

A crash loses calls and queue. The providers live on unwatched: a hosted one may
be met again, a local one ends, soon or late (`OwnerEnds`). A start that fails
may likewise leave a hosted provider behind. A restart
runs `recoverOwnerLoss`, which spares the attempts of pids that answer to
`kill(pid, 0)`: with `PidReuse` any set of earlier pids may answer, and the
new server may have an earlier one itself. `CompetingStartup` is a second
server started by mistake, which runs the same recovery beside the first.

Abstractions: payloads never change, so the conflict of two payloads under one
key does not occur; the byte and row budgets (`reserve`) refuse without
changing anything; authority, sandbox, provider status and limited users can
only make a preflight fail, which it may do at any time here; attempts without
a `controllerPid`, made by old versions, are left alone by the code and absent
here; a hosted worker is met again through its evidence only, its later
conversation is not modelled. `Settle` registers the process it settled only if
that is still watched; the code registers one that has ended meanwhile too, and
drops it at the next look. Prepared sessions, which start without a message, are
covered by the theorems and are in no run.

### How the remote access model corresponds to the code

The relay is modelled for one user name on one channel: `waiting` is
`waitingServers.get(key)`, `active` is `activeServers`, `pairs` and `lookup`
are `pairs` and `pairLookup`, `silent` the pairs whose first-message timer is
armed, `claimed` and `pinged` what the closure of `ws-handler.ts` keeps per
connection (`state` and the ping interval). `owner` is the registry's row.
Each handler of the `ws` library is one action; handlers are synchronous, so
an action is the whole handler. `HandleClose` and `RegisterServer` are the
methods of the relay's `ConnectionManager`, `OnClose`, `OnRegister` and
`OnConnect` the handlers that call them and then close the other ends.

`RelayClient` has the service's variables by their names (`connectingWs`,
`waitingWs`, the reconnect timer, the registration deadline, the keepalive).
Each handler of the service begins by comparing the socket with what the
service owns; the guards `s = connecting` and `s = waits` are those
comparisons. `Strict` is `strictPeerHandoff`: the peer route has a handshake
timeout and a registration deadline, the app's own route has neither. `handed`
are the connections that `createAcceptRelayConnection` serves afterwards.
`OnRejected` has the two reasons this repository's relay sends; the branch for
an unknown reason, which would schedule a reconnect while `connectingWs` is
still held (`RelayClientService.ts:414-417`), is left out.

`RelaySockets` is the network. What one end writes arrives in order, and its
close after it; the close event of an end may come long after the program
closed it; a silent link (`dead`) loses what is under way and tells nobody.
One action handles one event of one connection, whatever it writes to others:
`RelayDoes` and `PeerDoes` say what it read, which ends it lost, what it wrote
and which others it closed. `Fresh` gives a new WebSocket an object that is in
nobody's hands, so that a handful of objects stands for all connections.
Deadlines are abstracted to "passes on a silent link, or is missed once"
(`Overdue`, which counts as a fault). Phones send one frame and wait for its
answer; a frame is named by the connection it was written on, which is what
`heard` and `said`, read by nothing in the code, remember.

### How the local stream model corresponds to the code

The manager is a record with the fields of the class `ConnectionManager`, and
each method is a function of it, in `ConnectionManager`; `LocalStream` says
which event calls which. `armed` counts the timers that will really fire,
beside the handle `timer`: an overwritten handle would leave its timer
running, and `TimersAreHeld` says that this does not happen. All managers in
the code drive their own reconnects (`driveReconnect`); the passive mode is
left out. `quiet` is 45 s without an event: a reconnect does not reset that
clock (`_startStaleCheck`, ConnectionManager.ts:523, keeps its interval), so
that the next check may reconnect once more. `critical` is whether an upload
is under way, the count of them being abstracted.

A socket object has its handlers from `connect` to its `onclose` or to a
`reconnect` that takes them off; `deadline` are the connect promises whose ten
seconds run. `SocketOpens` resolves the promise and, in the same turn of the
event loop, runs the `finally` that clears `connectionPromise`, whichever is
there, and sends the messages of those who waited. `SocketCloses` is
`onclose` of any socket with handlers: it empties `ws` whoever was there and
ends every subscription. Listeners do not re-enter the manager, so handlers
are atomic. A subscription is requested (`pending` on a promise, then `sent` on
a socket) and opened by the server's `connected` event; `ManagedStream`'s retry
is any later `Subscribe`. A socket whose link failed is `half`: the page may
find its `readyState` still OPEN or already CLOSING (`MayBeClosed`). So
`ensureConnected` may use it or open another beside it, and the ping of `Shows`
may be sent or may throw, which reconnects at once. That there is a socket to
ping is `ConnectedHasSocket`, part of the inductive invariant.

### How the session activation model corresponds to the code

One session. A `Process` object is an element of `Processes`, and `life` is
what became of its provider: `starting` until `registerProcess`, `live`,
`reaping` while `terminateAndWait` is under way, `stuck` when that teardown
could not be verified (both are `hasUnverifiedProviderOwnership`), `lost` when
a launch that failed could not stop its provider either, and `ended`.
`registered` is `Supervisor.processes`, `owner` the entry of
`sessionToProcess`, `entry` a resume in the worker queue.

A request is an element of `Calls`; `work[c].pc` is the await it is suspended
at (listed at the head of the module) and each action is the code up to the
next one. `activation` is `state.activation`, named by the call that started
it: `startActivation` overwrites what is there and its `finally` clears the
slot only if it still holds its own promise (`LaunchEnds`), which also resumes
whoever waits for that promise. `enqueueConfiguration` runs its transitions one
at a time (`Turn`).

What an await resumed by the same event does is not interrupted by other
events: an `await` of something already settled yields to continuations, not
to I/O. So continuations (`woken`, `aborted`, `gap`, `blind`) run before
anything else (`Quiet`), while among each other their order is open. A `gap` is
the await of `waitForActivation` when there is nothing to wait for: other
continuations may run in it. It is a `blind` one when the look at the owner was
taken before an earlier await and is not taken again.

`TeardownBegins` covers every caller of `terminateAndWait` (idle grace,
interrupt fallback, a provider's error or a stream that ends), `Dies` a
provider whose end is known at once. `Dies` and
`Completes` mean that the provider is really gone; `Process.terminate()` marks
a process of an unmanaged provider terminated when its abort was only
requested, and what that provider does afterwards is not modelled. `StopAborted`
leaves out the await of the pending saves of launch settings
(`settleStoppingProcessLaunchSettings`). Settings that differ or agree, a provider
that supports a dynamic change or does not, refused messages and failing
launches are nondeterministic outcomes. `isAtCapacity` may answer anything in
`AtCapacity`, because the other sessions' processes are not modelled.

## Runs

| Run | Instance | Shows |
|---|---|---|
| `queue_edits` | one project, two items, a pause, one failing save or cleanup | the store stays consistent, its file follows its memory and claims are held while users edit, delete, reorder, pause, resume and start items around a run; no empty queue stays paused |
| `queue_crash` | two projects of one item each, one explicit retry each, one crash, one launch that fails after its delivery | what was saved comes back once, waits for the user, and is delivered again only after the crash or the late failure; a resume reaches the other project |
| `queue_live` | one item, every blocker, a readiness command, forced Start now (also for an item that is gone), one failing save | a user's start and a settings change win over a promotion under way; no promotion without a proof of readiness; a blocked automatic attempt is made again except in three named cases, and `inFlight` is always given back |
| `queue_lost_backlog` | violation | a failed save at start-up empties the queue |
| `creation_calls` | three first messages, three calls at a time, two workers, a queue of one | some call, entry or process answers for every waiting attempt; no attempt a live server still starts is doubted; the worker limit; every history is one of the ledger's |
| `creation_restart` | one hosted creation, three attempts, three retry keys, three calls, a crash, pids reused | one effect over all attempts; retries follow only safe refusals; evidence is true and final; the inductive invariant |
| `creation_natives` | a first message and a copy in one namespace, one worker, a crash, discovery | discovery never adopts a native of ours; an allocation is held exactly while there is doubt; no admitted creation hangs, not even a message that waits for the worker the copy holds |
| `relay_pairs` | two phones, two connections of the server, two changes of its settings | the relay's tables agree, one phone per connection; the inductive invariant |
| `relay_faults` | one phone, two connections of the server, one failure of any kind, the peer route | one registration at a time, none removed by a late event; the server can be reached again; a phone that has spoken is answered or loses its connection |
| `stream_recovery` | five connection objects, one subscription, a budget of one rapid retry, one failure | a reconnecting source is driven, subscriptions are carried, a visible source recovers; the inductive invariant |
| `session_calls` | two requests of any kind at a time, two process objects, with and without a free worker | launches that follow one rule keep the session to one provider; no request waits for ever; the inductive invariant |
| `session_unverified` | violation | a teardown that begins while a resume applies a setting is passed over |

The two violation runs are disagreements between a document or a comment and
the code; `PROJECT.json` quotes the sentences. In `queue_lost_backlog`,
`initialize` saves inside the `try` whose `catch` starts empty. In
`session_unverified`, `resumeSession` awaits `setMaxThinkingTokens`, during
which the provider fails and its teardown begins; the process is then
terminated, its provider not yet known to be gone, and the resume launches a
replacement without asking `assertProviderOwnershipSettled` again, as it does
after a refused message (`Supervisor.ts:3392`).

### Bounds, and why they are enough

Two items of one project are the smallest instance in which an order can be
wrong, an item can be moved above another, and a claim can be of another item
than the one an edit is about. Two projects of one item each are needed only
for what crosses projects: the lock, the pause, the announcement of a resume.
`PauseDispatch` happens in `queue_edits`; in `queue_crash` the queue is paused
by the restart. One crash and one failing save hit every state the others
reach; what a second one adds is counted by `RedeliveriesExplained`
(`1 + crashes + late[i]`) and follows from the inductive invariant, which the
theorems establish for any number of them. `MaxLateFailures` bounds the launches
of an item that fail after the delivery; the explicit retry of `queue_crash`
then delivers the message again without a crash. `MaxStartupFailures` is 1 (a first failure reaches the cap, a retry
starts the count again); the code's value is 3. `MaxRetries` bounds explicit
retries. `Promotable`, `Forcible`, `Pausable`, `Targetable` and
`Disturbances` switch inputs off in the runs whose question they do not touch;
over the passing runs every action happens. Start now names an item in
`queue_edits` and `queue_live`, which may be gone when it does; the head of the
project (`None`) is one of the values the theorems cover. Symmetry in the items is used for
safety only. Deadlock of the queue is not checked: with every bound used up
and nothing queued the system is rightly at rest.

Three calls are the smallest number in which a promoted start, a direct start
of the same attempt and a late call of a superseded one coexist; with two
workers and a queue of one, three creations fill and overflow both. Three
attempts of one creation are what `MaxAttempts` needs for a retry of a retry
and for the refusal at the bound (the code's bound is larger; the theorems are
for any). `MaxLives` of 2 is one crash and one restart, and with pids reused
the second server may carry the first one's pid. `MaxStarts` keeps the code's
16, out of reach of three calls: the worker limit is the tighter one. Retry
keys are client-chosen, so their number bounds the retries. Deadlock is
checked: a server can always be started again or competed with.

For remote access, two connections of the server are the waiting one and its
successor, or the one handed off and the next; two phones compete for one of
them. One failure of any kind (`MaxFaults`), at any moment, is what the
liveness properties need; the safety properties of both runs are theorems for
any number. `MaxSettings` of 2 is a start and a stop, or a restart of the
service. `CanConnect` keeps the objects finite: where none is free, no new
connection is made until the network gave one back.

For the local stream, five connection objects are one more than the runs ever
hold beside each other with one failure; with four, sockets that nobody owns
any more (see below) hold all of them and `Recovers` fails for lack of an
object, which no browser does. A budget of one rapid retry reaches "out of
retries" and the slow probe. The code's budget is 10.

For session activation, two requests and two process objects are the smallest
instance in which launches overlap, one launch overwrites the activation of
another, and an old process is still being torn down while a new one starts;
the theorems are for any number of both. There is no other bound. Deadlock is
checked.

Deadlock is not checked for remote access and the stream: with its settings
spent, its faults used up and the phone gone, or after `Dispose`, the system is
rightly at rest.

### Fairness

`Fairness` of the queue is the fairness of Node's event loop and of the
promises the code awaits: a pending save settles (`WF` of `SaveSucceeds`; a
failure also settles it), an armed timer fires (`WF` of `TimerFires`), the
continuation of Start now runs, and a run whose promise settled goes on. A
run's step is `SF` because the mutations it waits for are served first come,
first served, while the model lets users' mutations overtake it each time.
Nothing is assumed of users, of other programs or of the blockers. `WF` of the
timer assumes that events do not re-arm it forever: `scheduleProject` clears
and arms anew on each event, so a stream of events denser than the delay would
starve it.

Of session creation: every await of a call settles (`WF` of `RunStep`). The
provider's native id has a timeout of 60 s (`waitForProviderSessionId`),
teardown has its deadlines, a provider's start and a preflight settle or
throw. `Promote` is `SF` because `processQueue` runs after every finished
start and every unregistered process, that is whenever capacity appears, while
other starts may take it each time. An ended stream is noticed (`WF` of
`StreamEnds`), providers end sometime (`WF` of `OwnerEnds`), and the server is
started again after a crash (`WF` of `Restart`). `CreationsSettle` is stated
for pids that are not reused: a recorded pid that another program got keeps an
attempt waiting for ever, which `topics/session-identity.md:1436-1444`
documents as the conservative choice.

Of remote access: an end that has something to read reads it, a closing socket
gets its close event, a reconnect timer fires, a deadline passes on a silent
link. Nothing is assumed of phones except that their handlers and deadlines
run, of settings, of faults, or of a deadline on a link that works.
`ServerReturns` is stated for the peer route only (`Strict => ...`); "Model-checked
only" says what happens on the app's own.

Of the local stream: a connecting socket opens unless it fails first, a connect
promise expires, a closing socket closes, the back-off timer and the 45 s check
fire, and an upload ends. `Subscribe` is not fair: the source recovers by
itself. A half-open socket need not be closed by the browser.

Of session activation: every await of a request settles, whatever others do
(`SF` of `CallStep`): launches start or fail, a setting is applied or refused,
the configuration queue serves its transitions in their order while the model
lets any be next. A teardown is verified or fails at its deadline
(`PROCESS_ABORT_TIMEOUT_MS`; `SF` of the two outcomes). Nothing is assumed of
new requests, of promotions or of the providers.

## Proofs

All theorems are for any values of the constants that satisfy the named
assumptions: `ServiceAssumption` and `SchedulerAssumption` for the queue,
`StoreAssumption` for session creation, `SocketsAssumption` and
`ClientAssumption` for remote access, `ManagerAssumption` and
`StreamAssumption` for the local stream, `ActivationAssumption` for session
activation. These only say what kind of value each
constant is.

### Project Queue

`ProjectQueueProofs` proves

- `InductiveInvariant`: `Spec => []Inductive`,
- `TypeCorrect`: `Spec => []TypeOK` (a part of `Inductive`, as in every component),
- `QueuesStayWellFormed`: `Spec => []QueueWellFormed`,
- `EmptyQueuesRun`: `Spec => []EmptyQueueRuns`,
- `ClaimsAreHeld`: `Spec => []ClaimHeld`.

None of the three safety properties is inductive alone. `Inductive` adds:
`StateOK` of memory and file (each project's order is a duplicate-free listing
of exactly its items, counts below the cap unless failed, no pause without an
item); `UndoOK` (what a failed save would restore is consistent too and
differs from memory at one item that no run holds, so that a rollback takes no
claim away); `CreatedOK` (ids are fresh, so `createItem` appends no listed id);
`PendingOK` (the pending mutation of a run is awaited by the run of its item's
project and no other run waits); `RunsOK` (a run is about items of its own
project, so that two runs never share an item).

The argument has four parts. Part 1 is about sequences: removing, inserting,
prepending and appending keep a listing. Part 2 proves that each mutation,
rollback and reload keeps `StoreInv` and changes the status of at most one
item (`Effect`). Part 3 has one lemma per kind of step (a run moves on, a run
opens a mutation, a user does, a mutation closes) and one per action on top of
them. Part 4 combines them.

`ProjectQueuePromises` strengthens `Inductive` to `QueueInductive`, which TLC
checks in `queue_edits`, and proves

- `QueueIsInductive`: `Spec => []QueueInductive`,
- `FileKeepsUp`: `Spec => []FileFollowsMemory`,
- `AdmittedItemsKeepTheirSession`: `Spec => []AdmittedItemKeepsItsSession`,
- `DispatchingItemsAreOwned`: `Spec => []DispatchingIsOwned`,
- `DeliveriesAreCounted`: `Spec => []RedeliveriesExplained`,
- `BacklogsWait`: `Spec => []BacklogWaitsForUser`,
- the action properties `UsersGoFirst`: `Spec => UserStartWins`,
  `ReadinessIsProved`: `Spec => ReadinessProved` and `ResumesReachOthers`:
  `Spec => ResumeReachesOthers`.

What each needs is a conjunct of its own, in `ProjectQueue` under "Why the
promises are kept". The session of an admitted item is safe only if the file
and what a failed save would restore agree with the memory: a crash or a
rollback brings those back (`SessionsKept`, `TargetsFollow`, `UndoExact`), and
what a run judged at its dispatch must still be true when the admission returns
(`AdmissionsFit`). `ClaimsOwned` names where the run of a dispatching item is.
`DeliveriesCounted` bounds the deliveries of an item still in memory by the
crashes and the launches that failed after delivering, unless its run is about
to remove it, so that neither a second run nor a retry delivers it again before
the next of either. `BacklogHeld` says that no run
at all exists until the user acts, and `ReadinessKnown` that a snapshot under
the current key was earned since that command was set. `ResumesAnnounced` tells
a pending resume from a pause.

Part 1 says what each mutation does to the records and Part 2 that memory and
file keep `StoreKept`. Part 3 has one lemma per kind of step: around the queue
(`StillKept`), a run that goes on (`RunGoesKept`) or opens a mutation
(`RunOpensKept`), a user's mutation (`UserOpensKept`), one that closes
(`ClosesKept`). Parts 4 to 6 have one lemma per action, Part 7 the invariants.
Part 8 shows that only the run's own second idle check begins an unforced
dispatch (`DispatchIsRechecked`), from which the first two action properties
follow.

### Session creation

`SessionCreationProofs` proves

- `CreationInvariant`: `Spec => []CreationConsistent`,
- `TypesHold`: `Spec => []TypeOK`,
- `NoReplay`: `Spec => []NeverReplayed`,
- `RetriesAreSafe`: `Spec => []OnlyRefusedAreRetried`,
- `CreationRefinesLedger`: `Spec => ImplementsLedger`,
- `ProofIsFinal`: `Spec => ConsumedIsFinal`.

That an effect happens once is not inductive. `CreationConsistent` says why it
holds: a call past its dispatch works under the current attempt and under
generation 1, and while it is before its effect the state is still
`dispatching` and nothing was launched (`RunsHoldTheirFence`); there is one
such call per creation (`OneDispatcher`), because dispatching needs a waiting
attempt of generation 0 and makes it neither; a superseded attempt is refused
and undelivered (`OnlyRefusedAreRetried`); state, delivery and generation of a
row agree (`RowsAreConsistent`); calls and queue entries work only on attempts
of the running server, so that no recovery, which spares that server's own,
meets an attempt in somebody's hands (`WorkIsThisServers`); and what was
launched stays among the states that may have had an effect
(`OwnersAreLaunched`).

Part 1 proves what each store operation does to the rows and to what the
server reads of them, `Now` and `Home`. Part 2 proves that each step keeps the
server's half, from one lemma per kind of step (calls end, a call moves, an
attempt is made, an owner acts) and one per action. Part 3 has the invariants.
Part 4 shows that every step is one native effect of a dispatched attempt or
leaves `launches` alone and rewrites rows in one of four shapes, each of which
is a move of the ledger's cards under the refinement mapping `PhaseOf`. Part 5
follows the same shapes for the proof of consumption.

`SessionNativeProofs` proves on top of it

- `NativesAreNotStolen`: `Spec => []NativeBelongsToItsSession`,
- `AllocationsCoverDoubt`: `Spec => []AllocationCoversDoubt`,
- `EvidenceStaysTrue`: `Spec => []EvidenceIsTrue`.

The three need each other and `NativesAreOurs`: discovery takes only files
whose scope has no allocation and that no row is bound to, so a native of ours
is safe while its creation is bound to it or, before that, while its
allocation covers the scope, which is what `AllocationCoversDoubt` says of
every attempt that may have launched; and a provider takes a message only after
it made its native. Part 1 says what each operation of the store does to allocations
and evidence, Part 2 treats the steps that make a native session or find one,
Part 3 all the others.

`SessionWorkProofs` proves

- `NoWorkIsForgotten`: `Spec => [](~PidReuse => SomeoneAnswers)`,
- `OwnedOutcomesStayOpen`: `Spec => []OwnedIsNotUncertain`,
- `WorkersStayBounded`: `Spec => []WorkersBounded`,
- `CreationIsInductive`: `Spec => []CreationInductive`, the conjunction of
  `CreationConsistent`, `NativesConsistent` and `WorkConsistent`.

`Answered` says who has an attempt by how far it is: while it waits, a call or
the queue; once dispatched, the one call that dispatched it, or the process it
left watched, until it is bound and its message consumed. A step that takes
the attempt from its holder settles it, hands it on or watches it: a holder
reports the loss under the fence of the launch, which `OwnersCarryTheirFence`
keeps current, so the report cannot come too late; and a call that was
accepted for an attempt that still waits has the generation the attempt waits
with (`AcceptedInTime`), so its dispatch cannot be refused as stale. Where a
pid may be given to another process, a dead server's attempts may look like
the running server's and `SomeoneAnswers` is false; the theorem says so in its
hypothesis. `OwnedIsNotUncertain` holds because outcomes become uncertain in
three ways only (`StepDoubts`): at a startup, of another server's
attempts; by the call that owns the start; or by the exit of a watched owner.
That workers stay bounded needs, beside the count, that starting calls and
registered processes are finitely many, which is why `WorkersCounted` has the
finiteness of both: a step adds at most one place, and adds one only where
`AtCapacity` found room (`RoomForOne`); a start that becomes a registered
process, or is replaced by the one it left, keeps its place.

TLC checks `CreationInductive` in `creation_restart` and the refinement in
`creation_calls`.

### Remote access

`RemoteAccessProofs` proves

- `RemoteStaysConsistent`: `Spec => []RemoteInductive`,
- `RemoteTypeCorrect`: `Spec => []TypeOK`,
- `PairingStaysExact`: `Spec => []PairingExact`,
- `FramesNeverCross`: `Spec => []FramesStayInPair`,
- `OneRegistrationAtATime`: `Spec => []OneRegistration`,
- `WaitingStaysRegistered`: `Spec => []WaitingIsRegistered`.

That frames stay in their pair needs to know where they are: `FrameSources`
says that what is under way upwards was written by that connection, that what
was read on a connection and what is under way to it is all of one source, the
other end of its pair while it has one, and that a connection not yet claimed
carries nothing. `Bookkeeping` ties the closures of the relay's handlers to the
tables (a connection of a pair is claimed, the waiting one is not and still
has its end), `Ownership` ties the service's variables to the life of its
sockets. Part 1 is about messages and sequences of them, Part 2 about what one event
does to the connections, Part 3 about the frames, Part 4 has one lemma per
event, Part 5 what the service and the relay know of a registration, and Part 6
the theorems. That a waiting service is the registered one needs to look ahead:
`RegistrationIsKnown` says it also of a confirmation that is still under way,
so that the service may trust what it reads late. The relay keeps a
registration it confirmed, pairs it, or closes the connection that carries it
(a replacement, a ping without answer), whatever order the ends of older
connections arrive in. TLC checks `RemoteInductive` in `relay_pairs`.

### Local stream

`LocalStreamProofs` proves

- `StreamStaysConsistent`: `Spec => []StreamInductive`,
- `ReconnectingStaysDriven`: `Spec => []ReconnectingIsDriven`,
- `SubscriptionsStayCarried`: `Spec => []SubscriptionsAreCarried`.

That a reconnecting source is driven is not inductive: an attempt is among the
drivers only while its promise will settle (`AttemptIsPending`), a timer only
if its handle is the one that fires (`TimersAreHeld`), and out of retries only
with the budget spent (`WaitingIsExhausted`); a connected manager has a socket
(`ConnectedHasSocket`), and sockets, promises and subscriptions refer to each
other truthfully (`SocketsAreTracked`). Part 1 says what each method of the
manager keeps of one record, Part 2 what a handler does to the sockets and the
subscriptions, Part 3 has one lemma per event, and Part 4 the theorems. TLC checks `StreamInductive` in `stream_recovery`.

### Session activation

`SessionActivationProofs` proves

- `SessionInvariant`: `Spec => []SessionInductive`,
- `SessionOneProvider`: `Spec => []OneProvider`,
- `SessionActivationIsLaunch`: `Spec => []ActivationIsLaunch`,
- `SessionNoOrphan`: `Spec => []NoOrphan`.

`OneProvider` says that there is one provider while every launch so far obeyed
one of two rules: it came from the configuration queue (`queueOnly`), or it
looked at the owner and then took the activation (`promiseOnly`). Under each
rule the argument is another one, which is what the two halves of the invariant
are: transitions run one at a time, and one that tears its process down leaves
no other behind (`UnderQueue`); every launch holds the activation, and a resume
about to take a free one found nobody (`UnderPromise`). Both give `Single`, one
launch or one process to find. Around them, `CallShape` says which request can
be suspended where, `LaunchesApart` that a launch has its process for itself,
`OneTransition` that the queue serializes, and `ActivationIsLaunch` that a
promise somebody waits for will settle.

Part 1 is about records and tables, Part 2 about steps that neither begin nor
end a launch, Part 3 about launches, Part 4 has one lemma per action, and Part
5 the theorems. TLC checks `SessionInductive` in `session_calls`.

## Model-checked only

Liveness (`RunsSettle`, `BlockedAttemptReturns`, `CreationsSettle`,
`ServerReturns`, `SpokenIsSettled`, `Recovers`, `WaitsEnd`) cannot be proved
with the installed provers. Every other property of a passing run is a theorem.

Six properties are stated conditionally because the code does not keep them
otherwise.

- `DispatchingIsOwned` assumes that no save failed: a claim whose save fails
  leaves its item marked dispatching without a run.
- `BlockedAttemptReturns` excepts three cases in which the attempt is forgotten.
  `topics/project-queue.md:158-161` says that "the scheduler keeps a bounded
  retry armed while backlog remains so decaying liveness or external-ownership
  evidence cannot leave the Project Queue inert forever"; the code loses that
  retry, until some other event of the project, when Start now for an item that
  is gone clears the timer and finds nothing to run
  (`ProjectQueueScheduler.ts:539`); when a mutation fails and is not rolled back
  (the save of a resume, which leaves the queue running in memory, or an
  attachment cleanup that throws), so that its event is never emitted; and when
  an item is moved to the top of a project that has nothing to promote just
  then (its queue paused, or a failed item at its head), because a "reordered"
  event only disarms (`ProjectQueueScheduler.ts:594-609`). The actions that do
  this (`StartNow`, `Failure`, `UserFrame`) take the project out of `blocked`.
- `CreationsSettle` assumes that pids are not reused.
- `ServerReturns` is about the peer route (`Strict`). On the app's own route a
  link that falls silent between the service's request and the relay's answer
  leaves the service "connecting" or "registering" for ever: there is neither a
  handshake timeout nor a registration deadline, and the keepalive begins with
  the registration. The head of `RelayClientService.ts` (6-10) promises a
  persistent waiting connection that reconnects by itself, without that
  qualification.
- `Recovers` excludes uploads that overlap without a gap, which suppress the
  health check for as long as they do.
- `OneProvider` assumes that the launches followed one rule; the next paragraph
  says where they do not.

What the models show besides, without a property: of the queue, that
`collectProcessBlockers` and the list of external sessions are read before the
awaits of the idle predicate, in the second check too, so that a turn or another
program that starts during them does not stop the promotion. Of session
activation, that a second provider may start where
`OneProvider` makes no promise: a restart for a configuration change records no
activation, so that a resume beside it sees nothing; `processQueue` asks neither
the activation nor the owner; resumes that wait for the same failing launch are
woken together and each starts its own; a resume that awaited a setting or a
message does not look again before it launches. Also, a launch that fails after
its provider started, and whose abort fails too, leaves a provider that nobody
tracks, and a process that ended before `registerProcess` is registered all the
same and holds a worker until the next look. In the local stream, a terminal
close cancels the back-off timer and not the pong timer of a wake ping, whose
expiry starts reconnecting. Also there, `reconnect()` forgets a connect that a
demand started and opens a second socket beside it; both may open, and the
older one is nobody's but keeps its handlers, so that its late close ends the
subscriptions of the newer. A 4xx answer to one subscription marks the whole
source disconnected, which turns its health checks off. `stop` does not reset the count of attempts.

## Not modelled

Everything the component list marks so. Of the Project Queue itself: limited
users and their policies, message text, attachments and their staging, the
notices shown to users, exact delays, the concurrency limit of the readiness
checks. Of session creation: resumed sessions, which share the worker queue,
`delete` and `markDelivery`, which nothing calls, and the abstractions named
above. Of remote access: several user names and channels, the limiter's count
per address, origin policy, the circuits of the mux, the secure protocol above
a frame and its answer, and `updateRelayConnection` (`index.ts`), which awaits
the settings before it stops and starts the service, so that two changes may
be applied in the other order. Of the local stream: the frames, requests and
uploads on the socket.

Of session activation: hosted sessions, which refuse to be restarted, the
pending saves of launch settings, the preemption of other sessions' workers,
and the messages themselves.

## Plan

1. Project Queue and session creation: done.
2. Remote access: done, except the mux.
3. Local stream: done; the relayed connections of `SecureConnection.ts`, which
   join the attempt in flight, are its sibling.
4. Session activation: done for one session; next the message queue, viewer
   lifecycle, provider host.
5. Proofs: every safety and action property that a run checks is a theorem;
   the components still to be modelled bring the next ones.
