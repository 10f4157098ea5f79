# WebPDA in TLA+

WebPDA gives web pages access to the process variables (PVs) of a control
system: a Java server holds the PVs and sends their events and values over
WebSockets; a JavaScript library shows them to the page as `PV` objects. This
directory models the parts of it where threads, messages and failures meet,
checks them with TLC, and proves theorems about them with TLAPS.

In the paths below, `core/` is
`src/server/org.webpda.server.core/src/org/webpda/server/core/`, `cs/` is
`src/server/org.webpda.server.datainterface.cs/src/org/webpda/server/datainterface/cs/`,
`war/` is `src/server/org.webpda.server.jsr356.war/src/org/webpda/server/war/` and
`webpda-lib/` is `src/server/org.webpda.server.jsr356.war/WebContent/webpda-lib/`.

## The system

| Component | Source | State it keeps | Operations |
|---|---|---|---|
| Outgoing path of a session | `core/clientcommand/ClientSession.java` | `messageQueue`, `polling`, `currentQueueBytes`, `bufferSize`, `isOpen` | `send`, the sending loop of `initWorkingThread`, `close`, the write of `ping` |
| Heart beat, session registry | `core/ServerHeartBeatThread.java`, `core/ClientSessionManager.java`, `ClientSession.ping`, `core/clientcommand/PongCommand.java`, `war/WebPDAWSServer.java` | `listeners`, `sessionRegistry`, `pingCount`, `pongCount`, `retryCount` | `onOpen`, `onClose`, a beat, `ping`, `setPongCount`, `close` |
| PV commands of a session | `core/clientcommand/*PVCommand.java`, `ClientSession.addPV/getPV/removePV/close` | `pvMap` | CreatePV, ClosePV, PausePV, SetPVValue |
| PVManagerPV | `cs/pvmanager/PVManagerPV.java`, `PVManagerPVFactory.java` | `pvReader`, `pvWriter`, `listeners`, `startFlag`, `writePermission`, `value` | `start`, `stop`, `internalStart`, `addListener`, `setPaused`, `setValue`, `setWritePermission`, `getDeltaChangesValueFrame` |
| Login and permissions | `ClientSession.login/logout`, `core/security/` | `userSecurityContext`, the JAAS logins that are held | Login, Logout, `hasPermission`, permission events |
| Delta encoding, decoding | `cs/VTypeJsonHelper.java`, `core/datainterface/ValueFrame.java`, `webpda-lib/webpda-cs.js` | the last value encoded, the last value decoded | `vTypeToValueFrame`, `addValue`, `processJsonForPV`, `processSingleValueBinary` |
| JavaScript client | `webpda-lib/webpda-core.js`, `createPV` of `webpda-cs.js` | `websocket`, `isLive`, `pvArray`, `internalPVArray`, the PVs of each internal PV, the on-open callbacks | `createPV`, `close`, `setPaused`, `setValue`, `login`, `logout`, the handlers of the WebSocket, timers |

How they interact. One container thread per connection runs the commands of
the client one after another. All PVs of all sessions share one notification
thread, on which PVManager calls the listeners; a listener calls
`ClientSession.send`. `send` fills a bounded queue, which a loop in a thread pool
empties into the socket. One heart beat thread pings all sessions. Any of these
threads may close a session. The threads share atomics, volatile and plain
fields, and the monitor of the session. In the page, handlers run one at a
time, but each calls the page's callbacks in loops, and a callback may call the
library again. The library does not connect again: a client whose socket has
closed stays closed.

What is hard: the order of messages, a queue at its limit, a loop that stops
while a message is offered, an exception in a loop, pings and late pongs, a
peer that does not read, a session that is closed while it is opened, pinged or
given a PV, a PV that is stopped before it has started, a permission that two
threads compute, a delta against a value that was never sent, callbacks that
change the arrays they are called from, PVs that share a channel and are paused
and closed one by one. `PROJECT.json` lists these hazards at their lines, with
the properties that cover them.

What makes each component correct:

- outgoing path: what is accepted is delivered once, in order, as long as the
  session lives; a full queue or a lost socket closes the session;
- heart beat: exactly the silent clients are given up, all clients are pinged,
  sessions leave the registry;
- PVs of a session: what is in the map runs and is usable, what has left it is
  released, commands end, listeners know the state of the connection;
- permissions: the flag of each PV is the right of the user, the client is told
  of it, no login is held longer than its session;
- deltas: decoding gives the value that was encoded;
- client: the PVs of the page and the PVs of the server agree on what is
  created, paused and closed; commands meet their PV; each PV of the page hears
  its channel.

## Modules

| Module | Models |
|---|---|
| `Channel` | abstract: an ordered channel that may break |
| `SendQueue`, `MCSendQueue` | the outgoing path of one session |
| `SendQueue_proofs` | theorems about `SendQueue` |
| `HeartBeat`, `MCHeartBeat` | the heart beat thread, the registry and the sessions it pings |
| `HeartBeat_proofs` | theorems about `HeartBeat` |
| `PVLifecycle`, `MCPVLifecycle` | the PVs of one session and the threads that use, start and stop them |
| `PVLifecycle_proofs` | theorems about `PVLifecycle` |
| `WritePermission`, `MCWritePermission` | the user of a session and the write permission of its PVs |
| `WritePermission_proofs` | theorems about `WritePermission` |
| `Subscriptions` | abstract: what client and server promise each other about PVs |
| `Subscriptions_proofs` | theorems about `Subscriptions` |
| `WebClient`, `MCWebClient` | the JavaScript client, its page, and the session it talks to |
| `WebClient_proofs` | theorems about `WebClient`: types, the PVs and internal PVs of the client |
| `WebClientServer_proofs` | theorems about `WebClient`: client and session together, the refinement of `Subscriptions`, the loops over PVs |
| `ValueStream`, `MCValueStream` | the values of a PV, encoded as deltas and decoded |
| `ValueStream_proofs` | theorems about `ValueStream` |

`PROJECT.json` ("map") names for each definition the lines it stands for. An
operator described in its comment as a mutant is a plausible bug: put in the
place of the definition that follows it, it makes the property that
"mutants" names fail. No specification uses it.

### SendQueue

One action per access to shared state. A sender (the container thread, the
notification thread) goes through `spc`: test of `polling`, `initWorkingThread`,
the read and the write of `currentQueueBytes += size`, the two tests of the
limits, `offer`, `close`. A worker goes through `wpc`: the test of `isOpen`,
`poll`, the test of the socket, the write, `currentQueueBytes -= size`,
`polling.set(false)`, the last test of the socket. `monitor` is the monitor of
the session: `close()` keeps it for its three effects on this state, `ping()`
over its write. `seen` is the register of `+=` and `-=`. A write may throw
(`WriteMayThrow`): the `catch` block then ends the loop and leaves `polling` as it
is. `accepted` and `wire` are histories. Messages are numbered per sender and have a size.

`Channel` promises what a sender may rely on: what is accepted is delivered in
that order, each message once, none skipped while the channel is open; a broken
channel may lose messages from either end of what is pending. `SendQueue`
implements it with `open <- isOpen /\ socket /\ ~Wedged` and `pending <-` the
message in a worker's hand, followed by the queue.

### HeartBeat

Several sessions. `onOpen` is two steps, since the constructor shows the session
to the heart beat thread before `registerPeer` puts it in the registry.
`close()` is four steps under the monitor, which `ping()` holds for its write.
The thread iterates over `todo`, the snapshot of `CopyOnWriteArrayList`, in the
order in which the listeners were added (sessions are numbered in that order).
It waits at the monitor of the session at hand, and the sessions behind that one
wait with it (`Pings`). Clients
answer the pings they get in order, late or never (`written`, `answered`,
`ponged`), and disconnect at any time. `silent` is a history: pings since the
last pong. Beats between two pings (`PING_FREQUNCY` is 10) are not steps.

### PVLifecycle

The container thread (`cmd`, `cpc`) runs commands, the notification thread
(`task`, `npc`, `tasks`) runs `internalStart`, the events of PVManager and the
updates for later listeners, a third thread closes the session. `stop()`
(`stopPC`) runs under the session's monitor on behalf of ClosePV or `close()`.
`field` says whether `pvReader` and `pvWriter` are null, `handle` what PVManager
keeps open behind them; testing a field and using it are two steps, and `failed`
are the PVs for which a method has found null at the second. `told` is
what each listener has last sent to the client of the connection. PVManager is
external: it posts events of open readers that are not paused, one of each kind
in flight, and runs them on the notification thread.

### WritePermission

The container thread runs `login()`, `logout()` and CreatePV; `loop` is what its
loop over `pvMap` has still before it, and each PV takes the steps of
`setWritePermission()`: the old permission, the field, the comparison, then
computing and sending in `writePermissionChanged()`. The notification thread
computes and sends for PVs whose write connection has changed. `close()` is four
steps on another thread: the PVs and the map, the registry, the user's logout,
forgetting the user. Writers exist from the moment an event can tell of them; a
login is a number, `writers` those whose user may write, `held` those that JAAS
has not been told to log out. What an authentication or an authorization lookup
answers is a free choice.

### WebClient and Subscriptions

`WebClient` has the page, the library and the session at the other end. The
page creates PVs, pauses, resumes, writes and closes them, logs in and out,
adds and removes on-open callbacks and closes the client. What it does with a
client that it has closed throws where the library sends; `createPV()` then
leaves an internal PV registered that has no PV and no id of its own
(`CreateThrows`), which the next PV of its parameters joins and the next internal
PV overwrites (`Slot`, `internalPVID`). PVs made with equal
parameters share an internal PV; `internals[i].myPVs` counts who uses it. A
handler is a loop over an array that callbacks may change while it runs: `todo`
holds what is left of the loops of the running handler, each item an index and
not a member, and the page acts when no handler runs or while it is in a
callback (`inPage`). Commands and events are in order on their ways. The session
executes CreatePV, ClosePV, PausePV and SetPVValue under the user's rights and
sends numbered events. `Habits` says which of the things a page may do and the
library does not expect it does: it uses a PV before its creation has been sent
("early"), closes PVs in callbacks ("callback"), uses the PVs and the client that
it has closed ("stale"), removes an on-open callback while it runs or twice ("oneShot").

`Subscriptions` is the promise: the client wants PVs in a state, commands about
them are pending in order, the server has them in a state. `WebClient`
implements it with `wanted <-` the members of `internalPVArray` and their
`isPaused`, `unsent <- internalPVArray \ sent`, `pending <- toServer`,
`actual <- server`. Commands that concern no PV's state (Login, Logout,
SetPVValue) are `Others` in `Subscriptions`: `Mention` appends one, and taking
one changes nothing.

### ValueStream

One PV and one client. A value has a type, the length of an array, one of two
levels of data (value and time stamp) and of each of its fields (alarm, display
limits, labels). The types are those of the value library on the server
(epics-vtype 2.3), which has neither the VLong nor the VLongArray that the client could read
as doubles; VTable stands for those that the client cannot create. `FrameOf` gives the fields that `vTypeToValueFrame` writes
against the last value; `Encode` is the loop over a period's values with values
that cannot be encoded; `Decode` changes the client's value as
`processSingleValueBinary` does, in place, up to where it throws. Lengths are
kept as far as they matter: the bytes of the binary part (typed arrays must begin
at a multiple of their element's width, messages have whole words) and whether
the JSON part is longer than 32767 bytes.

## Runs

| Run | Properties | Shows |
|---|---|---|
| `send_safety` | `TypeOK`, `NoDuplicate`, `NothingLost`, `NeverWedged` | With two sending threads no message is duplicated, or lost while the session lives, and the polling flag never outlives the loops, if no write on an open socket throws. |
| `send_channel` | `ImplementsChannel`, `WedgedOnlyByThrow`, `FullQueueCloses`, `PeerGoneCloses`, `WorkersReaped` | With one sending thread the path is an ordered channel, full queue, byte limit, exceptions and resizing included; only a write that throws leaves the flag without a loop. If writes return, a full queue or a lost socket closes the session, and a closed session frees its pool threads. |
| `heartbeat` | `TypeOK`, `RetryTracksSilence`, `ListenersAreOpen`, `GivesUpOnlySilent`, `SilentClientClosed`, `RegistryReleased`, `BeatsRegularly` | Only clients that left `MaxRetry` pings in a row unanswered are given up; the listeners are the open sessions; sessions leave the registry, whichever thread closes them. If writes return, a silent client loses its session, and the thread comes to the end of every round, although it waits in `ping()` and at the monitors of sessions that others close. |
| `pv_safety` | `TypeOK`, `Released`, `MappedIsRunning`, `ListenersLearn`, `FailsOnlyWhenGivenUp` | PVs that leave the map are released, those in it run and their commands and events never fail on a null field; listeners know the connection, whenever they were added. |
| `pv_liveness` | `CommandsEnd`, `CloseEnds` | No deadlock between start(), the notification thread, stop() and the monitors. |
| `permission` | `TypeOK`, `FlagFollowsUser`, `PermissionTold`, `LoginsReleased` | The loops of login and logout reach every PV, the client is told the permission it has, logins are released with the session. |
| `client` | `EveryPVTold`, `CommandsFindPV`, `ImplementsSubscriptions`, `EveryPVCreated`, `EventsReachPage` | For a page without habits: client and server implement the promise, commands meet their PV, channels are created, events reach each PV. |
| `client_habits` | `TypeOK`, `Agreed`, `NotSilenced`, `OneChannelEach` | For a page that closes PVs in callbacks, uses PVs and a client that it has closed, and removes callbacks at any time, with two parameter objects and users who log in and out: client and server agree, a parameter has one channel, and nobody who has not paused is silenced. |
| `values` | `TypeOK`, `InStep`, `NeverGarbled`, `ShowsWhole` | Deltas add up to the PV's last value, a value is never read as one of another type, and a message is decoded whole wherever its values stand. |

The other runs are disagreements of the code with what it says of itself
("findings" in `PROJECT.json`); TLC finds the property violated.

| Run | Property | What happens |
|---|---|---|
| `send_lost_wakeup` | `Drains` | a message offered between the last `poll()` and `polling.set(false)` stays in the queue |
| `send_drift` | `CloseOnlyWhenFull` | `currentQueueBytes` loses an update of the loop, and a `send()` on an open session decides to close it though less is held than the limit |
| `send_reorder` | `OrderedTransmission` | the container thread and the notification thread both find `polling` FALSE and start a loop each, and the second message is written first |

### What the properties leave out

Several properties state a condition because the code does not keep more. What
lies outside:

- Two sending threads may both see `polling` FALSE, start two loops and have
  these write in either order (`send_reorder`). The run of `ImplementsChannel`
  has one sending thread; its theorem is for any number of them as long as no loop
  is started while the flag is set.
- After a write that throws on an open socket `polling` stays TRUE and no loop is
  started again: `NeverWedged` and `NothingLost` are checked with writes that do
  not throw there, and `WedgedOnlyByThrow` says that nothing else wedges a session.
- A peer that keeps its connection and reads no more stops the heart beat of all
  sessions, because `ping()` writes without a timeout: `BeatsRegularly` assumes
  `WritesReturn`.
- A session closed before `registerPeer` has registered it stays in the
  registry: `RegistryReleased` is for those that are open then.
- A PV whose creation met the `close()` of its session, or whose `start()` timed
  out, may stay open (`exposed`), and the field of a PV that is being given up
  may be null when it is used (`FailsOnlyWhenGivenUp`).
- When both threads are at one PV, the permission computed first may be sent
  last (`raced`). A login whose authorizations cannot be read, or that `close()`
  meets, is held for ever (`orphans`, `crossed`).
- A PV that joins an internal PV that others have paused is silent until one of
  its PVs is paused or resumed (`joined`). A callback that closes its PV makes the
  loop skip the next sibling: `EveryPVTold` and `EventsReachPage` are for pages
  without that habit. An on-open callback removed while `fireOnOpen()` runs makes
  that loop skip the next one, which may be the creation of a channel: `EveryPVCreated`
  and `NoneUnsent` are for pages without the habit "oneShot". A page with the
  habit "early" can leave an internal PV with no PVs, since sending throws before it
  is deleted; and an on-open callback of its own that comes before the one of
  `internalCreatePV()` sends PausePV, ClosePV or SetPVValue before the CreatePV, so
  that the command meets no PV and is lost: `OneChannelEach`,
  `Agreed`, `CommandsFindPV` and the refinement are for pages without it. After
  `createPV()` of a closed client has thrown, the next internal PV may take the
  place of one that has PVs: that each PV has its internal PV in `internalPVArray`
  is part of `OneChannelEach` only until the page closes the client.
- A change of the upper display limit alone never reaches the client:
  `writeDisplayToJson()` compares the upper alarm limit in its place
  (`cs/VTypeJsonHelper.java:198`, `ComparedWith`). `InStep` and `ShowsWhole` leave
  that limit out.
- A value that could not be encoded, or a message that could not be decoded, is
  `dropped` or `missed`: the client is in step again with the next value that
  comes with its type. That concerns a JSON part of more than 32767 bytes: its
  length has 4 bytes and the client reads 2, with a sign. Of an empty array only
  the length is compared. A PV has one listener per client here, as the client
  asks for: a second would share the last value and get deltas of what it has not
  seen.

### Bounds

- `SendQueue`: two workers, since a third loop needs a third sender or a loop
  that has stopped, and the second already shows every conflict of two loops;
  a queue of 2 (in the code 10240) and 3 or 4 messages, so that the queue is
  full while a loop has one in hand, and overflows; `FewMessages` is the literal 5 of `send()`, 1 or 2
  here, so that the byte limit applies; sizes 1 and 2. In `send_reorder`
  one message of each of two senders suffices.
- `HeartBeat`: two sessions, so that one can hold up or be closed during the beat
  of the other; `MaxRetry` 1 (in the code 12), so that a client falls silent
  before and after its first pong, and is given up with pongs on their way; the
  theorems cover every other value. A client answers at most `MaxAnswers` pings.
- `PVLifecycle`: two PV objects and three commands: a PV created and closed while
  another lives, an id created twice, a second listener on a paused or connected
  PV; one or two events of the control system for the PV that may be written, a
  connection and its loss.
- `WritePermission`: two PVs, three logins, five commands and two events: a user
  after another on PVs that connect while the loop is at them; the theorems cover
  every other value.
- `WebClient`: in `client` two parameter objects and two PVs, so that PVs share a
  channel or do not, two calls and one event of each; in `client_habits`
  three calls, so that a user who has logged in pauses and resumes or closes. Two
  PVs are one that a callback removes and the one that the loop then skips, and two
  parameter objects show a creation that throws, is joined, and is overwritten by
  another. The four properties of that run are theorems for all other bounds. The
  users may do everything once they have logged in, and nothing before or after.
- `ValueStream`: four values, two of them in one message if buffered, of twelve
  or so that differ in type, width, one field, length and text: two deltas follow
  a value of another type, and each width follows each other.

Symmetry is used in `send_safety` (senders of the same size, workers),
`pv_safety` (ids), `permission` (PVs) and `client_habits` (parameter objects), which
check invariants only.
`CHECK_DEADLOCK FALSE` is in every configuration, because the systems may stop:
a closed session does nothing more, and the bounds end every behaviour.

### Fairness

Weak fairness of the threads that the code starts and that nothing parks
forever: the senders inside `send`, the loops, the heart beat thread, a thread
inside `close`, the container thread inside a command, the notification thread.
In `WebClient` the browser runs handlers and timers to their end, delivers what
has arrived and closes a socket that is closing, and the server executes
commands. No fairness of the environment: nobody has to connect, send, answer,
disconnect, close, or change a PV, and the page need not act. Whether a blocking
write to a peer returns is a separate assumption (`WritesReturn` in `SendQueue`
and `HeartBeat`), part of `FairSpec`: the blocking writes of `javax.websocket`
that the code uses have no timeout (`setAsyncSendTimeout` concerns the others).
The monitor is one more reason why `FullQueueCloses` needs it: `ping()`
holds it over its write, and `close()` waits for it. That `start()` times out
needs no fairness either.

## Theorems

All of them hold for every value of the constants that satisfies the named
assumptions in the modules (and, where a theorem has one, its own), so for any number of sessions, senders, loops,
messages, PVs, commands and logins and any size of the queue.

`SendQueue_proofs`:

- `Typing`: `TypeOK` is an invariant; it is inductive as it stands.
- `WedgedOnlyByThrowHolds`: `WedgedOnlyByThrow`, with any number of sending threads
  and whether or not writes throw. The proof follows who will reset the flag: if
  `polling` is TRUE, some loop is still before its `polling.set(false)`, and every
  step but a throwing write keeps that (`FlagCovered`).
- `NoDuplicateHolds`: `NoDuplicate`, with any number of senders and loops. The
  property becomes inductive with one fact: whatever is in the queue, in a hand or
  on the wire has been offered, so that the message a sender is about to offer is
  in none of the three places.
- `NothingLostHolds`: `NothingLost`, which is inductive together with the fact that
  `close()` clears the queue only after it has set `isOpen` to FALSE.
- `FreshImplementsChannel`: `SendQueue` implements `Channel` in every behaviour in
  which `initWorkingThread()` never starts a loop while the flag is set
  (`StartsFresh`), for any number of sending threads. The code does not keep
  `StartsFresh` with two of them: the theorem says that this one race, the one of
  `send_reorder`, is all that stands between the code and an ordered channel. The
  inductive invariant says that at most one loop stands before
  `polling.set(false)`, and that nothing is left in a hand beyond it. With one
  sending thread `StartsFresh` holds (`OneSenderStartsFresh`).
- `FreshOrdered`: `OrderedTransmission` in the same behaviours, even after a write
  that throws.

`HeartBeat_proofs`:

- `Typing`: `TypeOK`.
- `RetryTracksSilenceHolds`: the equation between `retryCount` and the unanswered
  pings. Its strengthening relates `pongCount`, `pingCount` and the pongs
  handled, so that the test `pongCount < pingCount` is known to be true from the
  second ping on.
- `GivesUpOnlySilentHolds`: the action property, from that equation.
- `ListenersAreOpenHolds`: exactly the open sessions are listeners.

`PVLifecycle_proofs`: one inductive invariant `IInv` carries `Typing`,
`ReleasedHolds`, `MappedIsRunningHolds` and `FailsOnlyWhenGivenUpHolds`, and with
`LInv` beside it `ListenersLearnHolds`. Its parts say
why the two threads that a `PVManagerPV` has do not undo each other's work although
its fields are not guarded by one monitor: `start()` is queued once for a PV, by the
command that created it (`Once`, `NewOnes`), and that command occupies the container
thread until the start is over, so that neither `removePV()`, which needs the same
thread, nor `close()`, unless the PV is exposed, calls `stop()` in the middle
of it; what is open therefore has its field set, `startFlag` TRUE and a
place in the map, which is what `stop()` needs to find it (`Closable`); and while
the session is open only `removePV()` stops a PV, which by then nobody else's id
leads to (`Mapping`, `Uses`, `Serves`). None of the properties is
inductive: they speak of moments at which no thread is at work on the PV.
`LInv` follows every listener of a running PV in between (`Learning`): it has been
told what the connection is, or a task that will tell it is in the queue or at hand,
or `addListener()` has yet to decide whether to queue one. `StartUnderwayHolds` is
the safety half of `CommandsEnd`: the task of a `start()` that waits on its latch
is in the queue, at hand on the notification thread, or done (`Underway`). No run
checks `StartUnderway`, which is defined next to its theorem. A PV whose reader is
created only then has never been connected, and no second `start()` replaces its
reader (`Starts`); and an event is always for all listeners (`ToAll`).

`WritePermission_proofs`: one inductive invariant `IInv` carries `Typing`,
`FlagFollowsUserHolds`, `PermissionToldHolds` and `LoginsReleasedHolds`. It divides
the PVs of the session into those that the loop of login or logout has visited,
whose flag is the new right, and those before it, whose flag is the old one; and
it says of each PV where the news of its permission is: told, in the hands of one
of the threads, or still an event. `PermissionTold` alone is not inductive: a
login leaves it false in the middle of its loop.

`Subscriptions_proofs`: `AgreedHolds`, with `Typing`: when no command is on its way
the server runs what the client wants. The invariant is what makes that true in
time: for every PV, the last command on its way about it, or with none its state
on the server, is what the client wants of it.

`WebClient_proofs` and `WebClientServer_proofs`: for any number of PVs,
parameter objects, calls, events and users. The theorems assume of `Habits` what
the properties need, and the section on what the properties leave out says what
goes wrong otherwise; all but `Typing`, `NotSilencedHolds` and `NoneUnsentHolds`
assume that the page uses no PV before its CreatePV has been sent
(`"early" \notin Habits`).

- `Typing`: `TypeOK`, for any page. Its strengthening bounds the indices that
  the loops in `todo` hold by the lengths of the arrays they will be used on.
- `OneChannelEachHolds` and `NotSilencedHolds`, creations that throw in a closed
  client included: the lists `myPVs` of the internal
  PVs partition the PVs of the page, and an internal PV is paused only if all
  its PVs are, or joined when it was. The invariant is `ChannelInv`:
  `Socket` (what `websocket`, `isLive` and the state of the socket say of each
  other), `Channels` and `Awake`, that no internal PV is paused before the connection
  opens. Until the page closes the client, every internal PV has an id and each
  PV's is in the array (`Numbered`). It is inductive for any page, and so `NotSilenced` needs no assumption on
  `Habits`; only that no internal PV is left empty is for pages without "early".
- `AgreedHolds`: the same statement as in `Subscriptions`, of the code: whatever
  the page closes in callbacks, uses after closing it or removes while it runs.
  The invariant `ServerInv` says which internal PV has been sent and which waits
  for an on-open callback (`Registered`, `Listeners`), that the callbacks whose turn
  in `fireOnOpen()` is still to come have sent nothing (`Calling`), and, for each
  internal PV, that nothing is said of it before its CreatePV, which comes once and
  first, and that the last command about it, or the server, agrees with the
  client (`Settles`). Of a client that the page has closed it says nothing more if
  the page goes on using it (`Steady`): nothing is sent then.
- `CommandsFindPVHolds` and `Implements`, for a page without the habit "stale" as
  well: every command on its way that uses a PV comes after its CreatePV and before
  its ClosePV (`Guarded`), so it meets the PV unless the server refused it; and each
  step of client and server is a step of `Subscriptions` or leaves its state alone.
- `EveryPVToldHolds`, for a page without "early", "callback" and "stale": a PV that
  does not know the last event of its internal PV has a turn to come in the loops
  of the running handler (`Telling`). The turns are indices of an array, so the
  invariant counts the PVs that stand before this one (`Rank`).
- `NoneUnsentHolds`, for a page without "oneShot": the safety half of
  `EveryPVCreated`: between two handlers of an open connection every channel has
  sent its CreatePV (`NoneUnsent`, which no run checks). While the socket connects, each channel has a callback in the
  array and no removal is scheduled; once it is open, a channel that is not sent has
  a turn to come in the loop of `fireOnOpen()`, whose keys still lead to its
  callback (`Waiting`). Timers and the page remove callbacks only when that loop has
  ended, and `createPV()` adds them only while the socket connects.

`ValueStream_proofs`: for any set of values, any batches and any number of
messages on their way.

- `Typing`, `InStepHolds`, `NeverGarbledHolds`: the invariant says that the frames
  of a message carry its values, each on top of the one before (`Sound`), that the
  first frame of a message follows the last value of the message before it or what
  the client shows (`Chain`), that the PV's last value is at the end of that chain
  (`Latest`), and that the client's value is of a type it can create (`Clean`).
  `InStep` leaves the upper display limit out, which the code does not send when it
  has changed (see above).
- `ShowsWholeHolds`: the action property, from the same invariant and the
  arithmetic of the offsets at which typed arrays may begin.

The loops over the frames of a message are recursive functions there (`Encoding`,
`Offset`, `Decoding`). That these functions exist and what they return after
each frame is proved by induction over a set of numbers (`Least`, `Induction`,
`Recursion`), because the induction theorems of the library take an operator as a
parameter, which the provers cannot instantiate.

Only model-checked: the liveness properties `FullQueueCloses`, `PeerGoneCloses`,
`WorkersReaped`, `SilentClientClosed`, `RegistryReleased`, `BeatsRegularly`,
`CommandsEnd`, `CloseEnds`, `EveryPVCreated` and `EventsReachPage`, since fairness and
ENABLED are beyond the prover, and `NeverWedged`, which assumes that writes do
not throw: `WedgedOnlyByThrow`, proved without that assumption, says more. Every
other property of the passing runs is a theorem; that of `ImplementsChannel` is
for the behaviours that start their loops fresh. Of the properties that the
code violates only `OrderedTransmission` has a theorem, `FreshOrdered`, which
names the race that breaks it.

## Plan

Done: `SendQueue`, `Channel`, `HeartBeat`, `PVLifecycle`, `WritePermission`,
`Subscriptions`, `WebClient`, `ValueStream`, and the proofs above. Left:

1. the safety half of the other liveness properties (done: `CommandsEnd`,
   `EveryPVCreated`): that whoever waits waits for a thread that can run;
2. what holds of client and server for a page with the habit "early" beside
   `Typing`, `NotSilenced` and `NoneUnsent`.

## Not modelled

- JAAS login modules, LDAP and file access (`core/security/*LoginModule`,
  `*AuthorizationProvider`, `UnattendedCallbackHandler`): a lookup without state
  of its own; what it answers is a free choice in `WritePermission`.
- Encoders and decoders of messages (`war/ClientCommandDecoder`,
  `war/ServerMessageEncoder`, `core/servermessage/`): translation of formats;
  messages are opaque, with a size in `SendQueue`, with the lengths of their parts
  in `ValueStream`.
- The values of a VTable, which no type of the client can show; parsing of PV
  names; events of exceptions.
- The callbacks of errors, of the closing of the socket and of server messages in
  the client: they are the last that a handler does.
- `PV.prototype.setValue` of the client: it calls a function `setPVValue` that
  nothing declares and would throw before anything is sent. `SetPVValue` in
  `WebClient` is the method `setPVValue` of the `WebPDA` object.
- Configuration, logging, JSON helpers (`core/util/`).
- Drawing (`webpda-widgets.js`), the demos, and the JavaScript that is not of this
  project: RGraph, dygraph, flotr2, bootstrap, the syntax highlighters and the
  generated documentation, which are more than nine tenths of the JavaScript
  lines in the repository.
- PVManager and the WebSocket container: external; their part in the models is
  what the code relies on.
