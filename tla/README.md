# AudioManager: a verification project in TLA+

AudioManager is a desktop mixer (Tauri: Rust backend, React frontend). Inputs
(microphones, application or system loopbacks, phones over WebRTC) are routed
through a matrix to four output buses (A1, A2, B1, B2), each with its own audio
engine. Phones pair by QR code, stay trusted, and reconnect by themselves.

This directory models the parts whose behaviour depends on the order of things,
in the backend, the desktop window and the phone's page: several threads, devices
and connections that come and go, lock-free hand-overs, awaits, failed writes and
rebuilds, crashes. TLC checks each model on a small instance. TLAPS proves every
invariant and every action property of the passing runs for all instances;
liveness is TLC's.

Source paths below are relative to `src/src-tauri/src/` unless they start with
`src/`. `PROJECT.json` maps each definition to the lines it models.

## Inventory

### Trusted-device store (`net/paired.rs`)
State: a map of devices, `dirty`, `loaded_ok` under one mutex; `write_lock`; the
file; `REVOKE_EPOCH`. Operations: `init`, `upsert`, `forget`, `verify`,
`record_resume`, `flush_if_dirty`, `maintain`. Callers: the command thread
(accept, forget, exit), the `paired-maint` thread, the socket tasks (memory
only). Hard: two writers, a write that fails or is cut off by a crash, a mark
cleared before the write, an unreadable file, a clock that jumps. Right if: a
revocation reported durable is final, a pairing reported saved stays, nothing
unsaved is forgotten, an unreadable file is left alone.

### Phone sessions (`net/session.rs`, `net/server.rs`, phone commands of `lib.rs`)
State: the session registry (state, attached channel, connection epoch, strike
count, two ages), one task per web socket, the phone inputs of the mixer graph.
Operations: hello, trusted resume, accept, reject, remove, forget, sweep,
detach, keepalive. Interaction: tasks and commands share the registry's mutex,
the store's mutex, an atomic epoch and the application lock, and never hold two
but in `remove_input`; commands reach tasks through channels. Hard: a resume
that races a removal, tasks that outlive their session, links that die silently,
early returns. Right if: only accepted phones are live, revoked phones are out
for good, no session stays attached to a task that will not release it, an
accepted phone is never asked again.

### Routing matrix (`lib.rs`, `audio/graph.rs`, `audio/bus.rs`, `state.rs`)
State: the graph (inputs, sends, monitor flags), per bus its configuration,
engine and last error, recorders, metering taps, all under one lock.
Operations: add, remove and replace inputs, sends, monitor, bus device and
enable, presets, the first version's single-output commands. Hard: every rebuild
tears the engine down before it tries the new one; multi-bus commands fail half
way; each command rolls back differently. Right if: engines carry what is routed
to their bus, a refused change leaves no trace, recorders end before engines.

### Hotplug watcher (`audio/device_watch.rs`, `handle_device_diff`)
State: the previous snapshot. Polls every 2 s, takes a snapshot without the
lock, then repairs buses under it. Hard: commands and devices move between
snapshot and repair, and several devices change in one diff. Right if: lost
outputs are released, returned devices used, the rest of a mix kept.

### Audio engine and metering taps (`audio/mixer.rs`, `audio/metering_tap.rs`)
State: one thread per engine with its output stream, input streams and
subscriptions; per input a ring and two dropout counters. Operations: start,
report, drop; push, trim and drain of a block; the meter poll. Hard: a source
that fails half way through a start, callbacks on real-time threads that share a
ring and counters without a lock. Right if: a start fails without a trace or
carries every input asked for under its own number, frames are not torn, every
sample is heard or counted.

### Recorder (`audio/recorder.rs`, tap handling of `audio/mixer.rs`)
State: per recording a ring, a stop flag, counters and a writer thread; per
engine a queue of tap commands. Operations: start, stop, stop all, master,
delete a file, the writer's batches, final drain and finalisation. Hard: the
callback goes on while the writer drains for the last time, a ring may be full
between the two halves of a frame, a stop joins with the application locked.
Right if: a stopped recording is finalised with all it was given, recorders end
before their engine, and every stop returns.

### Shared capture and phone feeds (`audio/loopback.rs`, `audio/remote.rs`)
State: a map from source to capture thread with subscribers; per phone feed the
subscribers, resampler and drift estimate. Hard: first subscribers racing,
eviction of failed captures, joins outside the lock. Right if: each live
subscriber is fed by a running capture, a capture without subscribers stops, and
a fixed latency mode plays at the exact rate.

### Jitter buffer and WebRTC receiver (`net/jitter.rs`, `net/webrtc_peer.rs`)
State: window of frames by extended sequence number, playout position, adaptive
depth. Hard: wrap-around, reordering, duplicates, loss, changes of the latency
mode. Right if: frames play in order, at most once, and a late one is never
played.

### Live DSP parameters (`audio/dsp/live.rs`, `audio/dsp/config.rs`)
State: atomics and a generation counter per parameter set. Hard: a lock-free
publish against a real-time reader. Right if: a reader applies only sets that
were published whole, applies the last one, and what comes on starts afresh.

### Levels, effects and automix groups (`lib.rs`, `audio/graph.rs`)
State: gains, mutes, boosts, effects and groups in the graph and the buses, and
the copy of them each running engine holds. Hard: some commands push to engines,
some rebuild them, some do both; an effect is one command for each bus the screen
shows the input on, and the watcher may rebuild between two of them. Right if: an
engine sounds as the graph says, however long ago it was started, but for effects
the screen did not know it had to be sent.

### Preset and settings files (`presets.rs`, `app_settings.rs`, `audio/recorder.rs`, `net/mod.rs`)
State: JSON files and the Windows start-up entry. Hard: a write that fails or is
cut off at any point, files of an older version or edited by hand. Right if: a
save that fails costs the old preset only between removing it and renaming the
new one, a loaded file brings the inputs, sends, outputs and groups it says, and
a setting that was saved keeps its value unless its file was truncated.

### Phone server and its certificate (`net/mod.rs`, `net/tls.rs`)
State: the running server, three certificate files. Hard: addresses change, and
each file is truncated before it is written, so that a write that fails or is cut
off leaves it torn, beside files of other certificates. Right if: what runs has a
key that fits, on a free port, and names the addresses it was started for if the
list it was chosen by is its own.

### Phone client (`src/src/phone/`), wire protocol (`net/signaling.rs`)
State: a connection machine, a socket with its retry timer, saved credentials,
microphones and a transport. Operations: connect and retry, each message, start,
exchange, mute, stop. Hard: it meets the server's answers in any order, sockets
half of which are gone, and awaits that end after everything has changed. Right
if: the page comes back after a loss, drops only credentials that were refused,
is heard when it says live, and leaves no microphone on.

### Desktop state and undo history (`src/src/components/audio-manager/`)
State: a reducer with optimistic edits, a poll, two stacks of snapshots. Hard:
polls and edits overlap; undo is a series of commands that may fail. Right if:
screen and backend converge, and undo goes back to what was.

### Virtual cable driver (`amvc.rs`, `amvc_sync.rs`)
State: a helper process with its pipe, and the names of four endpoints. Hard:
timeouts, a renaming that breaks off half way, commands that overlap (they run
on the blocking pool). Right if: an endpoint never shows the name of another
bus, a later sync completes the names, and a status is a whole one.

Other parts hold no state worth exploring: device enumeration, endpoint volume
and default device, the audio session list, DSP mathematics, TLS certificates,
UI rendering. The components of `PROJECT.json` list them all.

## Modules

| Module | Models |
| --- | --- |
| `TrustStore` | abstract: what the store of trusted devices promises |
| `PairedStore` | `net/paired.rs` with its threads, lock, file, crashes; implements `TrustStore` |
| `PhoneSession` | registry, socket tasks and phone commands |
| `PhoneClient` | the phone's page: `src/src/phone/` |
| `PhoneLink` | `PhoneClient` and `PhoneSession` with the web sockets between them |
| `PhoneServer` | start of the HTTPS server, its certificate files |
| `PhoneAudio` | packets of a phone from the wire to the feeds |
| `Router` | graph, buses, engines, taps, hotplug watcher |
| `Controls` | gains, mutes, effects, groups: graph against running engines |
| `EngineStart` | start, report and drop of an engine's thread |
| `Feeds` | shared loopback captures |
| `InputRing` | one input's ring between its two callbacks |
| `LiveDsp` | lock-free publish and reload of effect parameters |
| `Recorder` | recordings: commands, callback, writer threads |
| `Presets`, `Settings` | files, with failures and crashes |
| `CableNames`, `CableHelper` | endpoint names and helper process of the virtual cable |
| `Console` | the desktop window: optimistic edits, poll, undo and redo |
| `PairedStoreProofs`, `PhoneSessionProofs`, `PhoneLinkProofs`, `RouterProofs`, `RecorderProofs`, `ConsoleProofs`, `AudioPathProofs`, `DesktopProofs` | theorems |
| `MCPairedStore`, `MCPhoneSession`, `MCRouter`, `MCConsole` | instances for TLC (`PhoneLink` and `Recorder` need no module of their own) |
| `MCAudioPath` | `PhoneClient`, `LiveDsp`, `Feeds`, `PhoneAudio`, `InputRing`, `EngineStart`, one at a time |
| `MCDesktop` | `Controls`, `Presets`, `Settings`, `PhoneServer`, `CableNames`, `CableHelper`, one at a time |
| `MCPhoneClient` | `PhoneClient` alone, with a second tab and three microphones, for the statements listed at the end of "Runs" |

In every module, an operator that ends in `_Bug` is a mutant: a plausible
mistake in the definition next to it, used to see that a property would notice.
A property that is a conjunction has one for each part that could fail by itself.

### PairedStore
An action is one critical section of the state mutex, or one file write. `pc`
and `op` say where each writing thread is: an operation starts with its first
critical section (`Upsert`, `Forget`, `Exit`, `Maintain`), may look at `dirty`
(`CheckDirty`), takes `write_lock`, clears `dirty` and copies the map
(`Snapshot`), writes (`WriteOk`, `WriteErr`) or skips (`SkipWrite`), and returns
its answer. The temporary file, its fsync and rename are one step: the rename is
what a restart sees. `Crash` and `Terminate` stop all threads where they are;
`Boot` is `init`. A device is reduced to its `last_seen`. `CreateSession` and
`ResumeSession` stand for the registry, so that only ids that have a session are
paired. Ids are fresh: `create_session` draws a UUID.

### PhoneSession
An action is one critical section or one await. A hello that finds the session is
one action (`HelloAttach`, `HelloBusy`, `HelloBadToken`), preceded by the sweep
the code runs. `try_resume_trusted` is four steps (`ReadEpoch`, `Verify`,
`Rehydrate` or `Refuse`, `ResumeHook`), and so are the commands: `Forget` drops
trust, `RemoveSession` ends the session, `DropInput` removes the input. Commands
run one at a time (`cmd`), as Tauri runs them on the main thread; `remove_input`
keeps the application lock, so the resume hook waits for it. A task that has
left its loop is `closing` until its peer connection is closed. The phone, the
network and the user do anything at any time; ages are flags that may be set
whenever the code would let the time pass.

### PhoneClient
`page` is the pairing in use and the state of `PhoneMachine`, `link` the
signaling client (socket, timer, closed for good), `media` what the page holds
of its capture, `mics` the microphones that are on. `Arrow` is the machine's
table; `Dispatched` ignores an event elsewhere, as `next` does. `beginCapture`
and `applyCapture` are cut at their awaits (`BeginCapture`, `MicGranted`,
`KeptAwake`, `OfferMade`, `BeginFails`; `ApplyCapture`, `SwapGranted`,
`SwapCommits`, `SwapFails`), between which the link may go, a message arrive,
the user mute or stop. The desktop may send any message at any time, an attempt
to connect may fail at any time, and the page may be loaded again, with or
without a new QR code.

### PhoneLink
`PhoneClient` and `PhoneSession` are instantiated over the same variables, with
one phone and one pairing. `Opens` gives a socket a hello that is under way,
`Hello` lets the desktop take it, `Trusted` and `Acks` are the steps of the
desktop's task with what each sends. `down` holds the messages on their way,
which a lost socket loses. `on` is the socket the phone believes in; the desktop
may serve an older one, or one that is dead, until it finds out
(`DesktopSeesEnd`, `D!KeepaliveFails` within `Serves`). A message queued before
the ack comes after it, as the task sends the ack before it reads its channel.
The page takes no microphone here: media are `PhoneClient`'s.

### PhoneServer
`CreateSession` and `BootServer` are the two callers of `ensure_server`: cached
or new certificate (`load_or_generate`), free port, running server. Each of the
three files holds the number of a certificate, or is `Cut`. `Generate` writes them
in the order of the code; the write that does not succeed (`GenerateFails`,
`GenerateIsCut`) leaves its file truncated or, if it could not open it, as it was.
Hence an old address list may stand beside a torn or a newer certificate. `CanLoad`
is `try_load`, which parses only the list and believes it; certificate and key are
parsed in `StartFromFiles` (`RustlsConfig::from_pem`), which refuses a torn file or
a key that is another's. Nothing renews them while the list covers the addresses,
so the server cannot start: `CoveredCertIsServed` below. `ChangeNetwork` changes
`lan_ips`. A server that runs keeps its certificate when addresses change.

### PhoneAudio
`Arrive(p)` is `read_track` for one packet: insertion with sequence extension,
release of what exceeds the window, decoding, emission to each feed with the
drift trim; `SetLatency` changes the mode, `SubscribePhone` and
`DropSubscription` the buses. A payload is its packet's number, so order,
repetition and loss are visible while sound is not.

### Router
Commands and the watcher's repairs hold the application lock throughout, so each
is one action, with every rebuild and rollback it makes: `Rebuilt` is
`rebuild_bus_filtered` on one bus, `Starts` says when `mixer::start` succeeds
(output and microphones there and not held by others, not more inputs than
slots, not only silent loopbacks). `Poll` takes the snapshot, `HandleDiff` acts
on it later. An engine remembers its output, its inputs and which of their
devices were unplugged since (`lost`): those streams stay dead. Devices change
through `Plug`, `Unplug`, `Occupy` and `Play`. `OutputGone`, `InputGone`,
`OutputCame` and `InputCame` are the four loops of `handle_device_diff` seen
from one bus; the loops treat buses independently, and a loop rebuilds a bus at
most once because a rebuilt engine carries all it can.

### Controls
The same commands as `Router`, seen from the faders: each changes the graph or a
bus, and pushes to the running engines that carry the input, or rebuilds them,
or both. An engine is the values it was seeded with and what was pushed since; a
start succeeds or fails freely. Effects are numbers, and `Moved` are the controls
away from their start values, whose number bounds the run.

`update_input_dsp` stores an effect in the graph and publishes it to the engine of
the one bus it is given. The window calls it once per bus (`setInputDsp`,
`useAudioManager.ts:1050`), and takes the buses from the sends and the monitor
flag of its own state, which a late poll may have set back. So `SetInputDsp` opens
a `fan` of commands for *any* routing the screen may show, and `UpdateInputDsp`
executes one of them, in any order. The window's other commands come after those
it has sent (`Command`); phones that come and go and the watcher's rebuilds fall
between them (`Behind`). `untold` is history: the inputs of an engine whose effect
was sent from a screen that did not show them on its bus.

Automix groups are a list, as in the code: each has an id of its own (`OwnIds`), an
engine takes the first `MaxGroups` that have a member in it, `AutomixCreateGroup`
refuses one more, but a preset may bring more than an engine takes, and that is
allowed.

### EngineStart
`Start` spawns the thread, which opens the output, then each source, and reports
once; `DropEngine` and `JoinEngine` are the two halves of `Drop`. Anything the
system is asked to open may fail, a loopback may also stay silent. The metering
tap (`StartTap`) goes through the same steps with one input and no output.

### Feeds
One key of the manager's map. A critical section of the map's lock is one step;
joining a thread is a step of its own, as the code lets go of the lock first. The
application lock orders engine starts today; the loopback code is written for
subscribers that run at the same time (its comment at 201 speaks of the race),
and so is the module. Buses that were attached to a capture that failed stay
unfed until they are rebuilt: `EveryoneHears` is about running captures.

### InputRing
The capture callback (`CaptureFrames`, `PushChunk`, `CountPushed`), the output
callback (`OutputStep`: trim, drain, count) and the meter poll (`PollUnder`,
`PollOver`), each access to ring or counter a step. A sample is its frame and
channel. Frames that find no room are dropped whole and counted; a slot that has
never had data counts no underrun.

### LiveDsp
The publisher's stores (`EnterPublish`, `StoreField`, `ExitPublish`), the
reader's loads (`LoadGen`, `LoadField`, `Recheck`) and `ProcessBlock`. All are
relaxed: a load returns any value the thread has not seen overwritten, and only
the two fences order them. `GenBecomesVisible` says that a store is seen at
last. Fields are one atomic each: an effect, a group, the packed stage order.
`Normalized`, `Packed` and `Unpacked` are `normalize_order`, `pack_order` and
`unpack_order`: they go through the list once, three bits per stage.
The generation is modulo `GenMod`, and a new engine's reader starts at
`GenMod - 1`, so that it reloads at once.

### Recorder
Commands hold the application lock from `StartRecording`, `StopRecordings` or
`TearDown` to the last `Joined`; stopping sends Remove, sets the flag and joins
the writer. The callback is `BeginBlock` (takes queued commands, silently drops a
tap beyond `MAX_ACTIVE_TAPS`) and `PushSample`; it may stop for ever at any
point. The writer is `WriteSample`, `WriteFails`, `EndBatch`, `EndDrain`,
`Finalize`. `DeleteFile` takes no lock. Ids are reused only once nothing refers
to them.

### Presets, Settings
A preset is written beside the old file, the old one removed, the new one renamed
(`WriteTmp`, `RemoveOld`, `Rename`); each may fail, and `PresetsCrash` may come
between two. `LoadFile` parses, checks, migrates and normalises; files that
shipped earlier or were edited by hand are in the initial states. What a file may
say is a set for each version (`FileV1`, `FileV2`), and what the program may hold
is another (`Console`): device ids trimmed and distinct, groups with ids of their
own. The gap between `RemoveOld` and `Rename` is a loss the code accepts: a crash
there leaves the new preset in a temporary file nothing reads, and a rename that
fails removes that file too and reports the error. `SavedPresetIsLoadable` says
that nothing else loses a preset that was reported saved, and `SavedPresetSurvives`
(below) is the plain promise the gap breaks. Settings are rewritten in place: a
write that fails has truncated the file, or could not open it (`NotWritten`), and
a torn file reads as defaults.

### CableNames, CableHelper
A command plans (`PlanOne`, `Planned`), renames endpoint by endpoint
(`RenameEndpoint`, `PassOver`, `WriteFails`), and an apply plans again to report.
The commands run on the blocking pool and interleave. The helper process writes
its status to a pipe a thread drains up to a limit while the query polls for its
exit until a timeout; the final join has no limit of its own, so a grandchild
that inherits the pipe could hold it (not modelled: the helper starts none).

### Console
`screen` is the reducer's state, `seen` what the last render showed (the values
callbacks close over), `back` the backend; `calls` and `answers` are queues in
invocation order, since the commands are synchronous and run on the main thread.
`Drag` and `Click` change the screen at once and mark a write, `Flush` sends it
with the next animation frame, `Poll` asks for a snapshot that `Answered`
applies unless newer edits are in flight. Undo and redo restore a snapshot on the
screen and send the commands of `Reconcile` one by one. `hist` is
`useHistory.ts`. A preset keeps a send with its input (`PresetsAreDesks`), as the
backend does: `add_send` looks the input up, and a preset's sends are inside its
inputs.

### How the parts share state
`PhoneSession` and `Router` share the phone inputs: `PhoneSession` has them as a
set, with the races of resume and removal, `Router` as inputs like others, with
the engines. `PairedStore` and `PhoneSession` share trust: the first has the
file, the second the epoch and the sessions. `PhoneLink` joins both ends of the
socket. `Router` and `Controls` share the commands, `EngineStart`, `Feeds`,
`InputRing`, `LiveDsp` and `Recorder` what runs below an engine: they touch each
other only through the calls that start and end them, so `MCAudioPath` and
`MCDesktop` check them in one run, in which a behaviour exercises one part and
leaves the others in their initial state. `Console` has the backend as a small
table of values that obeys or refuses.

## Runs

Passing runs look for deadlocks unless the part itself may stop: the bounded
parts of `AudioPath` and `Desktop`, and the pages of `AudioPath` and
`PhoneLink`, which end.

| Run | States | Shows |
| --- | --- | --- |
| `PairedStore` | 119,096 | answers are kept, the refinement of `TrustStore`, retry of failed revocations |
| `PhoneSession` | 143,555 | only accepted phones live, no zombie, acceptance is kept, dead links are released |
| `PhoneLink` | 190,353 | both sides agree on acceptance and place, every hello is answered |
| `RouterHotplug` | 153,978 | hotplug: release, return, taps |
| `RouterMatrix` | 193,028 | commands: what is heard, rollback |
| `Recording` | 810,963 | recorders end first, nothing is lost silently, stops return |
| `AudioPath` | 169,810 | the phone's page, parameters, captures, packets, rings, engine starts, each by itself |
| `Desktop` | 264,363 | engines follow the graph; presets, settings, server, cable |
| `Console` | 718,641 | screen and backend converge, last choice is heard, undo takes back |

Three runs check one sentence each of the source's documentation or comments,
and TLC finds it violated; `findings` in `PROJECT.json` quotes sentence and code.

| Run | What happens |
| --- | --- |
| `PhoneSessionOwner` | a stale task detaches a resumed session |
| `RouterKeepsTheRest` | unplugging a microphone silences the phone |
| `LinkHiccup` | a phone that reconnects too soon is answered busy and ends |

**PairedStore.** `AnswersAreKept` is what the user was told: a removal reported
durable is final (`RevokedNeverReturns`), a pairing reported saved stays
(`SavedPairingIsOnDisk`); both would fail without `write_lock`.
`NothingLeftBehind` says
that a difference between memory and file is marked or on its way, except for
entries that a prune at start could not remove (`stale`): those expire again at
the next start. `RevocationIsRetried` is the eventual form: a removal whose write
failed reaches the file. `UnreadableFileIsKept` is the recovery promise.

**PhoneSession.** `RevocationHolds` is the point of `REVOKE_EPOCH`: live sessions
are trusted (`LiveSessionsAreTrusted`), and who was forgotten stays out
(`ForgottenStaysOut`). Trust that ends by expiry does not move the epoch, so a
live session may outlast its trust: `lapsed` names those. `AttachedTaskWillDetach`
covers every early return of `handle_socket`: whatever channel a session has
belongs to a running task with the session's epoch.

**PhoneLink.** `SidesAgree` is about a settled socket: nothing is on its way and
nobody has left, so page and registry must be in the same place. `HelloIsAnswered`
says that a page that has lost its link, or says hello, gets to wait for the user
or the microphone, or ends with a reason: the link comes back. `AcceptedOnBothSides`
says that neither stored credentials nor a microphone come without the user's
acceptance at the desktop.

**Router.** `CommandsAreClean` has two parts. `OnlyRoutedInputsAreHeard` is an
action property because `remove_input`, when a rebuild fails, leaves later buses
with engines that carry the removed input; it allows this and nothing else.
`FailedChangeIsUndone` covers `set_send`, the bus settings and `replace_input`.
`RunningBusIsClean`: engines are those their buses ask for, and recorders end
before them.
`ReturningDeviceIsUsed` asks that the bus of a device that returns runs or shows
an error. `WatcherRepairs` is liveness: lost outputs are released
(`LostOutputIsReleased`), taps come to follow the graph (`TapsFollowGraph`).

**Recording.** `RemoveFindsEngine`: a stop always has an engine to send Remove to.
`StoppedIsComplete`: what was in the ring when the flag was set is in the file,
or the error is shown. `SkewIsReported`: a file whose channels changed places
carries a warning. `StopReturns` assumes nothing of the callback.

**AudioPath.** `LiveDspIsSafe` is `TornSetNeverApplied` and `NoStaleState` (what
is switched on starts afresh). `PhoneAudioIsSafe` is `PlayedInOrder` and
`FixedModeIsExact`. `RingIsSafe` is `ChannelsStayPaired`, `EverySampleIsCounted`
and `TrimIsSafe`. `SourcesAreSafe` is `FeedsAreSafe` (no capture is leaked,
everyone hears) and `EngineIsSafe` (slots are aligned, a start that fails
releases all). `NothingHangs` is liveness: the last configuration is applied
(`PublishedIsHeard`), and joins, starts and drops come back (`ThreadsReturn`).
`PageIsHonest` is the phone's page. `LiveIsHeard` relates the machine's `live` to
the microphone the transport sends, over every interruption of the two
asynchronous functions. `OpenMicsAreHeld` says that no microphone is on which the
page cannot stop. Both leave out what follows an exchange that succeeded after
its transport was closed (`past.late`), see below. `LinkFollowsMachine` ties
machine and socket. `OnlyRefusedCredsGo` holds with one tab.

**Desktop.** `EngineFollowsGraph`: what an engine plays is what the graph says,
whether pushed or rebuilt. Of effects it says so bus by bus: the command for the
bus is still to come, or the engine has the effect, or the screen did not show the
input there when it was last sent (`untold`). `FilesAreSafe` has four parts.
`SavedPresetIsLoadable` and `SettingsAreKept` say what a failed or cut write may
cost and nothing more; `LoadKeepsTheFile` that the inputs, the buses each is heard
on, the outputs and the groups are those of the file, for both versions, and that
saving the result changes nothing; `ServerIsTrusted` that whatever the files have
become, the server runs with its own key, names its addresses if the list it was
chosen by is its own, and that a list beside its own certificate stands beside its
key. `CableIsSafe` is `NamesFitTheBus`,
`LoneCommandAligns` and `StatusIsWhole`.

**Console.** `LastChoiceIsHeard`: at rest, the bus plays at the volume and mute
asked for last, unless a command failed or the screen was `misled` (a poll's
answer between a mute and the flush of a drag unmutes, which is excluded by
name). `UndoTakesBack`: an undo from rest without failures restores the backend,
but for two things that are named: the gain of an input it has to add again, and
a send the screen shows without its input. The second arises when a send toggle
is refused after its input was removed: the roll-back of the toggle
(`useAudioManager.ts:1169`) writes the send into the screen, the next edit puts
that screen on the history, and an undo to it sends a command that must fail.
`ScreenConverges`: screen and backend agree in the end.

### Other statements the code does not keep
TLC also refutes these fifteen statements. Their configurations
are here for who wants to see the counterexample
(`tlc -config ClientTabs.cfg MCPhoneClient`); they are no runs of the project.
The last four share a configuration, which names the first of them: put another
in its place.

| Configuration | Module | The source says | What happens |
| --- | --- | --- | --- |
| `PhoneSessionInput` | `MCPhoneSession` | the resume hook adds the phone's input again (`lib.rs:2549`) | `disconnect_phone` ends the session first and takes the lock later: it removes the input of a phone that resumed in between |
| `LinkTrust` | `PhoneLink` | "Saved session gone/invalid" (`main-phone.ts:209`) | a resume refused because another socket of the same phone was faster makes the page forget a valid pairing |
| `ClientGesture` | `MCPhoneClient` | "restart on reconnect needs a fresh gesture" (`main-phone.ts:241`) | a permission given after the link was lost turns the microphone on |
| `ClientSwap` | `MCPhoneClient` | "release the orphaned mic if the hot-swap never committed" (`main-phone.ts:352`) | an exchange that outlives its transport leaves a microphone on |
| `ClientMute` | `MCPhoneClient` | "Phone has muted itself" (`session.rs:211`) | mute during an exchange mutes the old microphone; the new one is sent |
| `ClientTabs` | `MCPhoneClient` | "must not wipe another desktop's trust" (`main-phone.ts:210`) | one tab's refusal removes the pairing another tab was accepted with |
| `RouterDeadOutput` | `MCRouter` | "the bus resumes automatically when the device returns" (`lib.rs:2147`) | an output unplugged and back between two polls stays dead |
| `RecorderTail` | `Recorder` | "Final drain" (`recorder.rs:484`) | samples pushed after it are counted as written, but in no file |
| `ConsoleGesture` | `MCConsole` | "one entry per gesture" (`useHistory.ts:63`) | a second gesture on one fader leaves no entry |
| `ConsoleUndo` | `MCConsole` | "state + IPC reconciliation" (`types.ts:267`) | undoing the removal of an input loses its gain |
| `ConsoleRetoggle` | `MCConsole` | "Re-toggle to revert." (`useAudioManager.ts:1168`) | a refused toggle that a poll has corrected is toggled again |
| `DesktopStatements` | `MCDesktop` | an effect goes "to every bus this input is routed to so whichever engine is live updates immediately" (`useAudioManager.ts:1048`) | `EffectsReachEveryBus`: the buses are those of the screen; after a late poll one is missing, and its engine keeps the old effect until the next edit or rebuild |
| `DesktopStatements` | `MCDesktop` | "Only the first route was kept for A1." (`presets.rs:390`) | `FirstRouteDecides`: the first route's volume is kept, but the input is on if any of its routes was (`presets.rs:394`); `LoadKeepsTheFile` states what the code does |
| `DesktopStatements` | `MCDesktop` | a preset is written to a temporary file before the old one is removed (`presets.rs:166`), as if one of the two were always there to load | `SavedPresetSurvives`: a crash between `remove_file` and `rename` (`presets.rs:178`) leaves no file of that name, and a rename that fails removes the new one too |
| `DesktopStatements` | `MCDesktop` | "Load the persisted cert if it covers `ips`, else generate" (`tls.rs:26`) | `CoveredCertIsServed`: after a cut generation an old list may vouch for a torn certificate, or one of other addresses: the server cannot start, or names the wrong ones, until the machine has an address the list lacks |

### Bounds, and why they are enough
- `PairedStore`: two devices are one that is written and one that is revoked
  meanwhile; there are only two writing threads. The clock needs two instants:
  one at which a device was seen and one at which it has expired; steps back are
  included.
- `PhoneSession`: sessions interact only through `REVOKE_EPOCH` (a removal of
  another device makes a resume fail, which is harmless for safety), so one phone
  is enough; two sockets are an old and a new connection. Two epochs separate
  them; two strikes separate a wrong token from the last one.
- `PhoneClient`: two pairings (the page's and another), one reload, and three
  microphones: one begun, one exchanged, and one begun again after a loss.
- `PhoneLink`: two sockets, as above, and three disturbances (`MaxTroubles`),
  which are links that break, reloads, and what the user ends: two make the phone
  meet its own half-open socket, the third a removal meanwhile.
- `Router`: one bus with two inputs covers the watcher, which treats buses alike.
  Two buses with a one-slot engine make the limit bite and let a multi-bus
  command fail on its first or second bus. A2 and B2 differ from B1 only in
  order. `Unsteady`, `Contended`, `Recorded` name the devices that move, are held
  by others, and the buses that are recorded, in each run.
- `Recording`: one bus, one stereo and one mono recording (the second also fills
  the tap limit of one), and a ring, a batch and a block of one frame, so that
  every boundary is met at once.
- `AudioPath`: effects: two effects and a group, two publishes, generation modulo
  8. Captures: two buses and four captures, the fourth after two failures.
  Packets: ten, wire numbers modulo 8 starting at 4 so that they wrap, up to
  three places out of order, windows of one and two, adaptive between one and
  three. Rings: eight stereo samples, blocks of up to two frames, six frames
  captured. Engines: lists of up to four sources, three allowed.
- `Desktop`: two buses, two strips and a group with one moved control at a time
  (part `controls`, where an engine that has lost a microphone is the only one that
  runs, and A1's), or one strip whose effects are sent, from a screen that shows
  any of the four sets of buses (part `effects`: two commands of a flush are what
  it takes for a rebuild, or a phone that goes, to come between them);
  two saved presets, one of which has two groups where an engine takes one;
  one preset and five shipped files; two addresses, two ports and three
  certificates; two endpoints and two commands; helper outputs of 0 to 6 bytes,
  a pipe of 2, a limit of 3, a timeout of 2 polls. Strips and commands are
  symmetric (the run has no liveness).
- `Console`: two levels, one undo step, two edits, one call in flight besides
  polls: a second gesture, an undo of it and a poll between are all there.

### Fairness
- `PairedStore`: threads run (weak fairness of each step), the lock is handed
  over fairly (strong fairness of `Snapshot`: `std::sync::Mutex` does not promise
  it, but each writer sleeps or waits for the user between writes), the
  maintenance loop comes round, and writes succeed if tried for ever. Without
  the last a full disk loses every retry.
- `PhoneSession`: commands and socket tasks go on; the keepalive timer makes a
  dead link noticed. Nothing is assumed of phones, users, network or ages.
- `PhoneLink`: both programs run on, the reconnect timer fires, a socket tried for ever opens, and who is
  left on a broken one finds out (the browser's close, the keepalive).
- `Router`: the watcher's loop runs for ever. Commands and devices are free.
- `Recorder`: writer threads and stopping commands run; the callback need not.
- `AudioPath`: publisher and callback run and a store becomes visible; captures
  see their stop flag and finish; engine threads and joins run.
- `Console`: frames are drawn, the poll timer fires, commands are executed and
  answered, as while the window is visible; a poll tried for ever is answered.

## Proofs

Each proof module has one inductive invariant per part, named `Inv` or after the
part, one lemma per action or group of actions, and the theorems at the end. The
assumptions are those of the modules (`...Assumption`), which TLC evaluates on
every run. All invariants below were checked by TLC before they were proved.

### PairedStoreProofs
For every set of ids and every `MaxTime`, `TTL` and `NoDevice` that satisfy
`StoreAssumption`: `TypeCorrect`, `RevocationIsFinal`, `SavedPairingsLast`
(together `AnswersLast`, for the run's `AnswersAreKept`), `NoChangeIsLost`
(`NothingLeftBehind`), `UnreadableFileUntouched` and `StoreImplementsTrustStore`.

All rest on one inductive invariant, `Inv`, with eight parts. `RevokedInv` and
`SavedInv` are the properties; they are not inductive alone, since a snapshot
taken earlier may be written later, so they also speak of snapshots. `WriterInv`
says that a thread in `write` holds the lock, hence that there is one snapshot
at most. `SnapshotInv` says that a snapshot on its way to the file holds no
revoked id and every confirmed one, and agrees with the removal or pairing under
way. `IssuedInv` (every id seen anywhere was issued) makes a new session's id
different from any revoked one. `UnloadedInv` and `StoppedInv` describe a store
that was not loaded and a program that does not run. The proof has one step per
action, and so has the refinement, to a step of `TrustStore` or a stutter.

`NoChangeIsLost` needs more: `LeftInv` says that while the mark is clear every
snapshot on its way is the memory, and without one the file agrees with it. The
mark is cleared with the copy and set by whatever changes the memory after it,
which is why one write at a time is enough.

### PhoneSessionProofs
For any non-empty set of ids, any set of sockets and any `MaxStrikes` and
`MaxEpoch` that satisfy `SessionAssumption`: `TypeCorrect`,
`OnlyAcceptedPhones`, `NoZombieSessions`, `ForgottenForGood` (together
`RevocationsHold`), `TasksDetach` and `AcceptanceLasts`: all safety properties of
the run `PhoneSession`, and the type invariant, which no run checks. The
properties are not inductive: a resume holds a decision taken earlier. So
`ResumeInv` says that a resume about to insert either read an older epoch or
verified trust nobody has revoked since, and `ForgottenInv` that every resume of
a revoked id read an older epoch, from the moment `Forget` takes the trust.
`GrantedInv` and `IssuedInv` carry the user's acceptance and the freshness of ids
through the same steps; `RegistryInv` says that no entry means no channel.

The argument splits the steps in two. A step of a socket task, of time or of
`Reject` is quiet (`StepIsQuiet`): trust, epoch and command stay, a session comes
alive only by a resume that still reads the current epoch, and a resume moves
only with the epoch it reads and the trust it finds. `QuietKeepsTrust` needs no
more than that. The other steps, `Decision`, leave every resume where it is, and
`DecisionKeepsTrust` treats them one by one. `AttachedStep` is independent: a
task that is off or still resuming is attached to no session, and a task that
ends leaves none attached to it (that it may also detach a session which is not
its own is the finding of the run `PhoneSessionOwner`).

### PhoneLinkProofs
For any sockets, any other phones' sessions and any number of broken links and
reloads that satisfy `LinkAssumption`: `LinkTypeCorrect`, `AcceptanceIsMutual`
(`AcceptedOnBothSides`) and `SidesStayTogether` (`SidesAgree`). The difficulty is
that the property speaks of a settled socket, and no step gets there at once.
`StageInv` therefore says where the page will be when it has received what is on
the way, for each point the desktop's task can be at: before the hello is decided
(`AtHello`), while the answer is due (`AtAck`), and when the task serves
(`AtLoop`). It holds only of the socket the phone believes in and only while the
session is attached to it, which is why `LastInv` is needed: a message that ends
the session is the last on its socket, and the session is no more attached to
that socket. `WordInv` says that what tells the phone it was accepted is true,
`OwnerInv` that the attached socket is served by a task of the session's epoch.

`BothFollowTheirPrograms` says that the composition adds nothing to its two
halves: each of its steps is a step of `PhoneSession` or leaves the desktop
alone, and a step of `PhoneClient` or leaves the page alone.

### RouterProofs
For any finite set of inputs, any devices, presets and slot limit: `TypeCorrect`
(`TypeOK`), `RunningBusesAreClean` (`RunningBusIsClean`), `EveryCommandIsClean`
(`CommandsAreClean`) and `WatcherUsesReturningDevice` (`ReturningDeviceIsUsed`).
The invariant is the property itself, bus by bus (`Clean`), with the types: the
work is in the operators. `RebuildOutcome` says what one rebuild leaves, whether
it starts or fails; `RebuiltEachIsSound` and `FirstFailureIsReached` what a
command does that rebuilds several buses and stops at the first failure. With
these, every command keeps the invariant, and its engines are routed as asked
(`StepIsRouted`). For a refused command, `RollbackStarts` and `KeptStillRuns` say
that the rebuild of the roll-back starts: what ran before the command can run
after it, as nothing else has moved under the lock. `DiffKeepsOrWants` and
`DiffUsesDevice` follow the four loops of `handle_device_diff` in their order.

### RecorderProofs
For all buses, recordings and sizes that satisfy the module's assumption:
`RecordersEndFirst` (`RemoveFindsEngine`), `StopLosesNothing`
(`StoppedIsComplete`), `ChannelsKeepTheirPlaces` (`SkewIsReported`) and
`TypeCorrect` (`RecorderTypeOK`). `EngineInv` says that a recording that is live,
or being stopped, belongs to an engine, unless the teardown of that engine is
what stops it; `LockInv` that only the command that holds the lock changes this;
`WriterInv` that the file is a prefix of what the ring was given, and that what
remains is in the ring in the same order (`Orderly`), or an error is set.

The channels need a second invariant, `TapInv`. As long as no loss is reported
the ring holds left and right in turn, starting with what the file expects next,
and the callback's place in its block is what follows (`TurnInv`). That a tap
starts with the left channel is `QueueInv`: a tap on its way is on its way once,
and its recording has been pushed nothing.

### ConsoleProofs
For any fader positions, presets, history length and number of edits that satisfy
`ConsoleAssumption` and `PresetsAreDesks`: `TypeCorrect` (`ConsoleTypeOK`),
`ChoiceIsHeard` (`LastChoiceIsHeard`) and `UndoGivesBack` (`UndoTakesBack`).
`ChoiceInv` speaks of every moment, not only of rest: unless the screen has
misled the user, every bus command an undo has still to send carries the choice
(`UndoInv`), and so does the last one under way, or the backend if there is none,
unless a fader's write is pending (`SentInv`). `GoalInv` says that an undo begun
at rest is alone: what is left of it is over, or its next call is the only one
under way that is no snapshot, or its answer is (`Chain`); each call that is left
sets what the snapshot has, and what no call will set is as in the snapshot
already (`Toward`). The send comes last (`SendLast`), after the input it needs.
TLC checked this invariant with three edits, two calls in flight and a history of
two (16.8 million states); the same run refuted the first form of
`UndoTakesBack`, with the send that has no input.

### AudioPathProofs
About the composition `MCAudioPath`, for any constants of its six parts: `Inv` is
the conjunction of six invariants, each inductive for its part, and `StepOfPart`
says that a step moves one part only.

*The page* (`PageTellsTheTruth`, `OnlyTheRefusedIsCleared`). `LinkInv` ties
machine, socket and timer; `MediaInv` says of each point of the two asynchronous
functions which microphone they hold and what the transport sends; `NumbersInv`
makes a late exchange distinguishable from the current one. The second theorem
assumes one tab.

*Captures and engines* (`SourcesStaySafe`). `EntryInv`, `CapInv`, `OwnInv` and
`FedInv` say who refers to a capture: the one in the map, one with a creator that
waits for its set-up, one being stopped, or one whose subscriber is in. `HeldInv`
says what an engine thread holds at each point of a start and a drop,
`VectorsInv` that its four vectors grow together.

*Parameters* (`LiveUpdatesAreSafe`). `PublisherInv` numbers the stores: the v-th
publish is between stores 2v-1 and 2v of the generation. `ReaderInv` records what
each load obliges the reader to have seen (`due`). The heart is `WholePublish`:
if the generation read after the fields equals the one read before, then no field
comes from a later publish than the start (the acquire fence would oblige the
recheck to see its odd generation) nor from an earlier one (the first load
obliges it), so all come from the same, whatever the order of the fields.
`SlotsInv` carries this to what the engine plays with.

*Types* (`TypesCorrect`). What is not obvious in them is the stage order, which a
caller sends as any list. `NormalizedIs`: after `normalize_order` each stage is in
it once. `PackedIs`: unpacking gives back what was packed, for up to eight stages.
Hence `OrdersInv`: every order ever published unpacks to a permutation. `RoomInv`
bounds the ring.

*Rings* (`RingStaysSafe`). `PairInv` says that the ring is aligned: sample k is
of channel k modulo the channels, within a push as well; lemmas on sequences
(`Aligned`) carry it over push, trim and drain. `BlockInv` relates what the
callback has read of the ring's length to that length, which the capture callback
may have raised since and nobody else lowers; this makes a trim whole frames and
a drain never underflow. `EverySampleIsCounted` is inductive beside them.

*Packets* (`PhonePlaysInOrder`). The extended number of packet `p` is `Shift + p`
with one `Shift` for the whole stream, although the wire numbers wrap: as packets
are at most `Reorder` out of order, the extension always picks the right cycle
(`PacketNumber`). With that, every frame in the window is under its own number and
no earlier than what is due (`Sound`), and what was played rises and is all before
what is due (`Rising`). Release and feeds are defined by functions that count up;
`Induction` (from a least counterexample) and `StaysIn` say that what they yield
stays in a set each of their steps stays in; the stage orders use them too.

### DesktopProofs
About `MCDesktop`, likewise part by part, for any constants.

*Faders* (`EnginesFollowTheGraph`). `ControlsInv` says it of every bus: each row
of the desk fits the graph, that is, an engine's levels and groups are what the
graph would give it now, whichever command pushed or rebuilt, and an effect is the
graph's, or untold, or a command of the flush is still to bring it. `FanFits` says
why: on a bus the screen showed and whose command has been executed, the graph
already has the effect that is being sent, so the commands that are left change
nothing there. `EffectSent` and
`EffectStored` are one command seen from its own bus and from the others,
`FilteredFits` a rebuild by the watcher, whatever inputs it leaves out.

*Files* (`FilesStaySafe`). `PresetsInv` has the console among those a file can
hold, the temporary file equal to what the console builds while a save is under
way, and the saved preset still there until the new one is whole. It rests on
`RoundTrip`, `Parsed(Built(c)) = c` for every console, and on what the two versions
of a file say of sends (`HeardOfRoutes`, `HeardOfInputs`), outputs and groups.
`SettingsInv` says that what was asked and what a file says agree unless a write
truncated it. `ServerInv` has certificates numbered in order (`Numbered`), so that
a fresh one is in no file; the list, which is written last, stands beside the key
of its certificate if it stands beside the certificate (`ListPaired`); and the
server that runs has a whole pair (`Serves`). None of them excludes a failure: what
one may cost is in the property.

*Cable* (`CableStaysSafe`). `CleanInv` follows a command that runs alone: what it
has not looked at yet, or noted, is all that may have another name. `HelperInv`
has the bytes read and those in the pipe add up to what the helper has written.

`TypesCorrect` is the type invariant of all six parts.

### What is only model-checked
- Liveness, that is `RevocationIsRetried`, `DeadLinkIsReleased`, `HelloIsAnswered`,
  `WatcherRepairs`, `StopReturns`, `NothingHangs` and `ScreenConverges`: leads-to
  under fairness and ENABLED are out of the provers' reach.
- The findings: the runs that expect a violation.
- Induction over data, in part. The library's induction theorems take operators as
  parameters, which the provers cannot instantiate. Functions defined by recursion
  on a number are proved about all the same, by `Induction` and `StaysIn` of
  `AudioPathProofs`, which speak of sets; folds and `SelectSeq` are not, so where a
  proof needed one the module counts up instead.

No module declares a recursive operator.

## Not modelled, and why

- Floating-point signal processing, meters, resampling: numerical, not
  behavioural.
- `passthrough.rs`: no command reaches it any more.
- WebRTC, Opus, TLS, JSON: libraries and encodings. The set-up of a peer
  connection is in `PhoneClient` and `PhoneSession` as the events it leads to.
- The rate limit per address of the web socket, and the remote volume panel.
- The patchbay's graph editor and the rendering of the window.
- Windows COM wrappers: stateless I/O.

Three comments of the source disagree with the code in what no property here is
about: `config.rs` says of `DspConfig.spatial` that older configurations load
disabled, while `SpatialConfig::default()` is enabled; `list_recording_files` is
described as oldest first and sorts newest first (`recorder.rs:652`, 659);
`src/docs/phone/protocol-v1.md` says that a reconnecting client sends a fresh
offer, for which the code waits for a tap.

## Plan

1. Refinement: `PhoneSession` shown to keep `TrustStore`'s promises for its part
   of trust, as `PairedStore` does.
2. `PhoneLink` with its media: offer and answer between the two programs, and the
   audio that flows or stops with them.
3. The composition of `Router` with `Feeds` and `EngineStart`: an engine of a bus
   as a start that takes steps, instead of one that succeeds or fails at once.
4. The lemmas on sequences that `AudioPathProofs`, `RecorderProofs` and
   `DesktopProofs` each have, in one module.
