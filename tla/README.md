# Specifications of the EZVIZ HP7 integration

TLA+ models of `custom_components/ezviz_hp7`, a Home Assistant integration for
the EZVIZ HP7/CP7 doorbell: what they model, what TLC checks of them and what
TLAPS proves about them. Paths of sources are relative to
`custom_components/ezviz_hp7/`.

## The system

Home Assistant runs the integration on one asyncio event loop; blocking calls
(cloud, LAN sockets) run in threads of its executor.

| component | state | operations | talks to |
|---|---|---|---|
| CPD7 relay, `tcp_relay.py` | server, `_state_lock`, `_lan`, `_pump_task`, `_buffer`, `_keyframe_seen`, `_writer`, `_close_handle` | connection handler, `async_prewarm`, close timer and `_maybe_close_upstream`, pump, `async_stop` | viewers (HA's stream worker, ffmpeg) over localhost TCP; LAN client; decoder; camera entity by a listener |
| decoder, `cpd7/decoder.py` | framing buffer, keys, pre-keyframe buffer, output | `feed`, `take` | fed by the pump |
| LAN client, `cpd7/lan_client.py` | play socket, ECDH key | `start` (INIT, INVITE, PLAY), `read_chunk`, `close` | the doorbell |
| ciphers, `cpd7/crypto.py` | none | key agreement, ChaCha20 | decoder, LAN client |
| EUCAS client, `pylocalapi/cas.py` | none | one request, one response | cloud |
| cloud API, `api.py` | `_client`, `_token`, `_aes_cache` | `ensure_client`, login, `fetch_lan_aes_key`, status and alarm queries, unlock, `close` | cloud; called from several executor threads, without a lock |
| coordinator, `coordinator.py` | data, `_cached_static`, `_last_static_fetch` | `_async_update_data` every 15 s | API; calls its listeners |
| alarm sensors, `binary_sensor.py` | `_seen_first_update`, `_prev_alarm_time`, last trigger, off timer | coordinator update, local unlock, timer | coordinator, buttons by a dispatcher |
| buttons, `button.py` | none | press | API, sensors |
| entry, `__init__.py` | `hass.data`, feature code, pre-warm hook, refresh timer | set-up, unload, reload | builds all of the above |
| MJPEG view, `mjpeg.py` | one ffmpeg process per viewer | `serve_mjpeg`, `_terminate` | relay (as its viewer), browser |
| config flow, `config_flow.py` | credentials, feature code and token of the form | the form's steps, options flow | API (one of its own), entry |
| select, `select.py` | the option | `async_select_option` | entry, by its update listener |
| camera, `camera.py` | the mode it was built with | `is_streaming`, `handle_async_mjpeg_stream`, `stream_source` | relay, MJPEG view |
| sensors, statistics | formatted data, counters | | |

What is hard in it:

- *Interleavings at awaits.* Handlers, pre-warm calls, closers and `async_stop`
  of the relay share a lock; the pump and the timers do not take it. A timer
  that has fired cannot be cancelled; a handler is known to nobody between its
  two holds of the lock.
- *Threads.* The key cache is filled by two threads; the client is used and
  closed by several, some of which outlive the entry's unload.
- *Lives.* The entry is set up, reloaded for an option, unloaded and set up
  again; what an earlier life leaves behind meets the next one. Home Assistant
  may be killed in between, and another entry patches the same library.
- *Cancellation.* A handler that owns a process is cancelled at any await, also
  in its clean-up.
- *Failure and ends.* The LAN session fails to start or ends by itself, a
  viewer breaks off in mid-write, polls fail one at a time, the doorbell is
  re-paired under a cached key.
- *Order and staleness.* A viewer's burst and the live bytes must join; alarms
  are compared with what a sensor remembers, across set-up and failed polls.
- *Cuts.* Frames, headers and keyframe markers straddle reads; two buffers are
  trimmed where they may hold half of a marker.

What correctness means, per component: the relay keeps at most one session,
never closes one that delivers to a viewer, closes one that nobody watches,
and hands each viewer an ordered stream; the decoder's output depends on the
bytes alone; each new alarm pulses its sensor once, in order, and is
pre-warmed for; the key that a spin-up is given is not too old, and gets right
in the end; tokens stay with the feature code of their entry; set-up, unload
and views leave nothing behind that nobody can stop, an option that was changed
takes effect, and an unload comes to an end.

## Modules

| module | what it is |
|---|---|
| `UpstreamSession` | abstract: what the relay promises about its LAN session, with its invariant and its proof |
| `Relay` | the relay, task by task; implements `UpstreamSession` |
| `RelayProofs` | theorems about `Relay` |
| `Decoder` | `StreamDecoder` as operators, and a reference definition of its output |
| `DecoderProofs` | lemmas about these operators, and what `feed` makes of any decoder |
| `StreamPath` | the pump's reads, the decoder and the relay's buffer on one session's bytes |
| `StreamPathProofs` | theorems about `StreamPath` |
| `Alarms` | coordinator, alarm sensors, hook and buttons |
| `AlarmsProofs` | theorems about `Alarms` |
| `LanKey` | the key cache and the threads that use it |
| `LanKeyProofs` | theorems about `LanKey` |
| `LanClient` | `Cpd7LanClient` in the threads in which the relay runs it |
| `LanClientProofs` | theorems about `LanClient` |
| `Mjpeg` | `serve_mjpeg` and its ffmpeg processes |
| `Entry` | the config entry's life: flow, set-up, options, reload, unload; the API's client; composes `Mjpeg` |
| `EntryProofs` | theorems about `Entry` and `Mjpeg` |
| `MCRelay`, `MCStreamPath`, `MCAlarms`, `MCLanKey`, `MCLanClient`, `MCEntry` | instances for TLC |

Definitions marked *seeded fault* are plausible mistakes in the definition that
follows them. No specification uses them; put in its place, each makes a
property of a run fail, which shows that the run could have found it.

### Relay

A step is what one task does between two awaits that can suspend it.

| in the model | in `tcp_relay.py` |
|---|---|
| `queue` (owner first, then waiters in order), `await` | `_state_lock`, and what its owner is suspended on: `lan.start()` or `lan.close()` in the executor |
| `lan`, `closing`, `started`, `open`, `ended` | the session of `_lan`, the one being closed, numbers of all, those the relay has not closed, those whose pump returned |
| `pump`, `sink` | `_pump_task`: reading, or draining to the writer it wrote to |
| `keyframe`, `tail`, `seen` | `_buffer` as the session's chunks from the last keyframe on, `_keyframe_seen` |
| `writer`, `handle`, `closer` | `_writer`, `_close_handle`, each timer and the closer task it spawns |
| `pc`, `burst`, `left` | where each `_handle_client` is, its snapshot, viewers that have gone |
| `shown` | what the camera entity last read |
| `sent` | history: the last chunk handed to each viewer |

The handler is `Connect`, `AttachWarm` or `SpinUpStarts`…`SpinUpSucceeds`,
`KeyframeWaitEnds`, `Resnapshot`, `WriteBurst` or `BurstBreaks`, `Publish`,
`ReadEof`, `Detach`; the closer is `TimerFires`, `CloserStarts`,
`CloserDeclines` or `CloserCloses`, then `TeardownEnds`. `PumpReads` is one
round of the pump with all it does before its next await. The buffer's bytes
are abstracted to chunk numbers; `StreamPath` checks, on the bytes, what this
relies on (`SnapshotUntrimmed`, `SeenIsComplete`).

`Upstream == INSTANCE UpstreamSession WITH phase <- Phase, alive <- PumpAlive,
...` is the refinement mapping: the task that owns the lock is the operation
under way, the live pump makes the session deliver, the registered writer is who
watches, as long as it has not left. `StopWaited` is `wait_closed()`: it waits for
the handlers, but not for one whose viewer has reset its connection, as the reset
detaches the transport from the server; such a handler may still be attaching, or
attach, when the stop takes the lock and after it.

### Decoder and StreamPath

A byte is one of six numbers; a frame is `$`, channel, length, payload, with a
length of one byte. A payload that decrypts starts with a mark; the body is the
plaintext. `Feed` is `feed` with its loop (`Rounds`), `ConsumeOneChunk`,
`HandleChunk` and `Absorb` the methods of those names. `Frames`, `PlainOfAll`
and `Synced` are the reference: the frames of a whole stream, their plaintext,
and what of it should come out, defined without pieces and without buffers.
`StreamPath!Pump` is a round of `_pump_upstream` that reads any number of bytes.

### Alarms

Alarms are numbered as they happen, and the number stands for the time stamp.
`PollStarts`, `AlarmsAnswered`, `StaticAnswered` or `StaticFails`, `Merge` and
`PollFails` are `_async_update_data` between its two awaits of the API, with the
calls of the listeners that the base class makes at its end. `AddEntities` and
`InstallHook` are the set-up after the first refresh. The cloud's list
(`Happen`, `Delete`) and the doorbell's status (`ChangeStatus`) are the
environment. `pulses`, `prewarms` and `snapshot` are history.

### LanKey

`fetch_lan_aes_key` with its blocking calls as steps: the cache, the login, EUCAS
(`EucasAnswers`, `EucasRefuses` for a reply without a key, `EucasFails` for an
exception), the second try after a login, the store, the registration. One call
is the relay's spin-up (its lock admits one at a time), one the forced refresh.

### LanClient

`Relay` takes `lan.start()`, `read_chunk()` and `lan.close()` for single steps
that end or fail; `LanClient` opens them up. A step is a blocking call, or a use
of `_play_sock` that a use in another thread may come before.

| in the model | in the code |
|---|---|
| `start`, `conns`, `key`, `held` | where `start` is, its open TCP connections, whether its key is the doorbell's (`stale`: no longer when `start` began), `_play_sock` |
| `Connects`, `InitCmd`, `Invite`, `Play` | the three connections of `start`, each with one command and its answer |
| `read`: `ReadTests`, `ReadSetsTimeout`, `ReadReceives`, `ReadData`, `ReadEnds`, `ReadWakes` | `read_chunk`, use by use of `_play_sock` |
| `close`: `CloseBegins`, `Shutdown`, `CloseSocket`, `DropSocket` | `close` |
| `turn` | what the owner of the relay's lock awaits |
| `pump`, `TeardownBegins`, `PumpIsCancelled`, `TeardownCloses` | `_pump_task`, and the order in which `_teardown_upstream` cancels it, awaits it and closes |

### Mjpeg

A step is what the handler does between two awaits; `at` says which one it is
suspended on. `Finally` is the way into the `finally` clause with the beginning
of `_terminate` (SIGTERM, or straight on if the process has ended); `grace` and
`kill` are its two waits, `drain` the wait for `stderr_task`, `eof` the last
write. A handler ends `returned`, `unprepared` (out of `response.prepare`,
outside of the `try` block) or `cut` (cancelled in the middle of `_terminate`).
`CancelledAt` says where a cancellation leads at the other awaits. The browser
(`Leave`) and the process (`Exits`) are the environment; a process that was
sent SIGTERM may take it or not.

### Entry

A step is what set-up, unload or flow does between two awaits, or a use of the
client that another thread may come before.

| in the model | in the code |
|---|---|
| `phase` | the await that flow, `async_setup_entry` or `async_unload_entry` is suspended on; Home Assistant runs one of them at a time |
| `life`, `Lives` | one run of `async_setup_entry` with its `Hp7Api` and relay; calls and relays of earlier ones go on |
| `entry`, `disk` | feature code, token and option of the config entry (of the form, while the flow runs), and what of it is saved |
| `featureCode` | `FEATURE_CODE` and `REQUEST_HEADER` of the library's module, which `_apply_feature_code` patches for everybody |
| `client`, `token` | `_client` by the code in its headers, `_token` by the code it was issued under |
| `call`: `CallBegins`, `Construct`, `LogsIn`, `EnsureFails`, `CallEnds` | a call of the API by set-up, poll, button press or key fetch: `ensure_client` statement by statement, then the request |
| `registered`, `armed`, `strays` | `hass.data`; lives with timers, hook and update listener on; lives whose platforms failed to set up |
| `due`, `missed` | a reload that waits for its turn; an option changed while no listener was on |
| `relay`, `watched` | each life's server, and whose stream a view's ffmpeg reads |

`SetUpBegins` (with `Migrate`), `LoggedIn`, `QueryEnds` three times,
`RelayStarts`, `SetUpEnds` are `async_setup_entry`; `QueryFails`, `EnsureFails`
and `PlatformsFail` its failures. `PlatformsUnload`, `RelayStops`,
`CloseBegins`, `Unloaded` are `async_unload_entry` and what Home Assistant
removes after it. `Crash` keeps what `Save` saved.

A life's name is used again once nothing of it is left (`Unused`), so that few
names give any number of lives one after the other.

The parts meet at what each takes for granted of the next. `Relay` starts where
`Entry!RelayStarts` has ended, and its `StopReturns`, which needs every viewer
to leave, is why `Entry!RelayStops` waits for the views' processes. `LanClient` starts
with a key that may be from before a re-pairing, as `LanKey` returns one;
`Relay`'s fairness says that what the lock's owner awaits ends, which is
`LockIsReleased`; its pump ends only by an end of the stream, never by an
exception, which is `PumpSeesNoError`.

## Runs

Each passing property fails under at least one mutant of the module.

| run | configuration | checks |
|---|---|---|
| `relay_faults` | 2 viewers, sessions of 2 chunks, every fault, fairness | types; the pump owns the current session, the registered writer is a live connection and the entity knows of the viewer (`RelayConsistent`); the relay loses a session only if it ended by itself; the keyframe event is the session's, unless the one before it ended by itself; the entity shows no warm session that is not, but the current one if that ended by itself; `Relay` implements `UpstreamSession`; each viewer gets its chunks in order and none twice; abandoned handlers end; `async_stop` returns |
| `relay_steady` | 2 viewers, 1 pre-warm, 2 chunks, only starts may fail, fairness | one session at a time; a warm unwatched one has a closer and does end |
| `stream_path` | streams of 5 frames or stray bytes, reads of 1 to 4 bytes | output independent of cuts; buffers bounded; snapshots as if nothing was ever trimmed; the event means a complete keyframe |
| `alarms` | 2 alarms of 2 kinds, 2 statuses, one sensor with a button, deletions, failing polls, fairness | only new alarms pulse and in order, unless a deletion brings an older one up again; each pulse once the hook is installed was pre-warmed for; complete data; pulses are timed; the last alarm and status arrive |
| `lan_key` | 3 keys, time to live 5 ticks of 6 minutes, refresh every 2, fairness | a returned key is not older than its time to live; the cache stays warm unless two refreshes fail in a row; it ends up right |
| `lan_client` | 2 clients, the doorbell refuses, garbles, falls silent or is paired anew, fairness | no connection to the doorbell is left open; a start with a key from before a re-pairing ends at the INVITE; no read that `close` overtakes raises into the pump; `close` frees the reading thread; the relay's lock is let go |
| `entry` | 4 instances together: threads around a crash and another entry, lives that overlap, views, crashes around options; fairness | tokens and headers carry the entry's feature code; calls have a token; a listening relay can be stopped; handlers leave no ffmpeg behind; an option reaches the camera; an unload gets past the relay once the browsers have gone |

Five runs each find a disagreement between the code and its own words:

| run | the code's words | what happens |
|---|---|---|
| `relay_two_sessions` | "Only one upstream LAN session exists at a time" | after the session ended by itself, the next is started before anything closes it |
| `relay_no_closer` | a grace period "after the last client disconnects" | a broken pipe forgets the viewer without arming the timer; the session stays warm for good |
| `relay_attaching` | "A client connected after the timer was scheduled" keeps the session | a closer that has been spawned closes it under a viewer still attaching |
| `lan_key_rotated` | the key is refetched "the next time a viewer connects" | the cached key is served until the periodic refresh |
| `entry_reload` | "HA cancelled the request handler (entry reload, ...)" | nothing cancels it: the reload waits in `async_stop` until the browser leaves |

Observed on the way, without a run of their own: after the upstream ended by
itself `_keyframe_seen` stays set for the next session (`tcp_relay.py:488`) and
the camera entity goes on showing a stream (`tcp_relay.py:593`); `SeenIsFresh` and
`EntityShowsRelay` state these two cases and check, under every fault, that there
are no others; a spawned
closer forgets the handle of a timer that was renewed meanwhile
(`tcp_relay.py:710`); `read_chunk` raises if `close` comes between its test and
its `settimeout` (`cpd7/lan_client.py:300`), which reaches nobody as the task
that would get it has been cancelled. Without a keyframe older plaintext is
dropped and nothing is emitted, although `cpd7/decoder.py:64-66` says it is
emitted anyway. After a deletion in the app an older alarm is the latest again
and pulses a second time (`binary_sensor.py:383`), although only a *newer* one
should (`binary_sensor.py:299-300`); `PulsesAreNew` says that a deletion is the
only way to such a pulse. A doorbell that was paired anew after it accepted the
INVITE may refuse the PLAY in plain XML, and `start` still succeeds
(`cpd7/lan_client.py:289-294`): the session then delivers nothing. A key that is
out of date before `start` gets no further than the INVITE
(`StaleStartsNothing`). `_discover_local_ip` leaves its UDP socket to the garbage
collector if its `connect` raises (`cpd7/lan_client.py:107-113`), and so does the
relay with an ended session that it overwrites; `SocketsAccounted` is about the
TCP connections that `start` and `close` handle.

In the entry's life: the option is read before the platforms are set up and the
listener registered after (`__init__.py:150-169`), so a change in between has no
effect until the next reload; if the platforms fail to set up, the relay stays
listening and is owned by nobody (`__init__.py:167`); a client that is gone
before `response.prepare`, and a handler that is cancelled during the grace of
SIGTERM, leave an ffmpeg to itself (`mjpeg.py:148`, `mjpeg.py:228`); a refresh
that is under way, or a timer that fires, between `close` and the removal of the
timers makes a new client with the token that `close` has just logged out
(`api.py:606`), and a set-up starts with the stored token whether or not it has
been logged out; a client that is constructed after another entry's patch
carries that entry's feature code (`api.py:223`). The properties name these
cases as exceptions and check that there are no others. A wrong password never
shows as such in the form: `ensure_client` turns the `ValueError` that
`config_flow.py:125` waits for into a `RuntimeError`.

### Bounds, and why they are enough

- *Relay.* Connections and pre-warm calls are used once each. Two connections
  give all pairs of handlers, pump and closers that meet at the lock, a timer of
  one that fires under another, a session lost and replaced, and a stop among
  them; the pre-warm, whose steps are those of an attach without a viewer, is
  added where fewer faults keep the state space small (`relay_steady`). Two chunks give a keyframe that completes before and after an
  attach, a trim, and a hand-over from burst to live. `MinTail = 1` makes a
  keyframe complete one chunk after its first. The theorems below hold for any
  number of each.
- *StreamPath.* Markers are two bytes, so a marker straddles frames and reads;
  five frames of up to five bytes overrun the pending buffer (8) and the trim
  target (6) before and after the first keyframe; the alphabets contain pack
  headers near to and far from a keyframe, halves of both markers, a stray byte,
  a stray `$` and a failed handshake. The theorems below hold for any streams of
  numbers, any reads, cap, look-back, target and minima.
- *Alarms.* Two alarms give new against remembered, and an older that is the
  latest again. Sensors do not interact, so one suffices, with a kind of alarm
  that is not its own.
- *LanKey.* Three keys give a stale store after a second re-pairing; 30, 12 and
  6 minutes keep the proportions of `AES_KEY_TTL` and `_AES_REFRESH_INTERVAL`.
- *LanClient.* Two clients: one that the relay holds or whose reader outlives
  it, and the next that is started. Clients that nothing refers to are collected
  and used again.
- *Entry.* Four instances, of which each run chooses one at the start (`Scopes`),
  as their product is too large: two calls that overlap in one life with a crash,
  another entry and two codes; two lives with a call that outlives its own; one
  view with changes of the option; a crash around a change of the option. One
  crash gives each order of save, change and restart that a second could repeat.
  One caller of each kind at a time. Views do not interact but through the
  relay's stop, which waits for any of them, so one suffices. An unload because
  of an option stands for every unload. A failed set-up that keeps its relay
  needs another life's name, which bounds how many are kept.
- Symmetry over connections and pre-warm calls is used in runs of one invariant only.
  Deadlock is checked except for `StreamPath`, where a stream ends; `Relay` has
  an explicit `Idle` step once all is done.

### Fairness

- *Relay.* The event loop runs every task that can run, timers expire, and what
  the lock's owner awaits ends, as every socket there has a timeout. A viewer
  need not connect, leave, reset or read: `async_stop` is counted on to get past
  its wait only once every handler has ended, and a burst to a viewer that stays
  may block for ever, and is fair only once it has left. The doorbell need not
  send.
- *Alarms.* Polls go on and timers fire (weak); the cloud answers again and again
  among failures (strong, for the two answers only).
- *LanClient.* Threads and tasks run; every blocking call of `start` has a
  timeout. A read may block for ever: its timeout is not counted on, so that
  `CloseFreesReader` is due to `shutdown` alone.
- *Entry.* Home Assistant tries a set-up again, and each of its steps, among
  failures, succeeds again and again (strong); calls end, as requests have
  timeouts; the steps of an unload are taken, `RelayStops` as soon as no viewer
  is left (weak). Nobody need change an option, open or leave a view.
- *Mjpeg.* Handlers run, a cancellation that is due is delivered, waits with a
  timeout end, and a process that was killed ends (weak). A browser need not
  leave or read, ffmpeg need not write, heed SIGTERM or end.
- *LanKey.* Time passes, calls end; EUCAS answers the refresh again and again
  (strong).

## Proofs

For all values of the constants, under the named assumptions of the modules
(`NamesAssumption`, `BoundsAssumption`, `TimesAssumption`, `LookbackAssumption`,
`BufferAssumption`):

- `RelayProofs!TypeCorrect`. Types are inductive for the whole module.
- `RelayProofs!Refinement`: `Spec => ImplementsUpstream`. Types do not suffice.
  The inductive invariant is `IInv == TypeOK /\ Bookkeeping /\ Upstream!Inv`.
  A task that closes finds a session that does not deliver, which
  `UpstreamSession!Inv` says under the mapping; that the closer and the stop find
  no viewer needs `Bookkeeping`: the registered writer is a connected handler,
  the listener was told of it, and once `async_stop` has waited every handler
  that is still connected has a viewer that left. Each action maps to one abstract step or to a stutter.
- From it `LeaksAreEnded`, and `Consistency` with an invariant on the writer and
  the listener.
- `KeyframeIsFresh` and `EntityIsTold`, under every fault. The invariant `Fresh`
  adds that only a teardown leaves the relay without a pump task, that a pump
  which is done has ended the current session, and that the session a spin-up
  opens is the next one; `Told` is the part of `EntityShowsRelay` on warmth.
- `OneSessionAtATime`: assuming that the upstream never ends by itself
  (`"eof" \notin Faults`). `WarmSessionHasCloser`: assuming that no write breaks.
  Each excludes exactly the fault under which a run finds it violated.
- `DeliveryInOrder`: `InOrder` under every fault. Its invariant `Placed` says that
  what each viewer was sent, and the burst that it waits for, come from behind
  the end of the newest session's buffer, and that a handler which has not
  written its burst has been sent nothing.
- `LockServesAll`: each task that waits for `_state_lock` is in its queue once, and
  the owner can go on, under every fault. Its invariant `Queued` adds that a
  connection or a pre-warm call that has not ended has no timer (so none arms one
  whose closer is queued), and that a start or a close that is awaited was begun
  by the owner. This is the safety half of `AbandonedEnds` and `StopReturns`,
  which need fairness and stay with TLC. No run states it.
- `UpstreamSession!Invariance`.
- `LanKeyProofs!TypeCorrect`, `StaleBounded`, `StaysWarm`. The invariant relates
  the age of the cache to the time since its key was replaced, says that a call
  between EUCAS and the store holds a key of this tick, and accounts for the age
  of the cache by the refreshes that failed since the last store.
- `LanClientProofs!TypeCorrect`, `SocketsKept`, `StaleEndsAtInvite`, `PumpSpared`, for
  any number of clients. The invariant has a part for each client by itself
  (`Consistent`: where `start` and `close` are decides which sockets are open)
  and a part on who refers to it (`Held`: the client that the relay holds is
  started, untouched by any `close`, and another than the one being started),
  which keeps a read that raises away from a live pump.
- `AlarmsProofs!TypeCorrect`, `CompleteData`, `TimedPulses`, `NewPulses`,
  `PrewarmedPulses`, for any alarms, kinds and sensors. The invariant's part
  `Ordered` says, whatever is deleted, what each place holds of the alarm
  timeline: nothing that the listeners know is newer than the answer of the poll
  under way (`Past`), and what a sensor was pulsed for, or the hook knows, either
  is what the next update is compared with or never comes again (`Bygone`). An
  alarm that differs from what a sensor remembers is then one that comes after
  all of its pulses (`PulsesAreNew`), and the hook, which is called in the same
  update, finds it different too (`PulsesArePrewarmed`, an action property). `Complete` says when the slow status is there already, `Timed` that what
  is shown or on has a timer.
- `EntryProofs!TypeCorrect`, `TokensAreOwn`, `NoCallWithoutToken`,
  `RelaysAreOwned`, `FfmpegIsStopped`, for any lives, codes, views and crashes.
  `TokenIsOwn` is not inductive by itself: a constructor and a login take the
  library's code of the moment, so `CodeIsOwn` adds that from the first API on
  that code is the entry's or another entry's, and that nothing of an API exists
  while the entry has no code. `HasToken` says that a life has a token from its
  own login on and while its timers are on, which is where every later call
  comes from. `ViewsInv` ties a handler's await to what its process can be.

- `DecoderProofs!FeedInPieces` and `StreamPathProofs!OneShot`, `Bounded`,
  `Untrimmed`, `CompleteSeen`, `LoopEnds`, `OutputGrows`, for any bytes and any
  cuts of them into reads.
  - `FeedIsOneShot` speaks of the output alone, which does not say what the next
    bytes will do. The invariant `HasRead(d, W)` does: the decoder has consumed
    some frames F (`Follows`: its key is what the first of them gave, its output
    and its pending buffer are what `Holds` says of their plaintext), and
    whatever comes next, the frames of all bytes are F and those of its buffer
    with what comes. `Holds` says that the pending buffer is the end of the
    plaintext, whole or at least half the cap; with `LookbackAssumption` nothing
    that `_absorb_plain` could still want was cut off (`CutIsHarmless`).
  - The relay's buffer is the output from its start or from where a snapshot
    once began (`Aligned`). A keyframe that comes later has its pack header
    behind that place or has none at all (`LaterPackIsKept`, which rests on a pack
    header and a keyframe's start never overlapping, as they do not in the code
    either), so that a snapshot and a trim find in the buffer what they would
    find in the output (`CutAlike`).
  - The provers know neither induction nor recursion. `Induction` is proved from
    the least element of a set of numbers, for a set in place of a predicate;
    `Recursion` and `TablesExist` show with it that the recursive functions
    satisfy their equations, after which they are used by these alone
    (`PlainUpToIs`, `FramesUnfold`, `RoundsWithin`).

Only model-checked: all liveness, as fairness and ENABLED are out of the prover's
reach. Every invariant and every action property that a passing run checks is
stated by a theorem.

## Not modelled

The ciphers and key derivation, pure functions over a cryptography library; XML
and headers, beyond what they decide; the formatting of sensors, the choice of
devices in the form, snapshots, statistics and logs. The parts of `api.py` and
`pylocalapi/cas.py` that only build requests and pick values out of answers.
That leaves the cloud API, the EUCAS client, the relay's start, the camera, the
simple binary sensors, the key cache and the flow partly modelled.
`components` of `PROJECT.json` lists every part with its reason, `hazards` every
place where one bites with the properties that cover it.

The modules were written in this order, the session that every view depends on
first: `UpstreamSession`, `Relay` and its proofs; `Decoder` and `StreamPath`;
`Alarms`; `LanKey`; `LanClient`; `Mjpeg` and `Entry`; the proofs of `Alarms` and
`Entry`; those of `Decoder` and `StreamPath`.
