# TLA+ models of go-RFLink

go-RFLink is a gateway between an RFLink radio module on a serial port and an
MQTT broker, with an HTTP API, a web GUI and webhooks. This directory holds TLA+
models of the parts of it in which several goroutines, the network, the clock or
a crash meet, TLC configurations that check them on small instances, and TLAPS
proofs for every value of the parameters. Paths below are relative to `src/`.

    tlc -workers 2 -config MCCommandPath.cfg MCCommandPath
    tlapm CommandPathProofs.tla

## 1. The system

### Goroutines

| goroutine | code | shares with others |
|---|---|---|
| serial loop | `app.go` runSerialLoop, runSerialSession | port, `serialUp`, `serialCh`, retained status topics |
| publish loop | `publisher.go` runPublishLoopInner | `serialCh`, pending buffer, `pingSentAt`, broker topics |
| ping loop | `app.go` runPingLoop | port, `pingSentAt` |
| OnConnectionUp callback, one per connection | `publisher.go` 219-239 | status topics, pending buffer, discovery cache |
| MQTT command callback, HTTP handlers, poll webhooks | `app.go` ExecuteCommand | token bucket, port |
| HTTP handlers | `http_server.go` | runtime overlay, webhook list, sessions, login limiter, discovery cache |
| WebSocket handlers, one per browser | `http_ws.go` handleRawWS | raw hub, raw line buffer |
| runtime watcher | `runtime_config.go` watchLoop | runtime file, overlay, options |
| poll and push goroutines | `webhooks.go` | webhook manager |
| session reaper | `session.go` | session store |
| main / Stop | `main.go`, `app.go` Stop | everything |

### Components

| component | state | operations | what makes it correct |
|---|---|---|---|
| command path | `cmdTokens`, `cmdLastFill`, port | ExecuteCommand, allowCommand, CommandRateStatus, Write | the limiter's bound holds for every interleaving; the answer says what happened; no call waits |
| ping watchdog | `pingSentAt`, `pingFails`, `rflinkUnresp` | sendPing, NotePong, checkPingTimeout | no PING forgotten; verdict follows the count; silence is found, and forgotten when it ends |
| sensor publishing | `pending`, broker's retained topics | PublishSensor, storePending, clearPending, flushPending | no event replayed; the latest value survives an outage |
| serial link | port, delay, `serialUp`, status topics | session loop, Reconnect, SetSerialConnected, OnConnectionUp, Stop | nobody closes the port under its reader; backoff; right topics; Stop ends |
| runtime overlay | runtime.json, backups, `rm.file`, options | SaveOverlay, RestoreBackup, watchLoop, token handlers | files are complete earlier writes; memory and file converge; nothing lost by a save |
| webhooks | list, generation, poll goroutines, `pushSem` | Reload, Stop, runPoll, enqueuePush, handlers | one goroutine per enabled webhook; the last change is in force; Stop leaves nothing |
| GUI sessions | `byID`, `attempts`, `locked` | Create, Get, Revoke, reaper, allow, fail, success | limits hold under overlapping logins; expired sessions go first |
| Home Assistant discovery | `discovered`, broker's retained configs | publishHomeAssistantEntity, publishHAActuators, ClearHADiscovery | what is marked is announced; a reporting sensor is announced in the end |
| raw line hub | `rawLines`, subscribers' channels, the page's list | appendRawLine, subscribe, unsubscribe, broadcast, handleRawWS | no gap between the buffer and the live feed; a slow browser stalls nobody |
| parsing and debounce | `dedupLast` | SensorDataFromMessage, ParseGatewayMessage, dedupKey, isDuplicate | one reading of every line; exactly the retransmissions dropped |

`PROJECT.json` lists all components with their sources, and under `hazards` the
lines where something can go wrong that a test would hardly reach.

## 2. Modules

Every component has a module with its state, an action per step, and its
properties; an `MC...` module and a `.cfg` that give the constants values; and a
`...Proofs` module (PingMonitor and LineIntake, which both model the publish loop,
share PublishLoopProofs, which is why PingMonitor's specification is called
`PingSpec`). `PROJECT.json` maps each definition to the lines it models.
The properties are the commented definitions at the end of each module; a
definition headed "Mutant" is a plausible mistake used to show that a property
notices it, and is not part of the specification. Variables called *history* are
not in the program; they only record what properties speak of and never guard an
action.

A step ends where another goroutine can see the difference: at a lock's release,
an atomic, a channel operation, or a call that leaves the process.

**CommandPath.** `Receive` is a payload arriving at one of `Callers` (read-only
mode answers HTTP callers at once, and only them, as in handleAPICommand).
`Reject`, `AllowCommand`, `DenyCommand`, `WriteOK`, `WriteDown`, `WriteError` and
`Finish` are ExecuteCommand between its locks: the bucket under `cmdMu`, the
write under the reader's mutex, and the rate status of the answer, which refills
the bucket once more. The clock counts ticks of 1/K second and the bucket units
of 1/K token, so that the arithmetic is exact. `Observe` starts a window at an
arbitrary moment; the rate properties are about that window.

**TokenBucket** is the abstract limiter: a credit that grows with every tick up to a
capacity, and requests granted exactly when it suffices. CommandPath refills only
when somebody asks, in units left over from the last time; `Bucket` instantiates
TokenBucket with `Credit`, what an immediate refill would give, and
`ImplementsBucket` says that every step of CommandPath is a step of it or a stutter.

**PingMonitor.** The ping loop's test, write and mark are three steps; NotePong is
three (`pingMu`, then two atomics), checkPingTimeout four. That the timeout or
the dedup window has passed is an event that may come at any time, so every
setting of the two durations is covered. `serialCh` is shared with the lines of all
sensors, which are not in the model: a PONG may find it full and be discarded at any
time (`DiscardPong`). PINGs carry numbers, drawn in a circle, for the properties only.

**SensorPublish.** Every goroutine in PublishSensor has its message, the fields it
still has to publish and its place. A publish may fail with or without having
reached the broker. A message has a measurement (temperature, battery and so on),
an event (cmd, switch), both, or neither; the buffer strips events.
OnConnectionUp callbacks may overlap with the loop and with each other.

**SerialLink.** The session loop from open to read to pause, SetSerialConnected as
an atomic followed by a publish, OnConnectionUp as publish, load, publish; the
broker's retained topics and its will; Stop and the 15 seconds main gives it. A
publish is two steps: publishRaw gets past its checks of connection and context
(`LoopSends`, `CallbackSends`), and it returns (`PublishReturns`), delivered or with an
error that tells nothing about the delivery; between them the context may be
cancelled, which does not stop it. `lost`, `stragglers` and `said` (history) are the
topics whose last publish failed, those a callback was publishing at the
cancellation, and those on which Stop's offline arrived.

**RuntimeConfig.** A file is what a write left: its number stands for the
modification time, and a missing file and one that does not parse (a torn backup, a
garbled edit) are told apart. Somebody may replace, garble or remove the file at any
time; the watcher notes the time first, so that a load that fails is not tried again
(`missed`), and does not see a file that is gone, unless it goes between the look and
the read: then the overlay is emptied and the options stay (`kept`). `names` stands for
the keys that go back to the environment when the file lacks them, `ha` for those
that do not, `tokens` for the list whose slice the handlers share: slices point
into backing arrays, as deleteAPIToken shortens the manager's list in place.
A save is lock, one step per backup slot, the replacement, and the application,
with a failure or a crash possible at each. Modification times are taken to
differ between two writes.

**OverlayStore** is what all that is for, without files, locks or steps: versions of
the settings that are only added to, and the overlay the program works from. A save
adds one version in one step, the overlay with only its own key changed or an earlier
version as it was; it may fail, and then nothing has changed; others may add versions,
which the program reads and installs later; a restart takes the newest. `Store`
instantiates it with the log of writes, the overlay in memory (the file just renamed,
until applyLocked has run), the operation being saved and what the watcher has read;
`ImplementsStore` is the refinement. Tokens are left out of it: a deletion changes
their list before it is saved.

**WebhookManager.** Handlers take the list, save their version and reload. `file` is
the key `webhooks` of the runtime file: a list, or no key, as an empty list is left
out (`OnDisk`), or no file. The watcher notes a write, by whomever, reads, and applies
what it has read (`InForce`: without the key the list of WEBHOOKS_JSON); so it loads the
program's own saves a second time, and a change pays for two Reloads. A restored
backup is noticed by the watcher only. `answered` (history) is the list as requests,
restores and edits have decided it, a reload of the program's own write being no
decision; `atRisk` the webhooks decided while somebody held an older list, `givenBack`
those the file leaves to the environment.
Reload is lock and cancel, wait, install, launch; Stop is cancel and wait, with
Go's wait group in enough detail to see a reuse. A generation is what one Reload
starts.

**GuiSessions.** allow, fail, success, Create, Get and Revoke are one step each;
a request is several of them with anything in between. Create takes the time in
a step before the one that stores.

**Subsequences** has filtering a slice in place, which the limiter does with the times
of failures and deleteAPIToken with the tokens. It is SelectSeq stated without
recursion, by the set of the indices that stay, so that it can be proved about.

**HADiscovery.** Three kinds of goroutine (publish loop, connection callback with its
flush, rediscover requests) share the `discovered` map. Announcing an id is
LoadOrStore, the delivery, and the return of the publish with or without an
error; a failed one unmarks the id, though the broker may have it. ClearHADiscovery
deletes each key at a moment of its own, as a sync.Map promises no snapshot, and
announces the actuators again. What an announcement says is the version of the
settings it was taken from: a sensor's name is set once and stays in the buffer
(applyFriendlyName), a list of buttons is read before its ids are marked. `floor`
(history) is, for each id, the oldest version that may still come out after the
last rediscover.

**SensorMessage** has the two parsers, FieldsForPublish and dedupKey as operators on
the pieces of a line between semicolons, and the reference they are checked
against. A value is reduced to whether it is empty and in which base it is a
number; pieces are trimmed and in upper case already. The reference reads a line at
once, by the last place of each key; the parsers go through it field by field.

**LineIntake.** handleSerialMessage as steps: the buffer, the hook that broadcasts, the
debounce, the parsers; beside it the WebSocket handlers (subscribe, hello, feed,
unsubscribe) and the page's list with its cut from 500 to 400 lines. Writing a
line to the socket and its arrival at the page are one step; what is lost with a
connection is replaced by the next hello. The other half of the hook, NotifyRaw,
is the push of WebhookManager. `Frames` are lines that do not pass through the model:
the parsers are compared with their reference on them (`OneReading`).

How they connect: LineIntake's `Publish` is where PingMonitor (a gateway reply) and
SensorPublish (a sensor) begin; HADiscovery is the part of PublishSensor that
SensorPublish leaves out, with the same buffer and callbacks; ApplyConfig in it is
applyLocked of RuntimeConfig; poll webhooks and HTTP handlers call ExecuteCommand
(CommandPath, whose `CallsReturn` is what WebhookManager's fairness relies on);
PingMonitor's and CommandPath's `PortChange` is SerialLink's loop; SensorPublish's
`ConnectionUp` is the end of SerialLink's callback; SaveOverlay in RuntimeConfig is
`Save` in WebhookManager, and onChange its Reload.

## 3. What TLC checks

Deadlock is checked except where the bounds or the end of the program stop
everything (RuntimeConfig, WebhookManager).

| run | instance | shows |
|---|---|---|
| `command_path` | 2 callers (one HTTP), limit 2, half-second ticks, 1.5 s | `ImplementsBucket`: the limiter grants and refuses exactly as the abstract bucket does; `WrittenBound`: in any window the port gets at most a bucket plus the refill and what was on its way; `ResultsTruthful`; `CallsReturn` |
| `ping_monitor` | threshold 2, channel 1, firmware buffer 1, 2 numbers, PONGs discarded at any time | `PingsAccounted`: the split critical sections are safe because only one PING is outstanding; `VerdictJustified`; `DetectsSilence`; `RecoversFromSilence` |
| `sensor_publish` | 2 sensors (1 ignored), a callback, 3 messages, TTL 1 of 2 ticks | `NoEventReplay`; `LatestSurvivesUnlessRaced` and `OnlyFlushGoesBack`: the only ways a value is lost or taken back; `FlushEnds` |
| `serial_link` | 2 callbacks, delay 3 to 10 | `BackoffExact` (10 is no power of two times 3, so the cap is met); `PortOwned`; `StatusAccurate`: a topic stays wrong only after a failed publish or an overtaken callback; `OfflineIsLast`: what Stop said last stays, unless a callback was publishing that topic when Stop cancelled; `StopEnds` |
| `runtime_config` | 2 requests, 2 backups, 3 files, one fault (crash, failure, or a file edited, garbled or removed) | `OptionsFollowOverlay`: what is in force is what the next save writes; `FilesAreHistory`; `NoMissedUpdate` and `Converges`: the watcher misses only a change before its first look, one whose load failed, and a removal; `TokenNamesDistinct`; `ImplementsStore`: however saves, reloads, edits, failures and a crash interleave, every version is a version of OverlayStore |
| `webhook_manager` | 1 poll, which WEBHOOKS_JSON gives, 1 push, 1 request and the watcher, limit 1 of each, 2 changes (edits with a list that is too long and with none, a backup) | `PollersMatchHooks`; `LastChangeLoaded`; `AnsweredChangesStay`: an answered change stays unless somebody held an older list or the file does not say it; `StopsPollers`; `ReloadsEnd` |
| `gui_sessions` | 2 requests, one address, 2 sessions, 2 attempts, 3 logins, 4 ticks | `FullIsLocked`; `AttemptsBounded`; `ExpiredEvictedFirst`; `ExpiredGo` |
| `ha_discovery` | a sensor of one entity, one button, the loop, a callback, a request, 2 versions | `MarkedIsAnnounced`: no failed publish, skipped id or rediscover leaves an id marked without an announcement that is recent enough; `SensorsAnnounced` |
| `line_intake` | 1 browser, buffer 2, channel 1, list cut from 3 to 2, window 2, pruning above 1 entry, 4 lines; the parsers on all 4 760 lines of up to three pieces behind the header | `NoGap`; `OneReading`; `DedupExact`: every retransmission within the window is dropped, and nothing whose reading did not just pass; `LinesHandled` |

Bounds. `MaxTime`, `MaxMsgs`, `MaxWrites`, `MaxFaults`, `MaxChanges`, `MaxLogins`,
`MaxVersion` and `MaxLines` bound what would grow for ever; ages in LineIntake stop
at the first that makes no difference any more. Each is large enough for its
property to fail under a mutation of the code, which is what the mutants in
`PROJECT.json` show, one for each property. Two callers, two callbacks or two
requests are enough for every race these properties speak of, since each is a
race of two; in HADiscovery one goroutine of each kind, and the second version is
what makes an announcement stale. The runtime run leaves the `ha` keys and more than one fault out for
its size, and in WebhookManager the watcher is the second of two who hold a list; the proofs have no such bounds. No symmetry is used.

Fairness. A goroutine that can go on does (weak fairness); Go's scheduler is
preemptive. `select` chooses at random among ready cases, so neither the serial
channel nor the ticker is passed over for ever (strong fairness of the two in
PingMonitor); a working port does not fail every PING, and not every PONG finds the
channel full (strong fairness of `QueuePong`: the publish loop empties it); publishes and HTTP requests
return by their timeouts. In HADiscovery the loop's publishes, tried again and again
while the connection is up, do not all fail (strong fairness of `Deliver(Loop)`),
and `SensorsAnnounced` takes as a premise that the sensor goes on reporting.
LineIntake assumes only that the loop runs: nothing of the browsers. Mutexes are taken in the end (Go's mutexes hand over to
a starving waiter). The environment owes nothing else: ports, connections,
firmware, edits and requests come or do not come. Two assumptions deserve a
reviewer's eye: a serial read comes back in the end (`SerialLink`, weak fairness
of the loop: the reader has a read timeout, and the scanner gives up after a
hundred empty reads), and `StopEnds` does not need main's 15 seconds, since that
action is not fair.

### Where the code does other than its documents say

Each of these runs expects TLC to find the violation. The property stated is the
document's; next to it is the weaker one that does hold.

| run | document | code | holds |
|---|---|---|---|
| `ping_missed` | "consecutive missed PONGs" (`rflink/publisher.go:114`) | a PONG handled before MarkPingSent leaves its PING outstanding; it is counted | `VerdictJustified` |
| `sensor_latest` | "Pending latest-state buffer while MQTT is down" (`README.md:33`) | a flush overtaken by the loop clears or overwrites a newer value; an event clears a buffered measurement | `LatestSurvivesUnlessRaced` |
| `runtime_owns` | "Explicit empty slice still means "runtime owns this key"" (`rflink/runtime_config.go:198`) | `omitempty` drops the empty list from the file; reading it back restores the environment's tokens | `OptionsFollowOverlay` |

Seen while modelling:

- a full bucket and its refill go through within one second, so that a second may
  see nearly twice the limit that `rflink/options.go:68` calls "max commands per
  second written to serial"; `ImplementsBucket` and `WrittenBound` are what holds;
- a callback may publish a `serial/status` it loaded before the loop changed it, and
  it stays (`raced` in SerialLink); a publish of a status topic that fails is only
  logged and not tried again before the next change or connection (`lost`);
  `StatusAccurate` is what holds;
- deleting the last webhook is undone in the same way as deleting the last token: it is
  saved as no list, and within 3 seconds the watcher reloads that file and puts the list
  of WEBHOOKS_JSON back, although the page says "This stops poll/push for that endpoint."
  (`rflink/http_server.go:2798`; `givenBack` in WebhookManager);
- nobody waits for the callbacks: one that is publishing online when Stop cancels may
  put it after Stop's offline (`stragglers`);
- a hot-reload that fails is not tried again, as the modification time is noted before
  the file is read, and a removed file is not noticed (`missed` in RuntimeConfig and
  WebhookManager: a restored list stays out of force when the watcher fails to load it);
- a file removed between the watcher's look and its read empties the overlay and leaves
  the options as they were (`kept`);
- Stop cancels the context of the MQTT connection before it publishes the two offline
  topics; when the connection is gone by then `serial/status` stays online (the will
  covers only the other topic);
- a Reload may come after the webhooks were stopped, because the watcher is stopped
  later (`late` in WebhookManager);
- deleting a token works on the manager's slice without its lock (`overlapped` in
  RuntimeConfig);
- Home Assistant keys keep their value when a reloaded file no longer has them;
- a rediscover can be answered by an announcement with an old name or label that was
  under way or in the buffer (`floor` in HADiscovery), and the entity is then marked;
- the page may show lines that came between subscription and hello twice (`NoGap`).

## 4. What is proved

For every value of the constants that satisfies the named ASSUMEs (all of which
TLC evaluates in the runs). Each proof shows Init => Inv and
Inv /\ [Next]_vars => Inv', action by action, and then Inv => property.

| theorem | property | inductive invariant and why |
|---|---|---|
| CommandPathProofs!TypeCorrect | TypeOK | itself; RefillBounds keeps the bucket within its capacity |
| CommandPathProofs!LimiterIsBucket | ImplementsBucket | the types; TickRefillsExactly, CreditRefilled and CreditKept say what a tick, a refill and the other steps do to `Credit`, and each action is matched with a step of TokenBucket or a stutter |
| CommandPathProofs!RateBounded, WritesBounded | WindowBound, WrittenBound | RateInv: nothing is counted before the window, WindowBound in terms of an immediate refill (the quantity conserved by refills), and PortBound: written plus still at the port is at most admitted plus early |
| CommandPathProofs!AnswersTruthful | ResultsTruthful | plus AcceptedPast: who is admitted was accepted |
| PublishLoopProofs!PingTypeCorrect | TypeOK | itself |
| PublishLoopProofs!NoPingForgotten | PingsAccounted | itself: that the timeout zeroes what it read and that the mark finds nothing outstanding each make the other inductive |
| PublishLoopProofs!VerdictCorrect | VerdictJustified | VerdictInv: the count at each place of the loop |
| PublishLoopProofs!ParsersAgree, OneReadingAlways | OneReading | no state is involved: a statement about the parsers for every sequence of pieces. SensorDataFromMessage is a fold, so `Parsed` says what its loop has made of any set of fields, read at once; ParsedGrows, that one turn of the loop leads from one to the next; FoldParses, that `Parsed` solves the fold's recursion and that there is no least number of fields from which the fold differs from it (`Least`, in place of an induction). What remains is to compare `Parsed` with the reference, whose numbers of the fields differ by three |
| PublishLoopProofs!DebounceCorrect | DedupExact | DebounceInv: every entry of `dedupLast` is the age of a line that passed, and a line that passed within twice the window has an entry no older than that, so that pruning removes nothing still needed. `KeyReading` says that lines with one key are read alike: the parsers do not look at the counter |
| PublishLoopProofs!FeedComplete | NoGap | FeedInv: the buffer holds the last lines; a channel rises and from its first line on misses only what was lost; list and channel together miss nothing from *any* of their lines on, and step back once at most, and not while the list ends with a line that is yet to be broadcast. The property alone, which speaks of one line to start from, says nothing of what is left when the list is cut |
| SensorPublishProofs!TypeCorrect | TypeOK | itself |
| SensorPublishProofs!EventsNotReplayed, LoopNeverGoesBack | NoEventReplay, OnlyFlushGoesBack | ReplayInv: callbacks and buffer hold stripped messages of the past; the loop holds the newest message, whose event is unpublished while it is still to be done |
| SensorPublishProofs!LatestCorrect | LatestSurvivesUnlessRaced | LatestInv: a sensor is in one goroutine's hands at a time unless raced, the loop's message is the latest of its sensor, what was published without an error was delivered, what a flush holds is not in the buffer as well; the property alone says nothing of a message that is about to be cleared |
| SerialLinkProofs!TypeCorrect | TypeOK | itself, with NextBackoffBounded |
| SerialLinkProofs!BackoffCorrect | BackoffExact | itself; that the recursive Pow2 exists, doubles and grows is derived from `Least` (a set of numbers has a least one) |
| SerialLinkProofs!PortCorrect | PortOwned | itself with the types |
| SerialLinkProofs!StatusCorrect | StatusAccurate | TopicInv: the topic is right, or its last publish failed, or somebody is still going to publish, and what a callback has loaded is current unless raced |
| SerialLinkProofs!OfflineCorrect | OfflineIsLast | who is past the checks after the cancellation was so before it: the loop is not, once Stop has waited for it, and a callback's topic is among the stragglers; `said` begins with Stop's own places |
| RuntimeConfigProofs!SavesLoseNothing, WatcherMissesNothing | MemoryIsFile (of the proofs only), NoMissedUpdate | Inv: numbers of files are at most the last write's, the lock's holder alone saves, and memory, the file being saved and the watcher's buffer agree with the file of their number, which parses, or is gone and then leaves memory empty |
| RuntimeConfigProofs!BackupsAreHistory | FilesAreHistory | FilesInv: the log numbers its writes (LogInv); readable backups are in order in the middle of a rotation too (BackupsOrdered); and the slots a rotation has passed hold the write they will have when it ends (BackupsExact) |
| RuntimeConfigProofs!OverlayIsStore | ImplementsStore | Inv and FilesInv with StoreInv: from the lock to the rename, what is being saved is the overlay in memory with only the operation's key changed, or a write of the past (the backup's, by BackupsOrdered). Each action is then matched with a step of OverlayStore or a stutter: the rename with its `Commit`, the application with a stutter |
| RuntimeConfigProofs!OptionsCorrect, NamesCorrect | OptionsFollowOverlay, TokenNamesDistinct | ListInv: every slice lies within its array; what applyLocked left in Options is the overlay's, its tokens except while a deletion moves them; a deletion that meets nobody is alone, and then every list that is or will be saved (file, backups, the watcher's buffer, the requests', the overlay's) has distinct names. Deleting keeps a list distinct (Kept, by Nth) |
| WebhookManagerProofs!TypeCorrect | TypeOK | Inv with Ranges and Paid: the Reloads done and to come, and the one a write not yet noticed will cause, are at most two for each change, which is what bounds the generations |
| WebhookManagerProofs!OnePollerPerHook, ChangesLoaded, StopComplete | PollersMatchHooks, LastChangeLoaded, StopsPollers | Inv: one reloader at a time, no goroutine alive from its wait to its launch, a Reload to come, or a write to be noticed, or `missed`, whenever the list differs, and Stop's places with what is alive |
| WebhookManagerProofs!ChangesStay | AnsweredChangesStay | Inv with Staying: whatever may be in force later (the list in force, a write of the program that the watcher has read or may still read, what a request is going to save) agrees with `answered` on every webhook that is neither at risk nor given back, the request's own aside. The property alone says nothing of what the watcher or a request still holds |
| HADiscoveryProofs!TypeCorrect | TypeOK | itself, with the stages in which ids are at hand |
| HADiscoveryProofs!DiscoveryMarksTruthful | MarkedIsAnnounced | HeldInv: nothing that may still be announced, in the options, a goroutine, the buffer or a flush, is older than `floor`; FlightInv: a marked id has a publish under way that is not older, or a retained announcement that is not. The property alone is not inductive: a goroutine that has read but not yet marked is what could make it false |
| GuiSessionsProofs!LockoutSet, EvictionFair | FullIsLocked, ExpiredEvictedFirst | Shape (times are numbers) and FullIsLocked |
| GuiSessionsProofs!StoreCorrect | TypeOK | itself: ids are drawn once, so an insertion adds one session, after an eviction made room; what Recent keeps are times again |
| GuiSessionsProofs!RecordBounded | AttemptsBounded | the failures of an address plus the requests admitted from it stay below the bound: a request is admitted only when the record is below the limit, and each fails once |

What the theorems assume of the constants is what the code sets up: limits and
durations are natural numbers (the ones the code keeps above zero are positive), the
requests are finitely many and there is one, the environment's tokens have distinct
names, and so do the tokens of a file somebody edits (`EditsAssumption`;
apiTokensFromRuntime does not look for duplicates, so `TokenNamesDistinct` cannot do
without it). Of the lines `LinesAssumption` says that they are sequences of pieces
and, of those that pass through the model, what the firmware sends: the second
piece of a `20;` line is its counter, a plain word and not `PONG`. dedupKey leaves that
piece out, so were it a field of the sensor, lines that read differently would be
taken for one. The page keeps at least one line when it cuts its list (the code: 400 of
500).

`WindowBound` and the type invariants of CommandPath, PingMonitor, SensorPublish,
SerialLink and HADiscovery are proved and not among the runs' properties: the first is
what `WrittenBound` is derived from, the others are what the proofs begin with.

Only model-checked: all liveness (`CallsReturn`, `DetectsSilence`,
`RecoversFromSilence`, `FlushEnds`, `StopEnds`, `Converges`, `ReloadsEnd`, `ExpiredGo`,
`SensorsAnnounced`, `LinesHandled`), which is out of the prover's reach. Every safety
property of the runs is proved.

## 5. Not modelled

Text and encoding (JSON, HTML, topics, CSV; trimming and case in RFLink lines), the
arithmetic of temperatures, TLS and URL set-up, logging, counters and the sample
buffer; what a discovery message says beyond its age, the discovery prefix, and the
retained configs of buttons that were removed; what the MQTT session sends again by
itself after a reconnect (only SerialLink's `ConnectionUp` allows for it: the topics are
then arbitrary); the subscriptions, whose failure is only logged
(`rflink/publisher.go:232`); routing, CORS, client addresses and
the comparison of secrets; URL checks of webhooks; data races on slice headers
(`Options.apiTokens` and `Options.webhooks` are read without the manager's lock;
the models read a list as one value). The MQTT library, the broker, the firmware
and the file system are modelled from how the code uses them: a rename is atomic,
a copy is not.

## 6. Plan

Done, in order of importance: CommandPath with its refinement of TokenBucket,
PingMonitor, SensorPublish, SerialLink, RuntimeConfig with its refinement of
OverlayStore, WebhookManager, GuiSessions, HADiscovery, and LineIntake with the
parsers of SensorMessage.

Left, extending existing runs where the new part shares their state:

1. API tokens: matching, scope and expiry against the overlay's changes.
2. A composition of Stop over SerialLink, WebhookManager and RuntimeConfig: the order
   of shutdown.
