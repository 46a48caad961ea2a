# TLA+ models of RouteDeck

RouteDeck connects a Windows machine to a proxy server, either by pointing the
per-user **System Proxy** at a local engine (sing-box, with Xray beside it for
some protocols) or by capturing all traffic with a **TUN** adapter run by an
elevated helper. It borrows machine-wide state that other programs also write,
and it has to give it back after a failed start, a disconnect, an engine that
died, an exit or a crash. That is what most of this project is about.

Paths below are relative to `src/`; `application.rs` and the other Rust files
without a directory are in `src-tauri/src/`.

## 1. The system

| Component | State | Operations | Hard behaviour |
|---|---|---|---|
| System Proxy ownership, `system_proxy.rs` | Windows proxy setting, ownership journal, conflict evidence, cleanup preview and journal | publish, is_owned, restore, reconcile, diagnostics, clear_stale | a crash between two file or registry effects; other programs write at any time; failures that leave a part behind |
| Connection lifecycle, `application.rs`, `commands.rs`, `lib.rs` | `State` (session, status, recovery flag, shutdown flag, reconnect intent) under `state`; `operation` serialises commands | start_system_proxy, start_tun, stop, retry_session_recovery, clear_stale_system_proxy, begin_portable_update, shutdown, monitor_tick, reconnect_tick, boot recovery | proofs run with `state` released; the monitor ignores `operation`; rollbacks and teardowns that fail half-way |
| TUN server switch, `server_switch_application.rs`, `server_switch.rs` | two selectors of the running engine, `switching.current`, `uncertain` | switch_tun_server | a lost PUT reply; the engine restarted with another default |
| Subscription library, `application.rs`, `subscription_store.rs` | sources, nodes, order, pending previews, the stored file | preview, confirm, discard, refresh, remove, reset, start-up restore | downloads without the lock; four preview slots; file and memory must agree |
| Elevated TUN helper, `tun_helper*.rs` | pipe protocol state, helper journal, adapter, engine child | start, status, restart, stop, cleanup, stale-session reconciliation | either end dies; late answers; the adapter outlives its owner |
| Engine processes and session directory, `engine_runtime.rs`, `session_recovery.rs`, `windows_process.rs` | child processes in a job object, session files and markers | check, start, stop, restart, inspect and remove stale sessions | interrupted cleanup; the pair of engines restarts as one |
| Portable update, `portable_update*` | staged bundle, coordinator state, target and marker | stage, prepare_install, launch, replace_bundle | killed between two renames; failed launch and retry; a download that outlives its status |
| Update check, `app_updates.rs` | cached result, `running` | check | callers share one fetch |
| UI controller, `src/tauriController.ts`, `src/tauriContract.ts` | wanted connection, mode and server, command queue, last status revision | connect, disconnect, setMode, selectServer, retry, sources, routing | the wanted state changes while a command is awaited; events and results arrive in either order |
| Configuration and domain, `config.rs`, `xray_config.rs`, `domain.rs` | none | build engine configurations and routes | rule precedence |
| Parsing and fetching, `subscription.rs`, `subscription_fetch.rs`, `subscription_windows_dns.rs` | none | parse, fetch | formats |
| Probes, redaction, process and window services, scripts | none that others rely on | | |

How they interact. The UI sends one command at a time through Tauri; each
command runs on a blocking thread, takes `operation` and then `state`. The
monitor thread wakes once a second, runs `monitor_tick` under `state` only and
`reconnect_tick` with a `try_lock` of `operation`. The controller calls the
System Proxy manager while it holds `state`; only the recovery of a retry calls
it without. Status changes are
pushed to the UI as events. Exit is a window event on the main thread that calls
`shutdown`.

What makes each part correct:

- *System Proxy:* RouteDeck's setting is never in force without the journal that
  undoes it; a user's setting is never lost; a result says what really happened.
- *Lifecycle:* an obligation to restore is never dropped; the engine outlives the
  setting that points at it; a disconnect wins over reconnects; after a foreign
  setting was found nothing is published without the user; a green status belongs
  to the running, proved session; every command returns.
- *Library:* memory and file agree; a stale download does not bring back what was
  removed; slots are returned. *Helper:* no adapter without a journal, no cleanup
  of somebody else's. *Update:* never two half bundles without a marker.
  *UI controller:* the last wish of the user is what is finally connected.

## 2. Modules

| Module | Models | Kind |
|---|---|---|
| `SystemProxy` | `system_proxy.rs`, one step per visible effect | detailed |
| `ProxyLoan` | what the manager promises about the user's setting | abstract |
| `SystemProxyLoan` | the refinement mapping from one to the other | refinement |
| `SystemProxyProofs` | the inductive invariants of `SystemProxy`, its theorems and that of the refinement | proofs |
| `ProxyContract` | what a caller of the manager can see: result, setting, journal | abstract, pure operators |
| `Controller` | connection lifecycle of `application.rs` over `ProxyContract` | detailed |
| `ControllerProofs` | the inductive invariant of `Controller`, theorems about journal and engine | proofs |
| `SubscriptionLibrary` | sources, previews and the file that keeps them | detailed |
| `SubscriptionLibraryProofs` | the inductive invariant and theorems of `SubscriptionLibrary` | proofs |
| `TunHelper` | the elevated helper and the application's end of its pipe | detailed |
| `TunHelperProofs` | the inductive invariant and theorems of `TunHelper` | proofs |
| `NodeImport` | servers of a subscription, in its three formats (`subscription.rs`) | pure operators |
| `EngineConfig` | the configurations generated from them (`config.rs`, `xray_config.rs`, `server_switch*.rs`) and how an engine routes by them | pure operators |
| `ProtectedConfig` | what the helper accepts of a configuration (`tun_helper.rs`) | pure operators |
| `Provisioning` | the way from a subscription to a running engine, composed of these three | composition |
| `ProvisioningProofs` | the inductive invariants and theorems of `Provisioning` | proofs |
| `PortableUpdate` | `portable_update.rs` and its Windows part | detailed |
| `UpdateCheck` | `app_updates.rs` with its page, `src/appUpdates.ts` | detailed |
| `UiController` | `src/tauriController.ts` over the backend as its statuses show it | detailed |
| `SessionDirectory` | session files, sealed engines, the helper's journal, stale-session cleanup | detailed |
| `ServerSwitch` | the requests and answers inside `switch_tun_server` | detailed |
| `EngineProcess` | check, launch, containment and stop of one engine | detailed |
| `SessionDirectoryProofs` | the inductive invariant and theorem of `SessionDirectory` | proofs |
| `UiControllerProofs` | the inductive invariant and theorems of `UiController` | proofs |
| `PartsProofs` | the inductive invariants of `EngineProcess`, `ServerSwitch`, `UpdateCheck` and `PortableUpdate`, and what the run of `MCParts` shows of the parts | proofs |
| `MCSystemProxy`, `MCController`, `MCSubscriptionLibrary`, `MCTunHelper`, `MCProvisioning`, `MCParts` | instances for TLC | |

Who builds on whom: `Controller` takes the manager from `ProxyContract`, one step per
call; `ServerSwitch` opens its step `Switch`, `TunHelper` its child in TUN mode,
`UiController` replaces its command thread. `Provisioning` is the pure part of a start
(`Connecting` in `Controller`). `SessionDirectory` has the files `EngineProcess` guards and
`TunHelper` journals in. `MCParts` runs `Provisioning`, `PortableUpdate`, `UpdateCheck`, `UiController`,
`SessionDirectory`, `ServerSwitch` and `EngineProcess` side by side in one state space, because they share no variable.

### SystemProxy

`registry` is the Windows setting by what the code distinguishes (DIRECT, a
loopback proxy, another manual or automatic one, RouteDeck's own, and the two ways in which the
registry values and the WinINet flags may disagree: "flat", which a cleanup may still turn off, and
"half", which it leaves when it fails between its two writes), `journal` and
`evidence` are the files, `pc` is the step of the call in progress, `expect` the
setting it read. Each read, file operation and write of the setting is a step of
its own, another program may write between any two, a file may be left torn, and
the process may die anywhere and start again. `legible` stands for the conditions
under which every snapshot is refused (a RAS connection, a machine policy). `userSetting` is a history variable: what somebody other
than RouteDeck chose last. `RacingWriters` says whether another program may write
between a comparison and the write it guards, a window Windows gives no means to
close.

### ProxyLoan

The note (journal), the setting, what somebody else chose last and the last answer, with the
actions Note, Take, GiveBack, Forget and SwitchOff. `SystemProxyLoan` maps a setting with
RouteDeck's marker to one "ours" and a whole journal to the setting it would restore; every
read, comparison, link, crash and restart is a stutter or one of these actions.

### ProxyContract

Three operators give, for a setting and a journal, the possible results of publish,
restore and is_owned together with what they leave behind, as a caller sees them when the
call is over. `Controller` is built on them. They are read off the same code as
`SystemProxy`; that the two agree call by call is not checked mechanically, the refinement
above is about the setting and the note at every moment.

### Controller

| Variables | Code |
|---|---|
| `registry`, `saved` | the Windows setting, the journal (`ProxyContract`) |
| `core` | engine process |
| `active` | `State.active` with `system_proxy_requires_restore` (`restore`), `generation` (`gen`), `consecutive_probe_failures` (`fails`), `switching.uncertain` |
| `phase`, `err` | `State.status`; errors by the classes `finish_connection_attempt` and `reconnect_tick` distinguish |
| `recovery`, `shutting`, `intent` | `recovery_required`, `shutting_down`, `reconnect` |
| `op`, `st` | the two mutexes |
| `pc`, `cmd`, `job`, `probe` | where each thread is, and its locals |
| `off`, `conflict` | history, read by properties only |

A step is what the code does between two points at which another thread, another
program or a crash could matter: taking or releasing a mutex, a call to the proxy
manager, starting or stopping the engine. Intermediate phases shown while `state`
is held are merged (`Connecting`, `Stopping`): no other thread can act on them.
What a probe, a process check, a file check or an engine returns is a
nondeterministic choice, limited where the code's answer depends on modelled
state (a dead engine proves nothing; a setting that is not ours is not owned).
`start_tun_locked` and `start_system_proxy_locked` share their actions; where they
differ, a guard says so. The monitor's timers (a probe every ten seconds, a
reconnect after its delay) are abstracted to "may be due".

Session generations are random. The monitor remembers at most one, so two values,
with a fresh one always different from the remembered one, distinguish exactly
what the code can distinguish.

### SubscriptionLibrary

`sources`, `nodes`, `order`, `pending` and `inflight` are the fields of `State`; `file` is
`subscription.json`; `jobs` are the command threads, whose download runs without the lock;
`saving` is the moment between the write of the file and the change of the memory. `active`,
`targets` and `intent` are the servers a session, a switch and a reconnect hold as copies. A
subscription is the sequence of its servers' update keys. A refresh reserves its slot before it looks at
its source. The process may be killed
anywhere and may find its file unreadable.

### TunHelper

Per session: the pipe (`toHelper`, `toParent`, each at most one frame, as both ends wait for
their answer), what the helper does (`pc`, `last`, `after`, `holds`), its journal and its
engine (`run`, `alive`); Windows keeps one `adapter` of the name, with `routes`. The
application has `child`, `call` and `open`, and a deadline may pass before any answer. The
application, a helper and an engine may die anywhere; adapters and routes come after the
engine and may go after it. A stop of the engine that fails marks the journal (`MarkConflict`) and
only then drops the engine (`DropEngine`).

### Provisioning, NodeImport, EngineConfig, ProtectedConfig

An entry of a subscription is a function from field names to what stands in them ("ok",
"empty", "bad", or the word that is compared with); a configuration is a record whose rules
and outbounds are those sing-box reads. `Decide` is the engine: the first rule that
matches. `Provisioning` imports, generates, seals, validates and launches in steps, so what
one of them assumes of the one before can be checked. `:>`, `@@` and `Picked` (a part of a sequence,
in its order) are the project's own in `NodeImport`: the provers know nothing of the built-in ones.

### PortableUpdate, UpdateCheck

A folder is a release, whole or not, edited or not, with or without the marker that keeps an
incomplete installation from starting. Threads of the GUI and updaters are steps of their own
and may be killed; others may edit a folder. In `UpdateCheck` each command is a thread before
the mutex, in the wait, or in the fetch; the page has its timer and its poll.

### UiController

`queue`, `step`, `call` and `reply` are the promise chain: what runs, which await it stands at,
the command that was invoked and its result. `events` are statuses on their way. The backend
is a session, an intent and a growing revision. `off`, `refused` and `settled` are history, read by properties
only: the user's last word was to disconnect; a start was served while another session ran, and so refused; the last change
was reconciled without an error. The module assumes what Tauri's channel gives: events
keep their order and a result does not overtake the events before it.

### SessionDirectory, EngineProcess, ServerSwitch

`SessionDirectory` creates, renames and removes one file per step, with a kill in between, for
the application's directory, the helper's nested one and their sealed engines. The second directory of a
REALITY pair is made and inspected in the same way, apart from the first, and is not in the model. `EngineProcess` is a
process, its children, its job and the handles that guard its files; each Windows call may
fail, and the owner may be killed between any two. `ServerSwitch` has the selector that
carries traffic and the candidate's; a PUT may be carried out with its answer lost. It assumes
that a PUT the engine received takes effect before the client's two seconds are over: a later one
would change the server unnoticed, and nothing in the code could see it.

## 3. Runs

| Run | Expect | Shows |
|---|---|---|
| `system_proxy_safety` | pass | journal before setting, truthful results, no lost user setting, evidence before a conflict is reported, and the refinement of `ProxyLoan` |
| `controller_safety` | pass | all safety invariants and action properties of `Controller` |
| `controller_liveness` | pass | commands return; a lost System Proxy connection is attempted again |
| `library` | pass | slots, memory against file, ids, removals and refreshes with two concurrent commands |
| `tun_helper` | pass | one tunnel, evidence for what is left, truthful stops, frames in order; an orphaned helper leaves |
| `parts` | pass | the eleven properties of the parts that share no state |
| `system_proxy_racing`, `controller_recovery_shown`, `controller_preserved`, `controller_uncertain`, `controller_nothing_to_restore`, `tun_dead_helper` | violation | section 5 |

Bounds. `system_proxy_safety` has two ids per kind of user setting (ids, owners and tokens are interchangeable; no liveness), two
publications and three cleanup tokens: enough for a journal of one publication
while another program or a later publication is in force, and for a preview that is
older than the setting. `controller_safety` has one command thread, one server, both
modes, three settings of other programs (two DIRECT ones, so that "the user changed
it to DIRECT" differs from "the user changed it back", and one manual proxy), crashes
and every command; `Sustained` is 3 instead of the code's 6, the least value for
which one failure, the second that degrades the status, and the last that triggers a
restart are different. One server is enough because requests that differ in the
server only fail as a request for the other mode does. Sessions and restarts are not
bounded: generations are reused.

`controller_liveness` restricts the commands to connecting by System Proxy, disconnecting
and updating, other settings to two DIRECT ones, and leaves out kills (after one nothing is owed to
a command). Checking liveness of the whole instance exceeds what one run can do.

`library` has two threads (two downloads at once, or one and everything else), two slots, a
legacy source and one import, a refresh of each, and three servers: a list that gains a server in
front, one that loses all, and a full library happen. Threads and tokens are interchangeable
(symmetry; no liveness in that run). `tun_helper` has two sessions, the second while the first helper is
still at work or after a restart of RouteDeck, two engines each and two requests after the start, so that a
restart and a repeated stop both occur.

`parts`: entries with three departures from the plain form at a time, in every format and
protocol, and libraries of up to three servers with every policy, mode and DNS setting, three traffic
and two application rules (rule order needs two of each). Updates: three releases and two stagings, so that a
second download runs beside a first and a newer release appears meanwhile, and one edit by
others. UI: two servers, two modes, rules that change, two wishes, so that one changes while the command of
another is awaited, and four things the backend does by itself: with fewer it cannot lose a session,
reconnect it and lose it again around one refused start. Session directories: both levels,
two engine files, one foreign file; kills are not bounded. A switch: three servers,
three exchanges, two restarts. An engine has no bound. Versions: this one, a newer one and a
pre-release.

Runs without deadlock check are those whose behaviours end: a bound is used up, or a process is
gone and nothing is owed.

Fairness. Strong fairness for every command thread, the exit handler and the
monitor: each is an operating-system thread, and a step waits only for a mutex. A
mutex of the standard library is not first-come-first-served, so weak fairness would
not do: the monitor could take `state` each time the waiting thread is enabled. The
hold times are short compared with the second the monitor sleeps, which is why a waiting
thread gets its turn. Strong fairness of the reconnect steps says that the delay,
capped at one minute by `reconnect_delay`, passes; commands, foreign writes, engine
deaths and crashes are never owed. Engine start, probes and file operations end:
the code gives each of them a timeout.

`tun_helper` assumes weak fairness of each helper's steps: it is a process of its own, each
step waits at most for a deadline, and the read of an abandoned pipe ends. Nothing is owed by the application,
by adapters or by routes. The property it is for is what makes a killed RouteDeck harmless.
`UpdateCheck` and `UiController` state what a waiter waits for as invariants, which need no fairness.

## 4. Properties

`SystemProxy`: `OwnedHasJournal`, `HonestOutcome`, `UserSettingSurvives`,
`ConflictLeavesEvidence`, `ImplementsLoan`.

`Controller`, passing:

- `JournalHasOwner`: while a journal exists, a session or the recovery flag is
  obliged to undo it.
- `NoDeadEndpoint`: no step removes an engine while the setting points at it.
- `StartsOnlyWhenSafe`: an engine is started only with nothing to recover, no
  shutdown or update under way, no journal and somebody wanting it, at the moment of
  the start and not only when the command was accepted.
- `DisconnectWins`: after a disconnect has returned with the session gone, nothing
  runs or is planned until the user asks again (one command at a time).
- `ExitIsClean`, `ReadyHasSession`, `ToldConflictPauses`.
- `CommandsReturn`, `Reconnects` under fairness.

`SubscriptionLibrary`:

- `SlotsAccounted`: no error path keeps a slot or returns one twice.
- `RestartShowsTheSame`: ids, order and servers in memory are those the next start reads,
  `RemovedStaysRemoved`, `RefreshBuildsOnLatest`: no stale download replaces anything.
- `SessionRunsStoredServer`, `IdKeepsItsServer`: no session, switch or reconnect uses
  a server that is not the one the user sees under that id.

`TunHelper`: `OneTunnel`, `ResidueHasEvidence`, `TruthfulStop`, `FramesMatch`, and `OrphanStops`
under fairness.

`parts`:

- `GeneratedIsAccepted`: the helper accepts whatever the application seals, and every exit
  a restart could choose.
- `TrafficFollowsPolicy`: the engine's first-match rules do what the user's routing says,
  the probes prove only the exit they name.
- `ImportKeepsSecurity`: nothing a server asked for (TLS, pins, ECH, REALITY, obfuscation) is lost
  between subscription and outbound.
- `InstalledIsWhole`, `ReleasesKept`: what can start is one whole release; what is called ready
  was staged whole; while nothing can start a complete old release is there.
- `EveryWaitEnds`: every waiter waits for a fetch that runs; a page that shows a download will
  learn its end.
- `IntentHonoured`: once events and results are all in, in whatever order, the status shown is the backend's; and
  when the last change was reconciled without an error, then nothing runs, nor will by itself, if the user's last word was to
  disconnect; otherwise what runs is what he chose last, with his rules, unless the start that made the intent was refused.
- `CleanupIsSafe`: what a killed process leaves can be cleaned up, other programs' files and sessions
  in use are not touched.
- `SelectionIsKnown`: unless the session says that it does not know, its traffic takes the
  server it names, whichever request, answer or engine was lost.
- `EngineIsContained`: an engine and its children run only for a living owner that still
  wants them, from the files that were verified and under guard.

Each has a slip of the code it would catch, written next to the definition it changes
("Slip: ...").

## 5. Where the code and its documents disagree

Each run checks one property that a document or a comment states, and TLC finds a
behaviour of the code that breaks it.

1. `system_proxy_racing`: compare and write are two steps; a setting written in
   between is replaced.
2. `controller_recovery_shown`: the result of a repeated connect replaces the
   `RecoveryRequired` status of a teardown whose restoration failed while its proof ran. RouteDeck's
   setting is still in force and the flag stays, so everything is refused, but the error and the state that offers the
   retry are gone; `docs/ui-spec.md:351-352` wants a persistent error that names what remains.
3. `controller_preserved`: the rollback of a failed start drops the fact that a foreign
   setting was preserved, and the next automatic attempt takes the setting over. A teardown
   drops it too when its child does not stop.
4. `controller_uncertain`: the engine of a session with unknown exit server is
   restarted.
5. `controller_nothing_to_restore`: when the journal could not even be created, stop, retry
   and exit fail for ever on its absence.
6. `tun_dead_helper`: after the helper process died, `stop` writes to its pipe without looking
   whether it has exited and fails on the poisoned pipe for ever, although nothing is left.

Smaller disagreements met on the way, which have no run of their own:

- `stop` clears the intent before it queues for `operation`; a connect already in the
  queue stores a new one afterwards. With `Renderers = {ui1, ui2}` the invariant
  `DisconnectWins` fails; the UI never has two commands in flight.
- During `BlockedByConflict` the user may restore exactly the journalled setting; when the
  engine later dies the teardown reports `Restored` and the monitor publishes again.
- A failed TUN start whose child could not be stopped, then a successful retry, leaves a TUN
  intent that is neither paused nor served.
- The monitor's green status rests on an ownership check made before the probe
  (`application.rs:3348` and `3532`), so it may be wrong until the next tick.
- A repeated connect that succeeds leaves `consecutive_probe_failures` alone; a restart after
  the sixth failure then happens under the green status it set.
- A repeated `stop` of a helper after a lost answer is refused on the poisoned pipe
  (`tun_helper.rs:596`), while `docs/core-spec.md:567` and row TN-16 of `docs/test-matrix.md` say that it
  succeeds after a verified cleanup.
- A library file that cannot be read at the start (`application.rs:938-991`) gives an empty library, and the next
  confirmed import overwrites the file; `README.md:73-75` of the repository says imports preserve previous servers.
- The import accepts VLESS with REALITY and `alpn` or `insecure`, which `xray_config.rs:79-90` always refuses to
  generate. A server marked `insecure` can never be started: `docs/core-spec.md:186` and row E2-09 of the
  test matrix describe an approval, but every request passes `insecure_approval: None`. `DnsPolicy::Vpn`
  is never requested. One library beyond the size of a sealed configuration makes every TUN start fail.
- `update_key` does not tell a Hysteria2 server with obfuscation from one without: its only kind counts as 0,
  as does none (`domain.rs:291-300`). The comment at `subscription.rs:193-195` says that `spx` is discarded; it is kept and reaches Xray as `spiderX`.
- Installing while a download runs sets the status to "error" although the thread runs on; a second download may
  then run beside it, and the first one's end reports "ready" with the older release beside the version of the newer
  (`docs/portable-updater.md:12-13` says that Settings shows the actual prepared version).
- A kill can leave what recovery refuses for ever: from the first write of `config.tmp` until the marker is whole
  (also with a whole `config.tmp`, and between the rename and the marker),
  while a failed creation is undone, inside the copy of an engine file, inside a write of the
  journal. `docs/session-recovery.md` lists interrupted cleanup, but no interrupted creation, among what its
  fixtures cover. `CleanupIsSafe` is about all other moments (`torn`).
- Killed between `CreateProcessW` and the assignment to its job, RouteDeck leaves a suspended process
  that nobody ends. It never runs.
- The error of a failed switch is of the stage `Runtime`, for which `reconnect_tick` restarts the engine,
  and nothing clears it while `uncertain` is set: such a session is restarted at every delay until the user disconnects.
- UI: the outer catch of `retry` sets `wantsConnection` to false after the user has chosen another server,
  whose reconciliation then does nothing, while the backend reconnects to the old one. A server chosen after
  a retry of a recovery is not reconciled either, against the text at `App.tsx:409`; nor is a mode
  chosen while `initialize` finds a running session.
- `docs/ux-work-plan.md:11` says "Latest selection wins", but the intent is replaced (`application.rs:1711`) before the
  request is known to be possible. The user sees a session that failed and chooses another server, while the backend has
  already reconnected the first: his start is refused, but its server is in the intent. He goes back to the first server, the
  interface sees that it runs and sends nothing, and when it dies the backend connects the one he abandoned. With
  the bounds of `parts`, `IntentHonoured` fails without its exception for `refused`.

## 6. Proofs

Every property below that a run checks on a small instance is proved for all values of the
constants. Assumptions on constants are named `ASSUME`s of the modules that declare them:
requests, uses, settings and thread names of `Controller` are of the sets the code has,
`Sustained` exceeds 2, the bounds of `TunHelper` are numbers (with a request for the start),
`MaxPreviews` is one, and a subscription is a sequence. Those of the provisioning chain are that a request says only what the
enums of `domain.rs` can say and that its ports are not those held for the core's control, the candidate and the
bridges (`RequestsAssumption`; `PortReservations` holds all of them at once), that `MAX_APP_RULES` is a
number (`LimitsAssumption`), that an entry of a subscription is what a parser has
read (`TextsAssumption`: a JSON object, a URL query), that a connection is TCP or UDP
(`ConnectionsAssumption`), and that the tags `node_tag` makes of up to `MAX_SWITCH_NODES` positions differ from each
other (`TagsAssumption`; it formats the position). Those of `MCParts` are that a session starts with at least
one server and that no engine file is named as what stands for a directory or for a file of somebody
else. All hold of the code's values.

`SystemProxyProofs` proves for every number of settings, owners and tokens:

- `TypeCorrect`, `OwnershipTheorem` and `HonestOutcomeTheorem` from one inductive
  invariant, whatever other programs do. `OwnedHasJournal` is not inductive: whether a
  restore may remove the journal depends on what the call in progress has read and on
  what it has already written, so the invariant says for each step what holds of the
  journal, the setting and `expect` there.
- `UserSettingTheorem` under the assumption that nobody writes inside a compare-and-write
  window (`~RacingWriters`): the invariant adds that from a comparison to the write it
  guards the setting still is the one that was compared. Run `system_proxy_racing` shows
  that the assumption is needed.
- `EvidenceTheorem` (`ConflictLeavesEvidence`) with `Archived`, which a restart re-establishes by archiving again.

It also proves `LoanTheorem`, `Spec => ImplementsLoan`, from the same invariants and assumptions:
one lemma per action shows that it takes the mapped variables to the same place or makes one step of
`ProxyLoan`. The comparison before each write is what makes `Take` and `GiveBack` possible there, and
`CompareOK` carries it from the read to the write.

`ControllerProofs` proves for any set of command threads, servers and requests, with or
without crashes, from the assumptions of `Controller`:

- `TypeCorrect`, and `JournalTheorem` (`JournalHasOwner`) and `EndpointTheorem`
  (`NoDeadEndpoint`) from one inductive invariant `Inv`. `JournalHasOwner` alone is not
  inductive: the start sets the obligation between a publication and the next step, a rollback
  lifts it before the engine is stopped, and other threads run meanwhile. `Inv` therefore adds
  who holds which mutex at which step (`Locks`), that a setting of RouteDeck's has a journal
  (`Covered`, from the contract of the manager), that an engine belongs to a session
  (`Engine`), that a session without an obligation means there is no journal (`Owed`), and what
  holds of session, journal and flag at each step of a start, rollback, teardown or recovery
  (`Progress`). `Owed` and `Progress` are claimed of a living process only; a crash keeps
  `Covered`, and the boot recovery re-establishes the rest.
- There is one lemma per action. The session record is looked at only through `Up`,
  `MustRestore` and `IsTun`, which is what `SessionKept` and `SessionFreed` are for. Of the proxy
  manager the proofs use only `PublishFacts` and `RestoreFacts`.
- For `EndpointTheorem`, `EngineLeaves` shows that only `RollBackStop` and `TeardownStop` remove
  an engine, and `Progress` that the journal is gone by then; `Covered` does the rest.

Because the number of command threads is arbitrary, these results do not depend on the UI
sending one command at a time.

The second half of `ControllerProofs` adds to `Inv` what relates a thread's locals to the state it left behind
when it gave up a mutex:

- `ReadyTheorem` (`ReadyHasSession`) and `ExitTheorem` (`ExitIsClean`), for any number of command threads. The
  monitor probes with `state` released, so `ProbeFresh` says that a session with the remembered
  generation is like the one that was probed; `Certain` that from the proof to the status
  the exit server is known; `Announced` that an obligation without a session is in
  the status whenever `state` is free, which an exit then finds.
- `DisconnectTheorem` (`DisconnectWins`) and `StartsTheorem` (`StartsOnlyWhenSafe`) under the hypothesis
  `OneAtATime`, that at most one thread runs a command of the UI, as the queue of `tauriController.ts`
  guarantees. It is needed: with two command threads TLC breaks both, by a start that is accepted
  between the `stop.cancel` and the `stop` of a disconnect. Automatic reconnects, the exit
  and the update gate still interleave with the command. `Own` says which thread runs which command and who may hold
  `operation`; `Stops` and `Withdrawn`, that a disconnect has cleared the intent from its first
  step until it returns; `StaysOff`, that afterwards no thread is on the way to a connection; `Admitted`,
  that no shutdown or update begins while an engine is being started.
- `ToldTheorem` (`ToldConflictPauses`), without that hypothesis. What makes it hold is who is inside: whoever found a
  foreign setting holds `operation` until the intent is paused (`Found`, `ToldPauses`), and the
  monitor takes `operation` only with an intent that is not paused. A new process starts without a
  conflict to remember (`Forgotten`).

`SubscriptionLibraryProofs` proves the seven properties of `SubscriptionLibrary` for any number of threads, previews, sources and refreshes:

- `SlotsTheorem` (`SlotsAccounted`) by counting: `inflight` is the number of threads that download.
- `SessionTheorem`, `IdTheorem`, `RemovalTheorem` and `RefreshTheorem` (`SessionRunsStoredServer`, `IdKeepsItsServer`,
  `RemovedStaysRemoved`, `RefreshBuildsOnLatest`). A command writes the file and changes the memory one step later,
  and a kill between the two makes the file the memory of the next start. So the
  invariant is claimed of the file (`Stored`) and of the library that is about to be taken over (`Held`) as well as
  of the memory. Ids decide the rest: `Own` is the set of ids a source's servers can have got before
  a revision, and `Drawn` says that the id in the intent cannot be drawn again, not even after its
  server is gone.
- `RestartTheorem` (`RestartShowsTheSame`) with `Shown`: memory is what a start makes of the sources in it (`ById` and
  `Listed`), what is being saved is what a start makes of the file. A refresh or a removal changes the list in
  memory by filtering and splicing, a start makes it by concatenation (`Servers`, a `FlattenSeq`); that they agree is shown
  by splitting the list around the source (`Splits`, `AroundSource`, `WithoutSource`, `SplicedIn`). It needs that no two
  servers have one id: across sources by `Own`, within a source because a refresh that keeps ids takes a different
  place for each occurrence of a key (`Kept`, `Counted`, `RefreshedApart`).
- `TypeTheorem` (`TypeOK`) with `Typed`: every server is listed exactly once, and the library stays within its limits.
  What the next start reads may be too large; then it is not shown.
- `Servers` and `Filtered` are recursive. The library's induction theorems take an operator as a parameter, so
  `Induction` and `ListInduction` state induction for sets instead, from a least counterexample; `Recursion` and
  `RecursionOnce` give such a recursion its values, `FlattenAppend` and `FilteredAppend` its step, and the
  lemmas on concatenation (`ServersConcat`, `FilteredConcat`, `ListedConcat`) follow by induction over the list.

The only assumptions are that the limits are natural numbers (`LimitsAssumption`) and that a subscription is a finite list
(`SubscriptionsAssumption`).

`TunHelperProofs` proves `TypeCorrect`, `OneTunnelAtATime` (`OneTunnel`), `EvidenceRemains` (`ResidueHasEvidence`),
`StopIsTruthful` (`TruthfulStop`) and `FramesInOrder` (`FramesMatch`) for any number of sessions, engines, requests and
starts of RouteDeck:

- The invariant is `Session` (what the application believes), `OneDirectory` (at most one session directory exists,
  and whoever is at work keeps one) and, for each helper h, `At(h)`. That there is one tunnel follows from
  `OneDirectory` and `Engine(h)`: an engine needs its helper, its helper a directory, and a new
  session is made only when there is none.
- The parts of `At(h)` need each other: `Evidence` (a journal from before the launch until the adapter is gone) needs
  the order of the steps; `FramesMatch` needs `Pipe` (one frame is on its way, or the helper works, or
  neither) with the numbers accepted so far; a truthful stop needs `Known` and `Wanted`, that the answer in
  the pipe is about the engine the application knows of and not an earlier one; and `Told` carries what was verified to
  the moment the answer is read, while an adapter could return only with an engine.
- A step of a helper changes what is its own (`Local`), so its lemma proves `At(h)` only, and `LocalInv` the rest.

`SessionDirectoryProofs` proves `CleanupTheorem` (`CleanupIsSafe`) for any set of engine files and any number of
files of other programs. What a cleanup may find depends on where whoever made it stood when it was
killed, and on where an earlier cleanup stopped:

- `Progress(h)` says for each step of the owner of a session what is in its directory: no marker before the config is
  whole, every engine file whole outside a copy, the marker until everything it stands for is gone. It is
  claimed up to what a write or a failed creation left torn (`torn`) and up to files of other programs.
- A killed owner is "gone", and what `Recognised` says of that step is what the next start needs: the directory is
  empty, or marked and known (`Kept`), or an old session of the kind the older rules accept (`OldLeft`).
- `Planned` says that a plan covers all that is there, with nobody at work. `CleanupInv` shows from it that the order of
  removal (`Rank`) keeps the directories acceptable after every single removal: a marker goes only when
  nothing else is left beside it.
- `InUse` is what a session in use has written so far. A step of one owner leaves the other's session as it
  is (`Other`, `Same`), so each action has one lemma about its own session.

`PartsProofs` proves eight properties of the specification that the run `parts` checks:

- `SelectionTheorem` (`SelectionIsKnown`) for any number of servers, exchanges and restarts. `SwitchInv` adds where the
  selector may differ from the session: only between the PUT that turns it and the answer that proves it or turns
  it back, only to the server that was proved as a candidate; a session that does not know has no exchange under way.
- `WaitTheorem` (`EveryWaitEnds`). `Fetching` says that whoever waits for a check waits for exactly one fetch that
  is under way, and `Polling` who will hear the end of a download.
- `ReleasesTheorem` (`ReleasesKept`) and `InstalledTheorem` (`InstalledIsWhole`) for any number of stagings, updaters
  and releases. `Replacing` has the reason: whoever marked the installation is alone in the steps up to its unmarking,
  because the marker is created once and only an unmarked installation can be marked; what he moves in was
  verified and marked before. `Kept` says that every folder an installation was or is stays whole, and `Staged` that
  what is ready came of a download that is over.
- `EngineTheorem` (`EngineIsContained`). `ProcessInv` adds what the property needs of the steps before the engine
  runs: `Guarded`, a launch under way holds the handles that keep its files as sealed, and `InJob`, from before the
  first instruction the process is in the job, so that losing the last handle ends it and what it started.
- `DirectoryTheorem` (`CleanupIsSafe`) and `IntentTheorem` (`IntentHonoured`) take the results of `SessionDirectoryProofs` and
  `UiControllerProofs` over to the instances in `MCParts`.
- `PartsTypeTheorem` (`PartsTypeOK`), for all parts. Most types follow from the invariants above. `ChecksTyped` adds for
  the update check that Settings shows a check exactly while its command is under way, which needs that no result and
  no answer says so, and `ChainStep` (`ProvisioningProofs`) that the chain has a configuration exactly from the stage at
  which one was generated, for exits that are servers of the library.

`UiControllerProofs` proves `TypeCorrect`, `ShownTheorem` (`ShownIsCurrent`) and `IntentTheorem` (`IntentHonoured`) for
any number of servers, wishes and changes the backend makes by itself, with no assumption on constants. Neither property
is inductive: both speak of a moment at which all is in, and every step before it has to lead there.

- `Revisions`: the statuses on their way are consecutive revisions up to the backend's, so whoever has all of them
  has the last; that is `ShownIsCurrent`.
- `Truth`: a status that is no older than the answer of the last command (`Fresh`) is true of the intent and
  the session, though not of the phase (`Faithful`), because between two commands the backend only loses a session or
  reconnects its intent. This is why the loop may decide by what it was told when a command has returned.
- `Rules`: what runs or would be reconnected has rules between those of the last start that succeeded and the latest, so
  it has the latest when the two are equal. `Between` spares the proof the order in which they came.
- `OffHeld` and `Pending`: after a disconnect nothing is wanted; from the moment its stop is answered the intent is
  gone; and who wants a connection after it has an operation in the queue behind it.
- `Matched` with `Chosen`: from the end of the last change on, what runs and what would be reconnected is what
  the user wants, and later operations of the queue (a refresh, a removal) keep it so. `refused` is what `Truth` and
  `Chosen` have to except (section 5).

`ProvisioningProofs` proves three properties of the whole chain, and its types (`ChainTypeTheorem`), for any set of texts, requests
and connections:

- `TrafficTheorem` (`TrafficFollowsPolicy`). `ImportInv` keeps what was imported, `RoutingInv` that the sealed and
  the launched configuration have the rules and the default of the request: neither the insertion of `combine_configs`
  (`CombinedRoutes`) nor the exit a restart chooses (`RestartRoutes`) changes where a rule stands. What those rules
  decide is pure: by `VerdictThrough` a list of rules decides like its first part with what its second
  part decides as the default, so the rules of a request are followed part by part (`Decided`, `LaterDecide`): probes,
  DNS, own addresses, IPv6, traffic rules, applications by path and by name, LAN. `VerdictOfApps` and
  `VerdictOfTraffic` say that a user's list, filtered and translated, still decides by its first entry
  that matches.
- `SecurityTheorem` (`ImportKeepsSecurity`). `ParserKeeps`: what each of the parsers accepts it keeps in the
  node, else it refuses the entry; there is one lemma per format and protocol. `SelectedSays`: a generator says of
  a node what the node says (`Says`), and renaming an outbound for a session changes nothing of it (`SaysTagged`). `ExitInv` keeps
  for the session's exits that they are nodes of the library and have the outbounds made for them. For REALITY the engine hands over to a
  sidecar: the bridge's port leads to one inbound, its rule to one outbound, made for that very node, because ports
  and tags differ (`SidecarOfExit`, `XrayTells`, `TellsNode`).
- `AcceptedTheorem` (`GeneratedIsAccepted`), the agreement of the generator with the validator. What a parser
  accepts has the fields its generator relies on (`ParsedFits`); the outbound made of it is in the closed field
  graph of the helper (`VlessSchema`, `HysteriaSchema`, `NaiveSchema`, `BridgeSchema`), as are rules, inbounds and DNS
  servers (`SingleInSchema`). `SplitUndoesCombine`: what `split_config` takes out of a session is the very
  configuration `combine_configs` was given, the DNS binding and the place of the candidate's rule included, so that
  the helper's checks of each exit are checks of what was generated for it (`ExitPasses`; `RulesPass` for the order
  of the rules). `SplitPasses` has the checks of the whole session, `PortsApart` among them. `AcceptInv` then says
  that no session is rejected and that the helper counts as many exits as the application.
- Filtering is recursive in the code and `Picked` here; `PickedFacts` says what it returns, by induction over
  sets (`Induction`, `Ordered`) as in `SubscriptionLibraryProofs`.

Every invariant and every action property of the passing runs is proved for all values of the constants. Only
model-checked is liveness (`CommandsReturn`, `Reconnects`, `OrphanStops`), which the proof system does not reach.

## 7. Not modelled

- `start_local_proxy`, which no part of the UI calls; wording, diagnostics and latency numbers.
- Of the helper: the elevation prompt, the security of the pipe, the identities of processes and images.
- Of the engines: access-control lists, reservation and ownership of ports, the captured error output.
- Of the configurations: JSON text, addresses and ports beyond their class, matching of application paths
  (`app_rule_matching.rs`).
- Of subscriptions: URL and base64 decoding, size limits, the fetch with its DNS and redirects.
- Of the portable update: the transfer, digests and signatures other than "whole or not".
- Of the UI controller: import previews and commits, reset, refreshes in the background, diagnostics and the
  stale-proxy dialogue, whose backends are in `SubscriptionLibrary` and `SystemProxy`; views, saving hooks and the demo.
  `queuedOperations` goes down in the step that ends an operation, one microtask before the code does it.
- Of the System Proxy: a program that saved a setting RouteDeck published and writes it back later.
- The second session directory (`_sidecar_config`, `application.rs:489-495`) of a REALITY pair.
- Health probes (a nondeterministic outcome wherever they are used), redaction of logs, the single-instance, process-list
  and window services, build and verification scripts: no state that another part depends on.

Removal of a server from the library while it is connected is represented in `Controller` by a start that fails.

## 8. Plan

1. `ServerSwitch` as a refinement of the switch step of `Controller`, and `SystemProxy` call by call
   against `ProxyContract`.
2. The rest of the UI controller: previews and commits against `SubscriptionLibrary`.
