# EzOpenPN: TLA+ models, model checking and proofs

EzOpenPN installs and runs a small personal VPN server: a control plane
(Python, FastAPI, SQLite), an Xray server under a Go supervisor, a Hysteria
server, a Caddy gateway, a certificate exporter and a set of installer scripts
(Bash with embedded Python). This directory models the parts whose correctness
depends on interleavings, failures, crashes and recovery. Paths below are
relative to the repository root.

## Inventory

| Component | State | Operations | Interacts with | What is hard |
|---|---|---|---|---|
| Profile control plane: `control/src/ezopenpn/profiles/coordinator.py` | one RLock, its callers' program counters | create, enable, disable, delete, reconcile | database, Xray gRPC API, supervisor socket, Hysteria HTTP API | two threads; remote calls that fail, time out, or act late; a crash between two calls |
| Profile repository: `profiles/repository.py`, `models.py` | rows with state, error code, date of disabling | insert_pending, set_state, set_runtime_error, delete_local | coordinator | legal transitions through every error path |
| Reconciliation and health: `profiles/reconcile.py`, `web/app.py` | RuntimeHealth.ready | startup and 60 s reconciliation, publication of the result | coordinator, Xray | results published out of order |
| Hysteria auth: `web/routes/hysteria_auth.py` | none of its own | answer to an auth request | repository, Hysteria | the answer races a revocation |
| Runtime clients: `integrations/*.py` | none | deadlines of 3 s and 4 s, error mapping | Xray, supervisor, Hysteria | a deadline that passes while the server goes on |
| Xray supervisor: `runtime/internal/supervisor`, `runtime/cmd/xray-supervisor` | the child, the failure budget, a mutex, channels | Run loop, POST /restart, health, orderly exit | Xray, control plane, signals | Go selects with several ready cases, abandoned requests, kill timeouts |
| Upgrade transaction: `installer/lib/upgrade.sh`, `state.sh` | release directories, `current` link, configuration, unit and CLI, install.json, database, journal, checkpoint, stage | update, reinstall, installer on an existing server; rollback; recovery | systemd, Docker, backup archive | a kill between any two effects; swallowed statuses; reboots |
| Backup and restore: `installer/lib/backup.sh`, `installer/backup_archive.py`, `control/src/ezopenpn/backup.py` | archives, the restore's preimage | backup, restore, return to the preimage | panel, database, systemd, installation | files replaced one by one without a journal; foreign, damaged and half-written archives |
| Node configuration: `installer/lib/configure.sh`, `installer/render_config.py`, `config.py`, `web/app.py`, `profiles/links.py`, `security/secrets.py` | secrets, drawn material, rendered files, what each running service loaded | draw, render, load, hand out links | every service, installation, restore | values that several files and processes must agree on, drawn once and kept for ever |
| Installation: `installer/lib/install.sh` | phase checkpoint | 12 phases, rollback, repetition | everything on the host | a crash in a phase |
| Removal, firewall, lock: `remove.sh`, `firewall.sh`, `lock.sh` | firewall record, lock | remove, apply and remove rules | the operations above | rules applied before they are recorded |
| Administrator authentication: `security/*`, `web/preauth.py`, `web/routes/auth.py`, `web/middleware.py`, `cli.py` | challenges, throttle rows, sessions, password and session version | login page, login, pages, logout, init-admin, reset-password | database, the command line as a second process | several transactions per login, rows written from values read before |
| Certificate export: `runtime/internal/certsync`, `runtime/cmd/cert-sync` | three files | discovery, export, health check | Caddy, Hysteria | files that are renewed while they are read, a crash between renames |
| URL and QR formatting, preflight, diagnostics, prompts, pages | none | pure or sequential | | nothing a model checker is needed for |

What makes the modelled components correct:

- *Control plane*: a revocation reported successful is final; a reconciliation
  that succeeds leaves exactly the active profiles in Xray; the service
  converges after failures; rows move only along the table of transitions.
- *Supervisor*: one Xray at a time; a 202 means a fresh Xray; an abandoned
  restart never follows a later success; calls and the process end.
- *Upgrade*: between operations the server is on one whole release; an
  interrupted operation can be ended by repeating the command; the switch is
  atomic to an observer who trusts the journal.
- *Authentication*: failures are spaced as the throttle promises, a challenge
  buys one attempt, a session ends with its idle time, its age, its logout and
  the next reset; the password set last stays in force.
- *Node*: what the panel hands out is what the running transports accept, through
  interrupted installations, backups, restores and a rebuilt server; a restore
  ends with the archive or with what was there before.
- *Certificate*: a health check that passes saw a pair that could be served; the
  export recovers from a stop between any two renames.

The hazards, each with its line and the properties aimed at it, are in
`PROJECT.json`.

## Modules

| Module | Models | Notes |
|---|---|---|
| `ProfileLifecycle` | what the database promises about one row (abstract) | `LegalTransitions` is the repository's table |
| `ProfileControl` | coordinator, repository, reconciler, reconciliation task, auth endpoint | instantiates `ProfileLifecycle` |
| `ProfileControl_proofs` | theorems about `ProfileControl` | |
| `Supervisor` | Run loop, restart handlers, main | |
| `Supervisor_proofs` | theorems about `Supervisor` | |
| `ReleaseSwitch` | what an update promises (abstract) | four parts change together |
| `UpgradeTransaction` | update, reinstall, recovery, rollback | instantiates `ReleaseSwitch` |
| `UpgradeTransaction_proofs` | theorems about `UpgradeTransaction` | with the refinement of `ReleaseSwitch` |
| `AdminAuth` | challenge, throttle, sessions, login, logout, init-admin, reset-password | |
| `AdminAuth_proofs` | theorems about `AdminAuth` | |
| `NodeConfig` | a node's files and services, the installation | no `Spec` of its own |
| `BackupRestore` | backup and restore, composed with `NodeConfig` | extends it; its `Spec` has both |
| `BackupRestore_proofs` | theorems about `BackupRestore` and, in it, `NodeConfig` | |
| `CertSync` | discovery and export of the certificate, the health check | the gateway is its environment |
| `CertSync_proofs` | theorems about `CertSync` | |

### ProfileControl

One step is one database transaction or one remote call. `frame[t]` is the call
stack of a thread: `loop` runs the POST handlers, `worker` runs the coordinator
for `asyncio.to_thread`. `lock` is the coordinator's RLock. The runtimes are
`users` (accounts), `vless` and `hy` (open sessions), `pend` (gRPC mutations
whose caller has timed out and which Xray may still apply), `restartDue` (a
restart the client gave up on and the supervisor may still perform), `granted`
(an auth answer on its way to Hysteria). The operations follow the code call by
call: `Create`, `Enable` -> `AddUser` -> `SetActive` -> `BundleForRecord`;
`Disable`, `Delete` -> `PrepareDisabled` -> `Kick` -> `RemoveUser` -> `Restart`
-> `WaitReady` -> `ListActive` -> re-adding -> `finish`; and the reconciliation
through its `r_` steps. `revoked`, `straggler`, `drift` and `lastReconcile` are
history variables used by properties only.

External behaviour is modelled from how the code uses it: Xray applies or
rejects a request and may do so after the caller's deadline; a new Xray process
has no accounts and no sessions; Hysteria registers a session some time after
the auth answer.

### Supervisor

Each goroutine is a process: `pc` of `ProcessManager.Run`, `call[r]` of each
POST /restart handler, `main`. Unbuffered channels are rendezvous steps, the
response channel is a one-place cell. Any ready case of a select may be taken.
Time is not modelled, timers may fire at any moment, with one exception, which
is an assumption about timing: a trial period (500 ms of `stableDuration`) does
not end with success while the client has already closed the connection and
`net/http` has not yet cancelled the context (`Disconnected`, a guard of
`TrialPassed`). The client is the control plane, which makes one call at a time
because every restart is inside the coordinator's lock. The socket set-up
(`server.go` 83-147) is file-system preparation and is left out.

### UpgradeTransaction

One step is one durable effect of the script. `releases`, `current`, `config`,
`tools`, `version`, `db` are what is on disk; `config = 0` stands for files of
two renderings. `journal`, `checkpoint`, `stage` and `leftovers` are the
transaction's own files; `ctx` holds the script's `UPGRADE_*` variables; `pc` is
the next step, with the prefix `rb_` in a rollback and `old_` where the
untouched old stack is started again. `OnFailure` is the three-way decision at
the end of `_upgrade_transaction` (clear the journal, start the old stack, roll
back). The faults:

- `fail`: a command of the script returns an error (any step that looks at it);
- `journal`, `tools`: a failure whose status the script loses;
- `kill`: the script dies between two effects; `gap`: between the two unlinks
  of `_upgrade_clear_journal`; `torn`: while it holds an `O_EXCL` temporary file;
- `reboot`: the server restarts and the enabled unit starts what is on disk.

Download, signature verification, image pulls and rendering have no effect on
the server until the stage is complete; they are one step. Removing the
script's own stage and unlinking its own files are taken to succeed. A `restore`
run in the middle of an interrupted update is not modelled.

### AdminAuth

The tables are `admin` (0 stands for no password; passwords are numbered in the
order they were set), `sessions`, `throttle` (one row per address and per folded
login) and `pages` (how many challenges were stored at each time: a nonce is
known to its holder only, so nothing else tells two of them apart). `login` is
the one POST /login the event loop runs, since it awaits nothing after its form;
`request[r]` are the threads of the pages; `command` is the CLI in its own
process. `session_scope` opens its transaction at the first write, so
`verify_credentials`, `create`, `authenticate` and `reset_password` are a read
step and a write step and another process may come between; the services that
start with BEGIN IMMEDIATE are one step. A write changes the columns that
SQLAlchemy found changed, not the row. One login writes the hash: one that
checked the first password against a hash of outdated parameters
(`admin.outdated`, `Rehashed`); `overtaken` is a history variable, set when a reset
commits between the check and that write. The peer is the gateway; the forwarded
address counts only while its name resolves (`IsTrustedProxy`).

A challenge or session is taken to be presented by its holder: a token that
names no row is refused without a change of state and is left out. Durations are
in ticks of an abstract clock that only stays or grows.

### NodeConfig and BackupRestore

A random value is a number (`draws` counts them), so two files agree when their
numbers do; -1 stands for a file that is cut short. `disk` is what is on disk, `live` what each
running service loaded at its start: a file that is replaced under a running
service changes nothing until it starts again. The installation goes through
`Following`: the record of the phase, three secrets, the material, the five rendered
files, stack.env, certificate, migration, runtimes, unit, checks; each run repeats
all of them and keeps what it finds. `configure_layout` ends with the status of its
last secret, so an unsafe file among the first two is only met by
`configure_runtime_material`. Material that is there is checked by
`_validate_runtime_material` (`CheckMaterial`), whether this run drew it or an
earlier one, and by the renderer. `FallbackLimits` and `Limits` are the ranges of
both programs in units of 64 KiB; `DrawnPairs` are the limits of the two directions
as the redraw loop of configure.sh leaves them, `AcceptsLimits` is what the renderer
accepts, which refuses equal ones, and `DrawnLimitsFit` compares all pairs. The
drawn values are from `Multiples`, in the runs the two ends of the range.

`leftovers` are the three temporaries of fixed names that the installation opens
with `O_EXCL` before the `try` that unlinks them: of current.json (`checkpoint`),
of stack.env and of install.json. The fault kind `torn` is a kill that leaves one of
them, or a secret that is cut short. A leftover makes the next write of that file
fail: the first record of a phase, so the whole run; install.json, after everything
else is done; stack.env only if there is none yet, because
`_install_stack_environment` answers with the status of its `chown`. If there is one
it stays in use, and for the same release and address its contents are the same; a
repetition with another release's installer is outside the model. The other writers
of the installation use random names or open the file anew. A loss of power in the
middle of a write is such a kill followed by `Reboot`.

`op` is the backup or restore under way. A restore validates, takes its preimage
with the services running, stops them, applies the parts in the order of
`apply_payload`, starts and checks; a failure goes back to the preimage, a second
one ends it with the outcome `lost`. `mixed` is a history variable: the files
come from more than one node or moment. `Offered` lists what may be wrong with an
archive; archives survive a rebuilt server, which may have another address.

### CertSync

A certificate and a key are numbers; they fit when the numbers do. The gateway
writes the two files of a renewal in either order, one at a time, into a place of
its storage, for this address or another. The exporter reads a certificate and a
key in two steps (`ReadCertificate`, `FindPrivateKey`), so it may meet half a
renewal. The export is one `Rename` per file with `SyncDirectory` after the second
and the third; until then `durable` keeps what a loss of power may leave. The
health check is a process of its own that reads three files one by one;
`probe.held` is a history variable: the pair that health.json named was in the
directory at a moment of the check. The gateway's own files are taken to survive a
loss of power as they are, and a place whose second file was never written stays
half renewed.

The order of the renames is what makes the check sound. Fullchain is replaced
before privkey, and the check reads them in that order, so two files that fit
were in the directory together. health.json need not have been: with two places
that lose and regain their pair, the check may join a health.json that has just
been replaced to the pair it names, exported again since.

## Runs

`tlc -config <run>.cfg <module>`; sizes are distinct states.

| Run | Checks | Bounds | Result |
|---|---|---|---|
| ProfileSafety | TypeOK, RevocationSound, HysteriaRevocationSound, DisableRestoresOthers, ReconcileExact, RecordConsistent, LifecycleSpec, Convergence | 2 profiles, 1 client, 4 operations, 2 faults of all 8 kinds; 512,698 | holds |
| SupervisorSafety | TypeOK, SingleChild, SuccessIsFresh, NoLateRestart, CleanExit, CallsEnd, SignalEnds | 2 calls, 2 crashes, budget 1; 1,091,721 | holds |
| UpgradeSafety | RestIsWhole, ServesOwnSchema, AtomicSwitch, InterruptedOperationEnds | 3 releases, 4 faults of fail, kill, reboot, 1 change; 96,286 | holds |
| UpgradeFaults | TypeOK, JournalUsable | 2 releases, 3 faults of all kinds; 83,163 | holds |
| ProfileVlessSurvives | DisabledVlessCloses | one crash | violated |
| UpgradeCheckpointGap | InterruptedOperationEnds | one kill in the gap | violated |
| AdminThrottle | BackoffEnforced, OneAttemptPerPage, LivePageKept | 1 address and the gateway, 3 logins, 3 attempts, 2 open pages, window 2, delay up to 2, clock to 4; 3.8 million | holds |
| AdminSessions | TypeOK, SessionsFollowReset, NewPasswordKept, SilenceEnds | 2 page threads, 1 session, 2 resets, a first hash that is outdated or not, idle 2, absolute 3, clock to 4; 1.5 million | holds |
| RestoreSafety | TypeOK, LinksConnect, AppliesOnlyWholeNodes, SavedMaterialRenders, IdentityStable, ReturnedIsBefore, RestoredIsArchive, InstallResumes | 2 addresses, 1 rebuild, 1 panel write, 3 archives, 6 kinds of archive, 2 faults of all 4 kinds, the least and the greatest limits; 756,418 | holds |
| CertExport | TypeOK, HealthyWasServable, ExportConverges | 2 places, 2 renewals, life 2, clock to 2, 2 faults; 1,507,800 | holds |
| AdminResetRace | OldPasswordLoggedOut | one reset | violated |
| RestoreUnjournaled | AlwaysOneNode | one reboot | violated |

Why the bounds are enough to be interesting. Two profiles are the target of an
operation and one bystander, which is all that any step of the coordinator
distinguishes; four operations allow create, create, disable, enable, and two
faults allow a failure inside the handling of another. Two restart calls are the
abandoned one and its successor; two crashes exceed the budget of one. Three
releases allow an update after an update, and four faults allow a recovery that
is itself interrupted more than once. A clock to 4 crosses the throttle's window
and the lifetime of a challenge, three attempts reach the limit of the delay, and
idle 2 and absolute 3 let either end a session. Two resets let a session meet
the version of the next but one. Three archives are a backup, the backup of
another server or moment, and the preimage of a restore; two faults are a
failure and one on the way back. Two places with a renewal each, at two moments,
make the choice of the longest matter, and a clock to 2 lets the older one expire. Deadlock is checked except in the supervisor's
run, where the process is meant to end, in AdminAuth, where bounds and clock run
out, and in BackupRestore, where a node may rest.

What some of these runs do not say. UpgradeSafety is without the fault kinds
`journal`, `tools`, `torn` and `gap`, so RestIsWhole does not see a lost journal
write or host tools of another release, nor what a recovery takes back; and
InterruptedOperationEnds there lets the downloaded installer do the recovery as well
as the installed command. JournalUsable, checked with all kinds, speaks of what the
phase on disk needs, not of whether it is the latest phase or can be replaced.
RecordConsistent and LifecycleSpec accept a row in ERROR without a code, which a crash
inside `_prepare_disabled` leaves.

The violated properties quote a document or the code's stated intention and are
explained one by one under "findings" in `PROJECT.json`:

1. A control process that dies between removing an account and restarting Xray
   leaves the disabled profile's VLESS session open for good: reconciliation
   restarts Xray only when it finds an extra account (ProfileVlessSurvives).
2. A checkpoint left without its journal blocks every later command
   (UpgradeCheckpointGap).
3. A reset of the password between a login's password check and its session row
   leaves the holder of the old password signed in (AdminResetRace).
4. A restore keeps no journal: after a reboot among its files the services run on
   two nodes' files, and nothing repairs it (RestoreUnjournaled).

The models show more that no run reports, each reproduced by one changed
constant or formula:

- a failed Hysteria kick is never repeated: `DisabledHysteriaCloses` in the place
  of the property of ProfileVlessSurvives, with `FaultKinds = {"kick"}`;
- the reconciliation task publishes its result a second time, outside the lock,
  and may overwrite a newer one: `HealthCurrent` as an invariant with
  `FaultKinds = {"rpc"}` and two faults;
- a journal write that fails goes unnoticed (fault kind `journal`), and recovery
  acts on an older phase: `RestIsWhole` with `{"journal", "kill"}` and two faults;
- after a reboot just before the switch the old stack serves, and the recovery
  takes back what was changed in it: `EarlyInterruptionKeepsWrites` with
  `{"reboot"}` and one write;
- a reset can be undone: a login that checked the first password against an outdated
  hash writes its new hash after the reset and so overwrites the password just set
  (`admin.py:94-95`). `NewPasswordKept` excepts exactly this (`overtaken`); without
  its second disjunct AdminSessions fails;
- an installation that was killed cannot always be repeated, as
  `docs/troubleshooting.md:34` and `:57` ask: a secret cut short, a leftover
  current.json.tmp or install.json.tmp, and a leftover stack.env.tmp before the first
  stack.env make every later run fail. `InstallResumes` excepts exactly these
  (`Stuck`); `InterruptedInstallEnds` in its place in RestoreSafety fails;
- a restore that lost a tree (killed between its two renames) cannot be repeated:
  the preimage needs every tree, and both the snapshot and the check of the
  offered database need a running panel;
- the preimage is taken before the services stop: what the panel stores in
  between is lost when a restore goes back, which is why `ReturnedIsBefore`
  leaves out the database;
- with the fault kind `torn`, InterruptedOperationEnds fails: an `install.json`
  temporary file left by a kill makes every later rollback fail;
- with `Modes` without `install`, a reinstall killed after it removed the release
  directory deadlocks: the CLI has no libraries, only the downloaded installer
  recovers;
- `current` is switched before migration and health check, where
  `docs/architecture.md:48` says after; AtomicSwitch is about the journal's view
  for that reason;
- a Hysteria session granted just before a revocation may appear after its kick,
  given that Hysteria authenticates and registers in two steps:
  HysteriaRevocationSound excepts exactly these (`straggler`).

## Fairness

- *ProfileControl*: weak fairness of the threads' steps and of the
  reconciliation task. Every remote call has a deadline, so a step is always
  taken; the task is an endless `asyncio` loop with a 60 s sleep. Nothing is
  assumed of the administrator, of clients, or of late effects beyond what
  `Convergence` needs: that a bounded number of them happens.
- *Supervisor*: weak fairness of the Run loop, main, each handler and each
  context deadline: goroutines are scheduled and timers fire. Nothing is assumed
  of Xray, of the client or of signals.
- *UpgradeTransaction*: the script runs on, and an interrupted operation is
  repeated. The second is an assumption about the administrator, whom the error
  messages and `docs/recovery.md` ask to do so.
- *BackupRestore*: an installation that is not complete is run again, and its
  steps go on unless a fault meets them. Nothing is assumed of backups, restores
  or the panel.
- *CertSync*: the exporter's ticker fires and its steps go on, and Docker repeats
  the health check. Nothing is assumed of the gateway. `AdminAuth` has no liveness property and no fairness.

## Proofs

Checked by TLAPS (`tlapm <module>_proofs.tla`) for all values of the constants:
any number of profiles, calls, releases, addresses, threads, archives and
places, any durations and any number of faults. The named assumptions on the
constants (`ProfilesAssumption`, `BoundsAssumption`, `CallsAssumption`,
`PolicyAssumption`, `UpgradeConstants`, `AuthConstants`, `PositiveDurations`,
`NodeConstants`, `ArchiveConstants`, `CertConstants`) say which constants are
numbers and which of them are positive (durations, the release, the number of
places of a storage), that `NoProfile` is not a profile, and which kinds of faults
there are. One assumption is stronger and stands in the theorems that need it:
`Ordinary` in three theorems about upgrades, explained below.

Every invariant and every action property that a passing run checks is stated by a
theorem, with the name of the property in its statement. Each proof has the same
plan: an inductive invariant, a lemma that says which actions write which
variables, one lemma per action or group of actions, and the property as a
consequence.

*ProfileControl_proofs.* `TypeCorrect`, `RevocationIsSound`,
`RecordsAreConsistent`, `ImplementsLifecycle`, from the invariant `IInv`.
RevocationSound is not inductive: nothing in it says that a thread about to add
an account is not adding a revoked one. `IInv` adds who is inside the lock
(`LockInv`), that an operation's target is not revoked while it provisions it
(`TargetInv`), that pending additions are active profiles (`TodoInv`), and that
a revoked profile is not active and, past the restart of its own revocation, has
no account, session or queued request (`RevokedInv`). The proof has one lemma
per group of actions (provisioning, revocation, reconciliation, requests,
transports, environment), one step per action and, below it, one per conjunct.
The refinement shows that each step is a step of the life cycle or leaves the
database alone; the consistency of records then follows from the life cycle.

`HysteriaRevocationIsSound`, `OthersAreRestored` and `ReconciliationIsExact` come
from `KInv`, which is inductive relative to `IInv`. It says what is true between
the first step and the verdict of an operation: after the kick its target is silent
unless an answer was in flight (`HysteriaInv`); what disable or a reconciliation
still has to add is what Xray lacks (`RestoreInv`, `ExactInv`). Reconciliation
needs equality where disable needs inclusion, because it also removes.

*Supervisor_proofs.* `OneChild`, `FreshAfterSuccess`, `AbandonedNeverFollows`,
from `SInv`: the running child is the newest one (`ChildInv`), which request is
being served and in which control state (`ServingInv`), calls are in order
(`OrderInv`), and a response of success is only given for a child started after
the call (`ReplyInv`). `ExitIsClean` follows from `EInv`, which adds that Run
returns nil only when the child is gone and that main keeps exit code 0 only when
that is what Run returned; `SupervisorTypeCorrect` comes with it.

*UpgradeTransaction_proofs.* Two invariants. `JInv` holds under faults of every
kind: what a journal names is there (`JournalInv`), and the script's variables
agree with it on the way forward and back (`ForwardInv`, `BackInv`). It gives
`JournalAlwaysUsable` and `UpgradeTypeCorrect`. `WInv` adds, for each step of the
script, which parts of the server are already of which release: `EarlyInv` and
`RestInv` (nothing is replaced yet, or all of it is back or through), `ForthInv`
and `BackwardInv` (how far the switch and the way back have come), `LateInv` and
`AgreeInv` (what the way back needs is of the old release). It gives
`RestAlwaysWhole`, `StackServesOwnSchema` and, as a refinement of `ReleaseSwitch`
with `Settled` as the mapping, `UpdatesSwitchAtomically`. These three assume
`Ordinary`: the faults are failing commands, kills and reboots, in any number. The
other kinds (a lost status, a file left by a kill) are the defects listed above:
with `journal` RestIsWhole is false.

*AdminAuth_proofs.* `AInv` has one part per table. `AdminInv`: the session version
counts the resets, and a reset that has read the row still finds it as it was,
since only commands write the version and one runs at a time. `LoginInv` and
`SessionInv`: a session's version counts the resets at the moment it was read, so
a session is accepted only if none came after (`ResetEndsSessions`), and a row
that threads rewrite from old values still expires within Idle of a request that
was accepted (`SessionsExpire`, with `RequestInv`). `PageInv` counts the rows of
the challenge table (`AttemptsAreBought`). `ThrottleInv` relates a throttle row
to the history of failures: the row's count is at least the length of the present
streak, so the row blocks at least as long as the streak calls for, which with
the monotony of powers of two gives `BackoffAlwaysEnforced`. `PagesAreKept` is an action property.
`PasswordIsKept` needs `PasswordInv` besides: only the first hash can be outdated, so
a login that is about to write one carries the first password, and either that is
still in force or the last reset overtook the login. It holds for outdated hashes
too; the exception is in the property, not in an assumption.

*CertSync_proofs.* `CertTypeCorrect` and `HealthyIsServable`, from `CInv`. Its core
is that between the first two renames the directory has the new chain (`SyncInv`),
so a key appears only beside its own chain; hence, if the chain that the check read
and the key that is there now both fit the record, they were there together
(`ProbeInv`). The number of places is assumed positive: with none the walk of the
model would read a place that does not exist.

*BackupRestore_proofs.* `RInv` follows a node through installation, backup, restore,
reboots, kills and new servers (`RestoreInvariant`). `LockInv`: one operation at a
time, on an installed node or on one that is not. `NodeInv`: unless the files are
mixed, each file is absent or made from the one material, and each service is down
or runs on these files; without the second half nothing would say that a service
started before a file was rendered agrees with it. `ArchiveInv`: an archive that is
not mixed is a whole node at the address of its own install.json. `RestoreInv`: what
is to be applied fits the node (`TargetInv`), the preimage has the files the restore
began with (`PreimageInv`), a prefix of the files is the new one and nothing runs
meanwhile (`ApplyInv`), then all of them are and the services have loaded them
(`AppliedInv`). The consequences: `LinksAlwaysConnect`, `OnlyWholeNodesApplied`,
`MaterialAlwaysRenders` (for all pairs of limits that configure.sh can draw: they lie
in the renderer's ranges and differ, by `LimitsAgree` and `PairsAgree`),
`IdentityIsStable`, `FormerStateIsBack`, `RestoreIsComplete`, `RestoreTypeCorrect`.
`OnlyIntact` is the lemma about the archive tool: of all that may be offered only an
archive that nothing happened to is accepted.

Only model-checked: the liveness properties Convergence, CallsEnd, SignalEnds,
InterruptedOperationEnds, InstallResumes and ExportConverges, which rest on
fairness and are out of the prover's reach; and the four violated properties, which
are counterexamples.

## Not modelled, and the plan

Worth proving next: lemmas that carry the safety half of the liveness properties
(for UpgradeTransaction, that every step of a recovery that nothing interrupts has a
successor; for CertSync, that a walk that is not disturbed ends with the pair that
lasts longest), and sharper exceptions: HysteriaRevocationSound leaves out a profile
for good once an answer was in flight at its kick, LinksConnect a node once its files
were mixed.

Not modelled so far: the operation lock's fallback, removal and the firewall record; a
restore inside an interrupted update; the composition of `ProfileControl` with
`Supervisor` (restart as the real protocol instead of one call).

Left out for good: the syntax of links, QR images, ciphers, HTML pages and
headers, prompts, preflight and diagnostics, log redaction, the schema's DDL,
release and laboratory tooling, generated protobuf code and the upstream servers
(except as the environment of the models): text processing or third-party code
without state of its own.
