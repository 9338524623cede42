------------------------- MODULE UpgradeTransaction -------------------------
(***************************************************************************)
(* `ezopenpn update`, `reinstall` and the installer run on an existing     *)
(* server: upgrade_run of installer/lib/upgrade.sh, with the journal and   *)
(* the operation checkpoint that let the next command repair what an       *)
(* interrupted one left behind.                                            *)
(*                                                                         *)
(* One step is one durable effect of the script: a rename, an unlink, a    *)
(* removed tree, a service command.  The script may be killed between any  *)
(* two of them, the server may reboot (the enabled unit then starts the    *)
(* stack with the configuration found on disk), and the panel may be used  *)
(* whenever the stack is up.  The operation lock admits one command.       *)
(***************************************************************************)
EXTENDS Naturals

CONSTANTS MaxVersion,    \* releases are numbered 1..MaxVersion
          Modes,         \* the commands in use: update, reinstall, install
          FaultKinds,    \* the kinds of fault that may happen
          MaxFaults,     \* bound: faults in a behaviour
          MaxWrites      \* bound: changes the administrator makes in the panel

AllFaultKinds == {"fail",     \* a command of the script returns an error
                  "journal",  \* ... the write of the journal, whose status is not looked at
                  "tools",    \* ... the copy of the old tools, whose status is not either
                  "kill",     \* the script dies between two steps
                  "gap",      \* ... between the two unlinks of clear_journal
                  "torn",     \* ... while it holds a temporary file
                  "reboot"}   \* the server restarts

ASSUME UpgradeConstants ==
    /\ MaxVersion \in Nat \ {0} /\ MaxFaults \in Nat /\ MaxWrites \in Nat
    /\ Modes \subseteq {"update", "reinstall", "install"}
    /\ FaultKinds \subseteq AllFaultKinds

VARIABLES
    \* on disk: the release directories that are complete, the release that
    \* `current` links to, the release whose configuration is installed (0: files
    \* of two renderings), that of the unit and the CLI, the version recorded
    \* in install.json, and the database
    releases, current, config, tools, version, db,
    \* the journal, whether the operation checkpoint exists, the stage
    \* directory with the tools saved in it, temporary files left by a kill
    journal, checkpoint, stage, leftovers,
    \* the script: the next step and its UPGRADE_* variables
    pc, ctx,
    \* the release the stack runs (0: down), and history: the release that
    \* passed the last health check
    stack, checked,
    \* bound
    faults

partVars == <<releases, current, config, tools, version, db>>
logVars  == <<journal, checkpoint, stage, leftovers>>
runVars  == <<stack, checked>>
vars == <<partVars, logVars, pc, ctx, runVars, faults>>

Versions == 1..MaxVersion
VersionOrNone == 0..MaxVersion
Phases == {"prepared", "switching", "switched", "migrated", "committing"}

\* A verified archive of the database, the configuration and install.json.
Image == [version : VersionOrNone, config : VersionOrNone, schema : VersionOrNone,
          writes : 0..MaxWrites]
NoImage == [version |-> 0, config |-> 0, schema |-> 0, writes |-> 0]

Journal == [phase : Phases \cup {"none"}, from : VersionOrNone, to : VersionOrNone, pre : Image]
NoJournal == [phase |-> "none", from |-> 0, to |-> 0, pre |-> NoImage]

Ctx == [mode : {"none", "update", "reinstall", "install"}, from : VersionOrNone,
        to : VersionOrNone, pre : Image, phase : Phases \cup {"none"}, recovering : BOOLEAN]
NoCtx == [mode |-> "none", from |-> 0, to |-> 0, pre |-> NoImage, phase |-> "none",
          recovering |-> FALSE]

StageDir == [exists : BOOLEAN, tools : VersionOrNone]
NoStage == [exists |-> FALSE, tools |-> 0]

ForwardPCs == {"stop", "preimage", "remove", "install", "link", "config", "rendered", "tools",
               "migrate", "start", "health", "version"}
RollbackPCs == {"rb_stop", "rb_remove", "rb_release", "rb_link", "rb_tools", "rb_version",
                "rb_restore", "rb_config", "rb_start", "rb_health"}
PCs == {"idle", "recover", "resume", "begin", "stage", "journal", "checkpoint",
        "old_start", "old_health", "clear", "uncheck", "unstage"}
       \cup ForwardPCs \cup RollbackPCs

TypeOK ==
    /\ releases \subseteq Versions /\ current \in Versions /\ version \in Versions
    /\ config \in VersionOrNone /\ tools \in VersionOrNone
    /\ db \in [schema : Versions, writes : 0..MaxWrites]
    /\ journal \in Journal /\ checkpoint \in BOOLEAN /\ stage \in StageDir
    /\ leftovers \subseteq {"journal", "checkpoint", "state"}
    /\ pc \in PCs /\ ctx \in Ctx
    /\ stack \in VersionOrNone /\ checked \in VersionOrNone
    /\ faults \in 0..MaxFaults

\* The first release is installed and running.
Init ==
    /\ releases = {1} /\ current = 1 /\ config = 1 /\ tools = 1 /\ version = 1
    /\ db = [schema |-> 1, writes |-> 0]
    /\ journal = NoJournal /\ checkpoint = FALSE /\ stage = NoStage /\ leftovers = {}
    /\ pc = "idle" /\ ctx = NoCtx
    /\ stack = 1 /\ checked = 1 /\ faults = 0

-----------------------------------------------------------------------------
(* The script.                                                             *)

At(here) == pc = here
Goto(there) == pc' = there
Exit == pc' = "idle" /\ ctx' = NoCtx

Fault(kind) ==
    /\ kind \in FaultKinds
    /\ faults < MaxFaults
    /\ faults' = faults + 1

Failed == Fault("fail")
Fine == UNCHANGED faults

\* The stack was stopped but nothing is replaced yet.
Untouched == pc \in {"stop", "preimage"} \/ (At("checkpoint") /\ ctx.phase = "switching")

\* failure=...: undone by clearing the journal before the stack is stopped, by
\* starting the old stack again before anything is replaced, by a rollback after.
OnFailure ==
    CASE At("stage") \/ (At("checkpoint") /\ ctx.phase = "prepared") -> "clear"
      [] Untouched -> "old_start"
      [] OTHER -> "rb_stop"

Succeed(there) == Fine /\ Goto(there) /\ UNCHANGED ctx

\* A failure while the old release is being brought back ends the command and
\* keeps the journal.
GiveUp == IF pc \in RollbackPCs \cup {"old_start", "old_health"} THEN Exit
          ELSE Goto(OnFailure) /\ UNCHANGED ctx

Fail == Failed /\ GiveUp

\* The CLI loads its libraries from the current release; the installer brings
\* its own.
Loadable(mode) == mode = "install" \/ current \in releases

Command(mode) ==
    /\ At("idle") /\ Loadable(mode)
    /\ Goto("recover") /\ ctx' = [NoCtx EXCEPT !.mode = mode]
    /\ UNCHANGED <<partVars, logVars, runVars, faults>>

\* _upgrade_read_journal also looks for the files the journal names.
Readable == stage.exists /\ (journal.phase # "prepared" => journal.pre # NoImage)

\* Mutant: any interrupted operation is taken for one that replaced nothing.
ReplacedMutant(phase) == FALSE

\* Whether the interrupted operation may have replaced something.
Replaced(phase) == phase # "prepared"

\* _upgrade_recover_interrupted up to its first effect.
Recover ==
    /\ At("recover")
    /\ \/ /\ journal = NoJournal /\ ~checkpoint
          /\ Goto(IF ctx.mode = "install" THEN "resume" ELSE "begin") /\ UNCHANGED ctx
       \/ journal = NoJournal /\ checkpoint /\ Exit      \* E_UPGRADE_CHECKPOINT
       \/ /\ journal # NoJournal
          /\ IF Readable
             THEN /\ ctx' = [ctx EXCEPT !.from = journal.from, !.to = journal.to,
                                !.pre = journal.pre, !.phase = journal.phase, !.recovering = TRUE]
                  /\ Goto(IF Replaced(journal.phase) THEN "rb_stop" ELSE "old_start")
             ELSE Exit                                   \* E_UPGRADE_JOURNAL
    /\ UNCHANGED <<partVars, logVars, runVars, faults>>

\* The unit runs in the current release and does nothing when it is active.
Started == IF stack # 0 THEN stack ELSE IF current \in releases THEN config ELSE 0

\* The installer on an existing server enables and starts the unit first.
Resume ==
    /\ At("resume")
    /\ \/ /\ stack' = Started
          /\ checked' = stack' /\ Goto("begin") /\ ctx' = [ctx EXCEPT !.mode = "update"]
       \/ Exit /\ UNCHANGED runVars
    /\ UNCHANGED <<partVars, logVars, faults>>

\* Mutant: an older release is accepted.
AcceptedMutant(mode, target) == mode = "reinstall" => target = version

Accepted(mode, target) ==
    IF mode = "reinstall" THEN target = version ELSE target > version

\* Preflight, download and comparison: no effect on the server.
Begin ==
    /\ At("begin")
    /\ \/ \E target \in Versions :
              /\ current = version /\ Accepted(ctx.mode, target)
              /\ ctx' = [NoCtx EXCEPT !.mode = ctx.mode, !.from = version, !.to = target]
              /\ Goto("stage")
       \/ Exit
    /\ UNCHANGED <<partVars, logVars, runVars, faults>>

\* What _upgrade_save_host_tools and _upgrade_save_current_release keep.
Saved == [exists |-> TRUE, tools |-> tools]

\* The stage directory gets the candidate, the tools and the current release.
Stage ==
    /\ At("stage")
    /\ \/ /\ stage' = Saved /\ Fine
          /\ Goto("journal") /\ ctx' = [ctx EXCEPT !.phase = "prepared"]
       \/ stage' = [exists |-> TRUE, tools |-> 0] /\ Fail
    /\ UNCHANGED <<partVars, journal, checkpoint, leftovers, runVars>>

-----------------------------------------------------------------------------
(* _upgrade_write_journal: the journal, then the checkpoint.               *)

Entry == [phase |-> ctx.phase, from |-> ctx.from, to |-> ctx.to, pre |-> ctx.pre]

\* The status of the journal's own write is not looked at.
WriteJournal ==
    /\ At("journal")
    /\ \/ "journal" \notin leftovers /\ journal' = Entry /\ Fine
       \/ "journal" \in leftovers /\ UNCHANGED journal /\ Fine
       \/ Fault("journal") /\ UNCHANGED journal
    /\ Goto("checkpoint")
    /\ UNCHANGED <<partVars, checkpoint, stage, leftovers, ctx, runVars>>

\* Mutant: the new stack is started before the database is migrated.
AfterMutant(phase) ==
    CASE phase = "prepared"   -> "stop"
      [] phase = "switching"  -> "remove"
      [] phase = "switched"   -> "start"
      [] phase = "migrated"   -> "start"
      [] phase = "committing" -> "version"

After(phase) ==
    CASE phase = "prepared"   -> "stop"
      [] phase = "switching"  -> "remove"
      [] phase = "switched"   -> "migrate"
      [] phase = "migrated"   -> "start"
      [] phase = "committing" -> "version"

WriteCheckpoint ==
    /\ At("checkpoint")
    /\ \/ "checkpoint" \notin leftovers /\ checkpoint' = TRUE /\ Succeed(After(ctx.phase))
       \/ "checkpoint" \in leftovers /\ UNCHANGED checkpoint /\ Fine /\ GiveUp
       \/ UNCHANGED checkpoint /\ Fail
    /\ UNCHANGED <<partVars, journal, stage, leftovers, runVars>>

\* The next durable record of progress.
Record(phase) == Fine /\ Goto("journal") /\ ctx' = [ctx EXCEPT !.phase = phase]

-----------------------------------------------------------------------------
(* The switch to ctx.to and, with rb_, the way back to ctx.from.           *)

StopStack ==
    /\ pc \in {"stop", "rb_stop"}
    /\ \/ stack' = 0 /\ Succeed(IF At("stop") THEN "preimage" ELSE "rb_remove")
       \/ stack' \in {stack, 0} /\ Fail
    /\ UNCHANGED <<partVars, logVars, checked>>

CreatePreimage ==
    /\ At("preimage")
    /\ \/ /\ ctx' = [ctx EXCEPT !.phase = "switching",
                       !.pre = [version |-> version, config |-> config,
                                schema |-> db.schema, writes |-> db.writes]]
          /\ Goto("journal") /\ Fine
       \/ Fail
    /\ UNCHANGED <<partVars, logVars, runVars>>

RemoveTargetRelease ==
    /\ At("remove")
    /\ \/ releases' = releases \ {ctx.to} /\ Succeed("install")
       \/ releases' \in {releases, releases \ {ctx.to}} /\ Fail
    /\ UNCHANGED <<current, config, tools, version, db, logVars, runVars>>

InstallRelease ==
    /\ At("install")
    /\ \/ releases' = releases \cup {ctx.to} /\ Succeed("link")
       \/ UNCHANGED releases /\ Fail
    /\ UNCHANGED <<current, config, tools, version, db, logVars, runVars>>

LinkRelease ==
    /\ At("link")
    /\ \/ current' = ctx.to /\ Succeed("config")
       \/ UNCHANGED current /\ Fail
    /\ UNCHANGED <<releases, config, tools, version, db, logVars, runVars>>

\* The old tree is removed, then the copy from the stage renamed in its place.
RestoreRelease ==
    /\ \/ At("rb_remove") /\ releases' = releases \ {ctx.from} /\ Succeed("rb_release")
       \/ At("rb_release") /\ releases' = releases \cup {ctx.from} /\ Succeed("rb_link")
       \/ pc \in {"rb_remove", "rb_release"} /\ UNCHANGED releases /\ Fail
    /\ UNCHANGED <<current, config, tools, version, db, logVars, runVars>>

\* Mutant: the way back takes the old release from the journal file.
SwitchCurrentMutant ==
    /\ At("rb_link")
    /\ current' = journal.from /\ Succeed("rb_tools")
    /\ UNCHANGED <<releases, config, tools, version, db, logVars, runVars>>

SwitchCurrent ==
    /\ At("rb_link")
    /\ \/ current' = ctx.from /\ Succeed("rb_tools")
       \/ UNCHANGED current /\ Fail
    /\ UNCHANGED <<releases, config, tools, version, db, logVars, runVars>>

\* The six rendered files are replaced one after the other.
ReplaceConfig ==
    /\ At("config")
    /\ \/ config' = 0 /\ Succeed("rendered")
       \/ UNCHANGED config /\ Fail
    /\ UNCHANGED <<releases, current, tools, version, db, logVars, runVars>>

\* The last of the configuration files is in place.
FinishConfig ==
    /\ At("rendered")
    /\ \/ config' = ctx.to /\ Succeed("tools")
       \/ UNCHANGED config /\ Fail
    /\ UNCHANGED <<releases, current, tools, version, db, logVars, runVars>>

InstallTools ==
    /\ At("tools")
    /\ \/ tools' = ctx.to /\ Record("switched")
       \/ tools' \in {tools, 0, ctx.to} /\ Fail
    /\ UNCHANGED <<releases, current, config, version, db, logVars, runVars>>

\* Mutant: the archive is restored while the new version is still recorded.
RestoreToolsMutant ==
    /\ At("rb_tools")
    /\ tools' = stage.tools /\ Succeed("rb_restore")
    /\ UNCHANGED <<releases, current, config, version, db, logVars, runVars>>

\* Only the status of the last command, daemon-reload, is looked at.
RestoreTools ==
    /\ At("rb_tools")
    /\ \/ tools' = stage.tools /\ Succeed("rb_version")
       \/ Fault("tools") /\ UNCHANGED <<tools, ctx>> /\ Goto("rb_version")
       \/ tools' = stage.tools /\ Fail
    /\ UNCHANGED <<releases, current, config, version, db, logVars, runVars>>

Migrate ==
    /\ At("migrate")
    /\ \/ db' = [db EXCEPT !.schema = ctx.to] /\ Record("migrated")
       \/ db' \in {db, [db EXCEPT !.schema = ctx.to]} /\ Fail
    /\ UNCHANGED <<releases, current, config, tools, version, logVars, runVars>>

StartStack ==
    /\ pc \in {"start", "old_start", "rb_start"}
    /\ \/ /\ stack' = Started
          /\ Succeed(CASE At("start") -> "health" [] At("old_start") -> "old_health"
                        [] At("rb_start") -> "rb_health")
       \/ stack' \in {stack, Started} /\ Fail
    /\ UNCHANGED <<partVars, logVars, checked>>

\* Health is looked at for two minutes.
CheckHealth ==
    /\ pc \in {"health", "old_health", "rb_health"}
    /\ \/ /\ stack # 0 /\ checked' = stack
          /\ IF At("health") THEN Record("committing") ELSE Succeed("clear")
       \/ stack = 0 /\ UNCHANGED checked /\ Fine /\ GiveUp
       \/ UNCHANGED checked /\ Fail
    /\ UNCHANGED <<partVars, logVars, stack>>

WriteVersion ==
    /\ pc \in {"version", "rb_version"}
    /\ \/ /\ "state" \notin leftovers
          /\ version' = IF At("version") THEN ctx.to ELSE ctx.from
          /\ Succeed(IF At("version") THEN "clear" ELSE "rb_restore")
       \/ "state" \in leftovers /\ UNCHANGED version /\ Fine /\ GiveUp
       \/ UNCHANGED version /\ Fail
    /\ UNCHANGED <<releases, current, config, tools, db, logVars, runVars>>

\* The archive must be of the recorded version; the database is replaced first.
RestorePreimage ==
    /\ At("rb_restore")
    /\ \/ /\ ctx.pre.version = version
          /\ db' = [schema |-> ctx.pre.schema, writes |-> ctx.pre.writes]
          /\ config' = 0 /\ Succeed("rb_config")
       \/ /\ UNCHANGED <<db, config>> /\ GiveUp
          /\ IF ctx.pre.version = version THEN Failed ELSE Fine
    /\ UNCHANGED <<releases, current, tools, version, logVars, runVars>>

RestoreConfig ==
    /\ At("rb_config")
    /\ \/ config' = ctx.pre.config /\ Succeed("rb_start")
       \/ UNCHANGED config /\ Fail
    /\ UNCHANGED <<releases, current, tools, version, db, logVars, runVars>>

-----------------------------------------------------------------------------
(* _upgrade_clear_journal and _upgrade_cleanup_stage.                      *)

\* Mutant: the stage goes before the journal that names it.
ClearJournalMutant ==
    /\ At("clear")
    /\ \/ stage.exists /\ stage' = NoStage /\ UNCHANGED <<journal, faults, pc, ctx>>
       \/ ~stage.exists /\ journal' = NoJournal /\ Succeed("uncheck") /\ UNCHANGED stage
    /\ UNCHANGED <<partVars, checkpoint, leftovers, runVars>>

ClearJournal ==
    /\ At("clear") /\ journal' = NoJournal /\ Succeed("uncheck")
    /\ UNCHANGED <<partVars, checkpoint, stage, leftovers, runVars>>

ClearCheckpoint ==
    /\ At("uncheck") /\ checkpoint' = FALSE /\ Succeed("unstage")
    /\ UNCHANGED <<partVars, journal, stage, leftovers, runVars>>

\* After a recovery the command goes on.
CleanupStage ==
    /\ At("unstage") /\ stage' = NoStage
    /\ IF ctx.recovering THEN /\ Goto(IF ctx.mode = "install" THEN "resume" ELSE "begin")
                              /\ ctx' = [NoCtx EXCEPT !.mode = ctx.mode]
       ELSE Exit
    /\ UNCHANGED <<partVars, journal, checkpoint, leftovers, runVars, faults>>

-----------------------------------------------------------------------------
(* The world around the script.                                            *)

\* The script dies between two effects.
Kill ==
    /\ ~At("idle")
    /\ Fault(IF At("uncheck") THEN "gap" ELSE "kill") /\ Exit
    /\ UNCHANGED <<partVars, logVars, runVars>>

\* It dies while it writes a file: the temporary file stays.
Torn ==
    /\ pc \in {"journal", "checkpoint", "version", "rb_version"}
    /\ Fault("torn") /\ Exit
    /\ leftovers' = leftovers \cup {IF pc \in {"version", "rb_version"} THEN "state" ELSE pc}
    /\ UNCHANGED <<partVars, journal, checkpoint, stage, runVars>>

\* The enabled unit starts what the configuration on disk names.
Reboot ==
    /\ ~At("idle") /\ ~At("uncheck")
    /\ Fault("reboot") /\ Exit
    /\ stack' = IF current \in releases THEN config ELSE 0
    /\ UNCHANGED <<partVars, logVars, checked>>

\* A profile is created, renamed or disabled in the panel.
Write ==
    /\ stack # 0 /\ stack = db.schema /\ db.writes < MaxWrites
    /\ db' = [db EXCEPT !.writes = @ + 1]
    /\ UNCHANGED <<releases, current, config, tools, version, logVars, pc, ctx, runVars, faults>>

Script ==
    \/ Recover \/ Resume \/ Begin \/ Stage \/ WriteJournal \/ WriteCheckpoint
    \/ StopStack \/ CreatePreimage \/ RemoveTargetRelease \/ InstallRelease \/ LinkRelease
    \/ ReplaceConfig \/ FinishConfig \/ InstallTools \/ Migrate
    \/ StartStack \/ CheckHealth \/ WriteVersion
    \/ RestoreRelease \/ SwitchCurrent \/ RestoreTools \/ RestorePreimage \/ RestoreConfig
    \/ ClearJournal \/ ClearCheckpoint \/ CleanupStage

Next ==
    \/ \E mode \in Modes : Command(mode)
    \/ Script
    \/ Kill \/ Torn \/ Reboot \/ Write

Spec == Init /\ [][Next]_vars

Interrupted == journal # NoJournal \/ checkpoint

\* The script runs on, and an interrupted operation is repeated, as the
\* messages and the recovery guide ask the administrator to.
Repeat == Interrupted /\ \E mode \in Modes : Command(mode)

FairSpec == Spec /\ WF_vars(Script) /\ WF_vars(Repeat)

-----------------------------------------------------------------------------
(* Properties.                                                             *)

\* Between operations the link, the configuration, the host tools, the
\* database schema and the recorded version are of one installed release,
\* whatever failed or was killed on the way (_upgrade_rollback,
\* _upgrade_recover_interrupted).
RestIsWhole ==
    (~Interrupted /\ pc \in {"idle", "recover", "resume", "begin"})
        => /\ current \in releases
           /\ {config, tools, db.schema, version} = {current}

\* A journal that exists can be acted on, whatever happened: its stage is there,
\* and from the switch on it names an archive that a rollback will accept
\* (_upgrade_read_journal, _backup_restore_preimage).
JournalUsable ==
    journal # NoJournal =>
        /\ stage.exists
        /\ journal.phase # "prepared" => journal.pre.version = journal.from

\* A stack the script started and is looking at never meets the database of
\* another release: migrations and restored archives are applied while it is
\* down, and every start comes after them.
ServesOwnSchema ==
    pc \in {"health", "old_health", "rb_health"} /\ stack # 0 => stack = db.schema

\* With the release of an open transaction taken to be the one its journal
\* returns to, the parts change together, to a newer release, and only once
\* that release was seen healthy: updates implement ReleaseSwitch.
Settled ==
    IF journal.phase \in {"none", "prepared"}
    THEN [link |-> current, config |-> config, schema |-> db.schema, version |-> version]
    ELSE [link |-> journal.from, config |-> journal.pre.config,
          schema |-> journal.pre.schema, version |-> journal.pre.version]

Switch == INSTANCE ReleaseSwitch WITH system <- Settled, healthy <- checked
AtomicSwitch == Switch!Spec

\* An interrupted operation ends: repeated commands complete or undo it, and
\* the server is left with a running stack and nothing pending
\* (_upgrade_recover_interrupted).
InterruptedOperationEnds == Interrupted ~> (~Interrupted /\ stack # 0)

\* An interruption before the new release is installed never takes back a
\* change of the database (docs/releases/publication-report.md).
EarlyInterruptionKeepsWrites ==
    [][journal.phase = "switching" /\ journal.to \notin releases
           => db'.writes >= db.writes]_vars
=============================================================================
