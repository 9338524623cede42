---------------------------- MODULE BackupRestore ----------------------------
(***************************************************************************)
(* Backup and restore of a node: `ezopenpn backup` and `ezopenpn restore`  *)
(* with the archive tool, composed with the installation of NodeConfig.    *)
(* The panel keeps writing while a backup runs; a restore replaces the     *)
(* files one by one and keeps no journal.                                  *)
(***************************************************************************)
EXTENDS NodeConfig

CONSTANTS Flaws,       \* what may be wrong with the archive that is offered
          MaxArchives  \* bound

ASSUME ArchiveConstants ==
    /\ MaxArchives \in Nat
    /\ Flaws \subseteq {"none", "checksum", "manifest", "member", "database", "release"}

VARIABLES
    archives,   \* the files of /var/backups/ezopenpn and the copies kept of them
    op,         \* the backup or restore under way
    outcome,    \* of the last one
    mixed       \* history: the files come from more than one node or moment

vars == <<nodeVars, archives, op, outcome, mixed>>
restoreVars == <<archives, op, outcome, mixed>>

Parts == DOMAIN NoDisk

\* apply_payload, in its order: install.json is not restored.
WithoutHysteria == <<"db", "control", "gateway", "compose", "stack", "master", "api", "obfs",
                     "xray", "material", "caddy">>
WithoutMaterial == <<"db", "control", "gateway", "compose", "stack", "master", "api", "obfs",
                     "xray", "hysteria", "caddy">>
ApplyOrder == <<"db", "control", "gateway", "compose", "stack", "master", "api", "obfs", "xray",
                "hysteria", "material", "caddy">>
Trees == {"material", "caddy"}

NoOp == [pc |-> "none", db |-> NoDatabase, data |-> NoDisk, mixed |-> FALSE,
         before |-> NoDisk, preimage |-> 0, part |-> 1, undo |-> FALSE]

Init ==
    /\ NodeInit
    /\ archives = <<>> /\ op = NoOp /\ outcome = "none" /\ mixed = FALSE

End(result) == op' = NoOp /\ lock' = "none" /\ outcome' = result

-----------------------------------------------------------------------------
(* The backup, which a restore runs too.                                   *)

\* Through a running control; quick_check, foreign keys and schema.
VerifyDatabase(db) == db.exists
OnlineBackup == live.control # NoControl /\ disk.db.exists

BackupStart ==
    /\ lock = "none" /\ Installed
    /\ Len(archives) < MaxArchives
    /\ lock' = "backup" /\ op' = [NoOp EXCEPT !.pc = "snapshot"] /\ outcome' = "none"
    /\ UNCHANGED <<address, disk, leftovers, live, enabled, phase, draws, faults,
                   rebuilds, archives, mixed>>

\* The archive that was begun is removed; a restore gives up.
BackupAbort ==
    /\ archives' = IF op.pc \in {"pack", "seal"} THEN SubSeq(archives, 1, Len(archives) - 1)
                   ELSE archives
    /\ End("failed")
    /\ UNCHANGED <<address, disk, leftovers, live, enabled, phase, draws, rebuilds, mixed>>

Snapshot ==
    /\ op.pc = "snapshot"
    /\ IF OnlineBackup /\ VerifyDatabase(disk.db)
       THEN /\ op' = [op EXCEPT !.pc = "create", !.db = disk.db]
            /\ UNCHANGED <<nodeVars, archives, outcome, mixed>>
       ELSE BackupAbort /\ NoFault

\* The files, with the snapshot in the place of the database.
Payload == [disk EXCEPT !.db = op.db]

\* The payload is copied and listed, and the file is opened; a missing tree or
\* file is an error.
CreateArchive ==
    /\ op.pc = "create"
    /\ IF \E p \in Parts : Payload[p] = NoDisk[p]
       THEN BackupAbort /\ NoFault
       ELSE /\ archives' = Append(archives, [data |-> Payload, members |-> {}, listed |-> TRUE,
                                             sealed |-> FALSE, mixed |-> mixed])
            /\ op' = [op EXCEPT !.pc = "pack"]
            /\ UNCHANGED <<nodeVars, outcome, mixed>>

PackMembers ==
    /\ op.pc = "pack"
    /\ archives' = [archives EXCEPT ![Len(archives)].members = Parts]
    /\ op' = [op EXCEPT !.pc = "seal"]
    /\ UNCHANGED <<nodeVars, outcome, mixed>>

\* The checksum file is written; a restore goes on to stop the services.
WriteChecksum ==
    /\ op.pc = "seal"
    /\ archives' = [archives EXCEPT ![Len(archives)].sealed = TRUE]
    /\ IF lock = "backup"
       THEN End("saved")
       ELSE op' = [op EXCEPT !.pc = "stop", !.preimage = Len(archives)] /\ UNCHANGED <<lock, outcome>>
    /\ UNCHANGED <<address, disk, leftovers, live, enabled, phase, draws, faults, rebuilds, mixed>>

BackupFails == op.pc \in {"snapshot", "create", "pack", "seal"} /\ Fault("fail") /\ BackupAbort

-----------------------------------------------------------------------------
(* The archive is checked before anything is stopped.                      *)

\* A file that is offered: one of the archives, or what became of it.
Offered(a, flaw) ==
    CASE flaw = "checksum" -> [a EXCEPT !.sealed = FALSE, !.data.xray = Torn]
      [] flaw = "manifest" -> [a EXCEPT !.listed = FALSE, !.data.master = Torn]
      [] flaw = "member"   -> [a EXCEPT !.members = @ \ {"xray"}, !.data.xray = Torn]
      [] flaw = "database" -> [a EXCEPT !.data.db.exists = FALSE]
      [] flaw = "release"  -> [a EXCEPT !.data.state.version = Release + 1, !.data.compose = Release + 1]
      [] OTHER             -> a

ValidArchiveFile(a) == a.sealed
ParseManifest(a) == a.listed
ManifestRecords(a) == Parts \subseteq a.members
DatabaseMetadata(a) == a.data.db.exists
AnyVersion(a) == a.data.state.address = disk.state.address
SameInstallation(a) == a.data.state = disk.state

Validate(a) ==
    /\ ValidArchiveFile(a)
    /\ ParseManifest(a) /\ ManifestRecords(a)
    /\ DatabaseMetadata(a)
    /\ SameInstallation(a)

RestoreStart(i, flaw) ==
    /\ lock = "none" /\ Installed
    /\ Len(archives) < MaxArchives
    /\ LET a == Offered(archives[i], flaw)
       IN  IF Validate(a) /\ live.control # NoControl /\ VerifyDatabase(a.data.db)
           THEN /\ lock' = "restore" /\ outcome' = "none"
                /\ op' = [NoOp EXCEPT !.pc = "snapshot", !.data = a.data, !.mixed = a.mixed,
                                      !.before = disk]
           ELSE End("rejected")
    /\ UNCHANGED <<address, disk, leftovers, live, enabled, phase, draws, faults,
                   rebuilds, archives, mixed>>

-----------------------------------------------------------------------------
(* The files are replaced while the services are down.                     *)

\* A failing stop may have stopped part of the stack, and the old node is
\* started again.
StopServices ==
    /\ op.pc = "stop"
    /\ \/ NoFault /\ live' = Down /\ op' = [op EXCEPT !.pc = "apply"]
       \/ Fault("fail") /\ live' \in {live, Down} /\ op' = [op EXCEPT !.pc = "start", !.undo = TRUE]
    /\ UNCHANGED <<address, disk, leftovers, enabled, lock, phase, draws, rebuilds, archives,
                   outcome, mixed>>

\* A file is replaced by a rename, a tree by two; a failing second one moves the
\* old tree back.
ApplyPart ==
    /\ op.pc = "apply"
    /\ LET p == ApplyOrder[op.part]
           last == op.part = Len(ApplyOrder)
       IN  /\ disk' = [disk EXCEPT ![p] = op.data[p]]
           /\ op' = IF last THEN [op EXCEPT !.pc = "start", !.part = 1]
                    ELSE [op EXCEPT !.part = @ + 1]
           /\ mixed' = IF last THEN op.mixed ELSE TRUE
    /\ UNCHANGED <<address, leftovers, live, enabled, lock, phase, draws, faults, rebuilds,
                   archives, outcome>>

StartServices ==
    /\ op.pc = "start"
    /\ live' \in Starts(Services)
    /\ op' = [op EXCEPT !.pc = "health"]
    /\ UNCHANGED <<address, disk, leftovers, enabled, lock, phase, draws, faults, rebuilds,
                   archives, outcome, mixed>>

\* The first failure goes back to the preimage, the second ends the restore.
GiveUp ==
    /\ IF op.undo THEN End("lost")
       ELSE op' = [op EXCEPT !.pc = "undo", !.part = 1] /\ UNCHANGED <<lock, outcome>>
    /\ UNCHANGED <<address, disk, leftovers, live, enabled, phase, draws, rebuilds, archives, mixed>>

CheckHealth ==
    /\ op.pc = "health"
    /\ IF Healthy
       THEN /\ End(IF op.undo THEN "returned" ELSE "restored")
            /\ UNCHANGED <<address, disk, leftovers, live, enabled, phase, draws, rebuilds, archives, mixed>>
       ELSE GiveUp
    /\ NoFault

RestoreFails == op.pc \in {"apply", "start", "health"} /\ Fault("fail") /\ GiveUp

\* _backup_restore_preimage, after the services are stopped again.
UndoKeepsNew == op.data
PreimageData == archives[op.preimage].data

RestorePreimage ==
    /\ op.pc = "undo"
    /\ \/ /\ Validate(archives[op.preimage]) /\ NoFault
          /\ live' = Down
          /\ op' = [op EXCEPT !.pc = "apply", !.undo = TRUE, !.data = PreimageData,
                              !.mixed = archives[op.preimage].mixed]
          /\ UNCHANGED <<lock, outcome>>
       \/ /\ (~Validate(archives[op.preimage]) /\ NoFault) \/ Fault("fail")
          /\ live' \in {live, Down}
          /\ End("lost")
    /\ UNCHANGED <<address, disk, leftovers, enabled, phase, draws, rebuilds, archives, mixed>>

\* The script dies: between the two renames of a tree the old one is gone.
ScriptKilled ==
    /\ op # NoOp /\ Fault("kill")
    /\ op' = NoOp /\ lock' = "none"
    /\ \/ UNCHANGED disk
       \/ /\ op.pc = "apply" /\ ApplyOrder[op.part] \in Trees
          /\ disk' = [disk EXCEPT ![ApplyOrder[op.part]] = NoDisk[ApplyOrder[op.part]]]
    /\ UNCHANGED <<address, leftovers, live, enabled, phase, draws, rebuilds, archives, outcome, mixed>>

-----------------------------------------------------------------------------
RestoreNext ==
    \/ BackupStart \/ Snapshot \/ CreateArchive \/ PackMembers \/ WriteChecksum \/ BackupFails
    \/ \E i \in DOMAIN archives, flaw \in Flaws : RestoreStart(i, flaw)
    \/ StopServices \/ ApplyPart \/ StartServices \/ CheckHealth \/ RestoreFails \/ RestorePreimage
    \/ ScriptKilled

Next ==
    \/ (InstallStart \/ InstallStep \/ InstallFails \/ InstallKilled \/ PanelWrite)
       /\ UNCHANGED restoreVars
    \/ Reboot /\ op' = NoOp /\ UNCHANGED <<archives, outcome, mixed>>
    \/ Rebuild /\ op' = NoOp /\ mixed' = FALSE /\ UNCHANGED <<archives, outcome>>
    \/ RestoreNext

\* The operator runs the installation until it completes; a script that nothing
\* interrupts goes on.
Spec == Init /\ [][Next]_vars
             /\ WF_vars(InstallStart /\ UNCHANGED restoreVars)
             /\ WF_vars(InstallStep /\ UNCHANGED restoreVars)

-----------------------------------------------------------------------------
(* Properties.                                                             *)

TypeOK ==
    /\ NodeTypeOK
    /\ Len(archives) <= MaxArchives
    /\ op.pc \in {"none", "snapshot", "create", "pack", "seal", "stop", "apply", "start", "health",
                  "undo"}
    /\ op.part \in DOMAIN ApplyOrder /\ op.preimage \in 0..MaxArchives /\ op.undo \in BOOLEAN
    /\ outcome \in {"none", "saved", "failed", "rejected", "restored", "returned", "lost"}
    /\ mixed \in BOOLEAN

\* create_runtime_app, links, render_config: what the running panel hands out
\* and stores fits the transports that run: the key and the obfuscation
\* password of a link, the address, the password of the statistics, the page
\* that both transports show, and the key its profiles are encrypted under.
OneNode ==
    live.control # NoControl =>
        /\ live.xray > 0 => VlessLink(live.control) = [host |-> address, key |-> live.xray]
        /\ live.hysteria # NoHysteria =>
              /\ HysteriaLink(live.control) = [host |-> address, obfs |-> live.hysteria.obfs]
              /\ live.control.api = live.hysteria.api
              /\ live.gateway > 0 => live.gateway = live.hysteria.page
        /\ Subscription = {Bundle(live.control)}

\* OneNode holds through interrupted installations, backups, restores and new
\* servers, unless a restore was interrupted or lost among its files.
LinksConnect == mixed \/ OneNode

\* validate_and_extract: only the data of one node at this address and of this
\* release is ever applied, whatever archive was offered or interrupted.
WholeNode(d) ==
    /\ d.control = [key |-> d.material.key, host |-> address] /\ d.xray = d.material.key
    /\ d.hysteria = HysteriaConfig(d.material) /\ d.gateway = d.hysteria.page
    /\ SecretFiles(d) /\ d.api = d.material.api /\ d.obfs = d.material.obfs
    /\ d.db.exists /\ Decrypts(d.db, d.master) /\ d.compose = Release
    /\ d.stack = address /\ d.caddy > 0
AppliesOnlyWholeNodes == op.pc = "apply" => op.mixed \/ WholeNode(op.data)

\* E_RESTORE_HEALTH says that the former state is back: every file is what it
\* was when the restore began, except what the panel wrote meanwhile.
ReturnedIsBefore ==
    [][outcome' = "returned" /\ op # NoOp /\ op' = NoOp =>
         \A p \in Parts \ {"db"} : disk'[p] = op.before[p]]_vars

\* apply_payload: after a restore that reports success every file is the
\* archive's and the services have loaded them.
RestoredIsArchive ==
    [][outcome' = "restored" /\ op # NoOp /\ op' = NoOp =>
         /\ \A p \in Parts \ {"db"} : disk'[p] = op.data[p]
         /\ op.data.db.masters \subseteq disk'.db.masters /\ op.data.db.writes <= disk'.db.writes
         /\ live' = Started(Services)]_vars

\* What docs/architecture.md says: an update and a restore use a transaction
\* journal and a failure brings the former state back, so the services never run
\* on the files of two nodes.
AlwaysOneNode == OneNode
=============================================================================
