---------------------- MODULE UpgradeTransaction_proofs ----------------------
(***************************************************************************)
(* Machine-checked proofs about UpgradeTransaction, for any number of      *)
(* releases, faults and changes.  JInv holds whatever fails: what the      *)
(* journal names is there, and the script's variables agree with it.       *)
(* WInv says at each step of the script how much of the server belongs to  *)
(* which release; it needs the faults to be Ordinary.                      *)
(***************************************************************************)
EXTENDS UpgradeTransaction, TLAPS

\* Phases of a journal under which nothing has been replaced.
EarlyPhases == {"none", "prepared"}

\* A journal can be acted on.
JournalInv ==
    journal # NoJournal =>
        /\ stage.exists
        /\ journal.phase # "none" /\ journal.from \in Versions
        /\ journal.phase # "prepared" =>
              journal.pre.version = journal.from /\ journal.pre.schema \in Versions

\* On the way forward the recorded version is still the old one, the stage is
\* filled, and the preimage is taken before anything is replaced.
ForwardInv ==
    pc \in {"stage", "journal", "checkpoint"} \cup ForwardPCs =>
        /\ ctx.from = version /\ ctx.to \in Versions
        /\ pc # "stage" => stage.exists /\ ctx.phase # "none"
        /\ pc \in {"stop", "preimage"} => ctx.phase = "prepared"
        /\ pc \in ForwardPCs \ {"stop", "preimage"} => ctx.phase # "prepared"
        /\ ctx.phase \notin EarlyPhases => ctx.pre.version = ctx.from /\ ctx.pre.schema \in Versions

\* On the way back the script has an archive of the old release.
BackInv ==
    pc \in RollbackPCs =>
        ctx.from \in Versions /\ ctx.pre.version = ctx.from /\ ctx.pre.schema \in Versions

\* The stage is removed after the journal that names it.
ClearedInv == pc \in {"uncheck", "unstage"} => journal = NoJournal

JInv == TypeOK /\ JournalInv /\ ForwardInv /\ BackInv /\ ClearedInv

USE UpgradeConstants
USE DEF At, Goto, Fault, Failed, Fine, Succeed

\* What Exit leaves behind is an empty context.
LEMMA EmptyTypes == NoCtx \in Ctx /\ NoJournal \in Journal /\ NoStage \in StageDir /\ NoImage \in Image
BY DEF NoCtx, Ctx, NoJournal, Journal, NoStage, StageDir, NoImage, Image, Phases, VersionOrNone

\* The script starts with nothing pending.
LEMMA JInit == Init => JInv
<1> SUFFICES ASSUME Init PROVE JInv
  OBVIOUS
<1>1. checkpoint \in BOOLEAN
  BY Zenon DEF Init
<1>2. TypeOK
  BY <1>1, EmptyTypes, SMTT(20) DEF Init, TypeOK, Versions, VersionOrNone, PCs
<1>3. JournalInv /\ ForwardInv /\ BackInv /\ ClearedInv
  BY DEF Init, JournalInv, ForwardInv, BackInv, ClearedInv, ForwardPCs, RollbackPCs
<1> QED BY <1>2, <1>3 DEF JInv

\* What a recovery takes over from the journal.
LEMMA Recovered ==
    ASSUME ctx \in Ctx, journal \in Journal,
           ctx' = [mode |-> ctx.mode, from |-> journal.from, to |-> journal.to,
                   pre |-> journal.pre, phase |-> journal.phase, recovering |-> TRUE]
    PROVE  /\ ctx' \in Ctx
           /\ ctx'.from = journal.from /\ ctx'.pre = journal.pre /\ ctx'.phase = journal.phase
BY SMTT(20) DEF Ctx, Journal

\* A command that begins.
LEMMA Begun ==
    ASSUME NEW m \in {"none", "update", "reinstall", "install"}, NEW f \in VersionOrNone,
           NEW t \in VersionOrNone,
           ctx' = [mode |-> m, from |-> f, to |-> t, pre |-> NoImage, phase |-> "none",
                   recovering |-> FALSE]
    PROVE  ctx' \in Ctx /\ ctx'.from = f /\ ctx'.to = t /\ ctx'.phase = "none"
BY EmptyTypes, SMTT(20) DEF Ctx

\* A command that has taken its preimage.
LEMMA Preserved ==
    ASSUME ctx \in Ctx, NEW i \in Image,
           ctx' = [mode |-> ctx.mode, from |-> ctx.from, to |-> ctx.to, pre |-> i,
                   phase |-> "switching", recovering |-> ctx.recovering]
    PROVE  /\ ctx' \in Ctx /\ ctx'.from = ctx.from /\ ctx'.to = ctx.to /\ ctx'.pre = i
           /\ ctx'.phase = "switching"
BY SMTT(20) DEF Ctx, Phases

\* The stage with the tools of a release.
LEMMA StageType ==
    ASSUME NEW t \in VersionOrNone
    PROVE  [exists |-> TRUE, tools |-> t] \in StageDir /\ [exists |-> TRUE, tools |-> t].exists
BY DEF StageDir

\* The checkpoint is there or not.
LEMMA CheckpointType == checkpoint \in BOOLEAN /\ [Next]_vars => checkpoint' \in BOOLEAN
BY Zenon DEF Next, Script, Command, Recover, Resume, Begin, Stage, WriteJournal, WriteCheckpoint,
   StopStack, CreatePreimage, RemoveTargetRelease, InstallRelease, LinkRelease, ReplaceConfig,
   FinishConfig, InstallTools, Migrate, StartStack, CheckHealth, WriteVersion, RestoreRelease,
   SwitchCurrent, RestoreTools, RestorePreimage, RestoreConfig, ClearJournal, ClearCheckpoint,
   CleanupStage, Kill, Torn, Reboot, Write, logVars, vars

\* A recovery takes its variables from the journal.
LEMMA RecoverEffect ==
    ASSUME JInv, Recover
    PROVE  /\ UNCHANGED <<partVars, logVars, runVars, faults>>
           /\ \/ pc' = "idle" /\ ctx' = NoCtx
              \/ journal = NoJournal /\ pc' \in {"resume", "begin"} /\ ctx' = ctx
              \/ /\ journal # NoJournal
                 /\ pc' = IF journal.phase # "prepared" THEN "rb_stop" ELSE "old_start"
                 /\ ctx' \in Ctx /\ ctx'.from = journal.from /\ ctx'.pre = journal.pre
                 /\ ctx'.phase = journal.phase
<1>1. UNCHANGED <<partVars, logVars, runVars, faults>>
  BY Zenon DEF Recover
<1>2. ASSUME ctx' = [ctx EXCEPT !.from = journal.from, !.to = journal.to, !.pre = journal.pre,
                                !.phase = journal.phase, !.recovering = TRUE]
      PROVE  /\ ctx' \in Ctx /\ ctx'.from = journal.from /\ ctx'.pre = journal.pre
             /\ ctx'.phase = journal.phase
  <2>1. ctx \in Ctx /\ journal \in Journal
    BY DEF JInv, TypeOK
  <2>2. ctx' = [mode |-> ctx.mode, from |-> journal.from, to |-> journal.to,
                pre |-> journal.pre, phase |-> journal.phase, recovering |-> TRUE]
    BY <1>2, <2>1, Zenon DEF Ctx
  <2> QED BY <2>1, <2>2, Recovered
<1> QED BY <1>1, <1>2, Zenon DEF Recover, Replaced, Exit

\* A command fills its variables with the recorded version and a target that is
\* not older.
LEMMA BeginEffect ==
    ASSUME JInv, Begin
    PROVE  /\ UNCHANGED <<partVars, logVars, runVars, faults>>
           /\ \/ pc' = "idle" /\ ctx' = NoCtx
              \/ /\ pc' = "stage" /\ ctx' \in Ctx
                 /\ ctx'.from = version /\ ctx'.to \in Versions /\ ctx'.to >= version
                 /\ ctx'.phase = "none"
<1>1. UNCHANGED <<partVars, logVars, runVars, faults>>
  BY Zenon DEF Begin
<1>2. CASE Exit
  BY <1>1, <1>2 DEF Exit
<1>3. ASSUME NEW target \in Versions, Goto("stage"), Accepted(ctx.mode, target),
             ctx' = [NoCtx EXCEPT !.mode = ctx.mode, !.from = version, !.to = target]
      PROVE  /\ pc' = "stage" /\ ctx' \in Ctx
             /\ ctx'.from = version /\ ctx'.to \in Versions /\ ctx'.to >= version
             /\ ctx'.phase = "none"
  <2>1. ctx' = [mode |-> ctx.mode, from |-> version, to |-> target, pre |-> NoImage,
                phase |-> "none", recovering |-> FALSE]
    BY <1>3, Zenon DEF NoCtx
  <2>2. /\ ctx.mode \in {"none", "update", "reinstall", "install"} /\ version \in VersionOrNone
        /\ target \in VersionOrNone
    BY DEF JInv, TypeOK, Ctx, Versions, VersionOrNone
  <2>3. ctx' \in Ctx /\ ctx'.from = version /\ ctx'.to = target /\ ctx'.phase = "none"
    BY <2>1, <2>2, Begun
  <2>4. target >= version
    BY <1>3, SMT DEF Accepted, JInv, TypeOK, Versions
  <2> QED BY <1>3, <2>3, <2>4
<1> QED BY <1>1, <1>2, <1>3, Zenon DEF Begin

\* The preimage is of what is installed.
LEMMA PreimageEffect ==
    ASSUME JInv, CreatePreimage
    PROVE  /\ UNCHANGED <<partVars, logVars, runVars>>
           /\ \/ Fail
              \/ /\ Fine /\ pc' = "journal" /\ ctx' \in Ctx /\ ctx'.phase = "switching"
                 /\ ctx'.from = ctx.from /\ ctx'.to = ctx.to /\ ctx'.pre.version = version
                 /\ ctx'.pre.config = config /\ ctx'.pre.schema = db.schema
<1> DEFINE i == [version |-> version, config |-> config, schema |-> db.schema, writes |-> db.writes]
<1>1. UNCHANGED <<partVars, logVars, runVars>>
  BY Zenon DEF CreatePreimage
<1>2. CASE Fail
  BY <1>1, <1>2
<1>3. CASE Fine /\ Goto("journal") /\ ctx' = [ctx EXCEPT !.phase = "switching", !.pre = i]
  <2>1. i \in Image /\ i.version = version /\ i.config = config /\ i.schema = db.schema
    BY SMTT(20) DEF JInv, TypeOK, Image, Versions, VersionOrNone
  <2>2. ctx \in Ctx
    BY DEF JInv, TypeOK
  <2>3. ctx' = [mode |-> ctx.mode, from |-> ctx.from, to |-> ctx.to, pre |-> i,
                phase |-> "switching", recovering |-> ctx.recovering]
    BY <1>3, <2>2, Zenon DEF Ctx
  <2>4. /\ ctx' \in Ctx /\ ctx'.from = ctx.from /\ ctx'.to = ctx.to /\ ctx'.pre = i
        /\ ctx'.phase = "switching"
    <3> HIDE DEF i
    <3> QED BY <2>1, <2>2, <2>3, Preserved
  <2> QED BY <1>1, <1>3, <2>1, <2>4
<1> QED BY <1>2, <1>3, Zenon DEF CreatePreimage

\* JInv is inductive.
LEMMA JNext == JInv /\ [Next]_vars => JInv'
<1> SUFFICES ASSUME JInv, [Next]_vars PROVE JInv'
  OBVIOUS
<1>0. checkpoint' \in BOOLEAN
  BY CheckpointType DEF JInv, TypeOK
<1> USE <1>0, EmptyTypes DEF JInv, TypeOK, JournalInv, ForwardInv, BackInv, ClearedInv, EarlyPhases,
        PCs, ForwardPCs, RollbackPCs, Phases, Versions, VersionOrNone, Ctx, Journal, StageDir, Image,
        Exit, GiveUp, Fail, OnFailure, Untouched, partVars, logVars, runVars
<1>1. ASSUME NEW mode \in Modes, Command(mode) PROVE JInv'
  <2>1. ctx' \in Ctx
    BY <1>1, SMTT(20) DEF Command
  <2> QED BY <1>1, <2>1, SMTT(30) DEF Command
<1>2. CASE Recover
  <2>1. UNCHANGED <<partVars, logVars, runVars, faults>>
    BY <1>2, RecoverEffect, Zenon
  <2>2. CASE pc' = "idle" /\ ctx' = NoCtx
    BY <2>1, <2>2, SMTT(30)
  <2>3. CASE journal = NoJournal /\ pc' \in {"resume", "begin"} /\ ctx' = ctx
    BY <2>1, <2>3, SMTT(30)
  <2>4. CASE /\ journal # NoJournal
             /\ pc' = IF journal.phase # "prepared" THEN "rb_stop" ELSE "old_start"
             /\ ctx' \in Ctx /\ ctx'.from = journal.from /\ ctx'.pre = journal.pre
             /\ ctx'.phase = journal.phase
    BY <2>1, <2>4, SMTT(30)
  <2> HIDE DEF JInv
  <2> QED BY <1>2, <2>2, <2>3, <2>4, RecoverEffect, Zenon
<1>3. CASE Stage
  <2>1. stage' \in StageDir /\ stage'.exists
    <3>1. stage' = [exists |-> TRUE, tools |-> tools] \/ stage' = [exists |-> TRUE, tools |-> 0]
      BY <1>3, Zenon DEF Stage, Saved
    <3>2. tools \in VersionOrNone /\ 0 \in VersionOrNone
      OBVIOUS
    <3>3. CASE stage' = [exists |-> TRUE, tools |-> tools]
      BY <3>2, <3>3, StageType, Zenon
    <3>4. CASE stage' = [exists |-> TRUE, tools |-> 0]
      BY <3>2, <3>4, StageType, Zenon
    <3> QED BY <3>1, <3>3, <3>4
  <2> QED BY <1>3, <2>1, SMTT(30) DEF Stage
<1>4. CASE WriteJournal
  BY <1>4, SMTT(30) DEF WriteJournal, Entry
<1>5. CASE WriteCheckpoint
  BY <1>5, SMTT(30) DEF WriteCheckpoint, After
<1>6. CASE Resume
  BY <1>6, SMTT(30) DEF Resume, Started
<1>7. CASE Begin
  <2>1. UNCHANGED <<partVars, logVars, runVars, faults>>
    BY <1>7, BeginEffect, Zenon
  <2>2. CASE pc' = "idle" /\ ctx' = NoCtx
    BY <2>1, <2>2, SMTT(30)
  <2>3. CASE /\ pc' = "stage" /\ ctx' \in Ctx
             /\ ctx'.from = version /\ ctx'.to \in Versions /\ ctx'.to >= version
             /\ ctx'.phase = "none"
    BY <2>1, <2>3, SMTT(30)
  <2> HIDE DEF JInv
  <2> QED BY <1>7, <2>2, <2>3, BeginEffect, Zenon
<1>8. CASE StopStack
  BY <1>8, SMTT(30) DEF StopStack
<1>9. CASE CreatePreimage
  <2>1. UNCHANGED <<partVars, logVars, runVars>> /\ pc = "preimage"
    BY <1>9, PreimageEffect, Zenon DEF CreatePreimage
  <2>2. CASE Fail
    BY <2>1, <2>2, SMTT(30)
  <2>3. CASE /\ Fine /\ pc' = "journal" /\ ctx' \in Ctx /\ ctx'.phase = "switching"
             /\ ctx'.from = ctx.from /\ ctx'.to = ctx.to /\ ctx'.pre.version = version
             /\ ctx'.pre.config = config /\ ctx'.pre.schema = db.schema
    BY <2>1, <2>3, SMTT(30)
  <2> HIDE DEF JInv
  <2> QED BY <1>9, <2>2, <2>3, PreimageEffect, Zenon
<1>10. CASE RemoveTargetRelease
  BY <1>10, SMTT(30) DEF RemoveTargetRelease
<1>11. CASE InstallRelease
  BY <1>11, SMTT(30) DEF InstallRelease
<1>12. CASE LinkRelease
  BY <1>12, SMTT(30) DEF LinkRelease
<1>13. CASE ReplaceConfig
  BY <1>13, SMTT(30) DEF ReplaceConfig
<1>14. CASE FinishConfig
  BY <1>14, SMTT(30) DEF FinishConfig
<1>15. CASE InstallTools
  BY <1>15, SMTT(30) DEF InstallTools, Record
<1>16. CASE Migrate
  BY <1>16, SMTT(30) DEF Migrate, Record
<1>17. CASE StartStack
  BY <1>17, SMTT(30) DEF StartStack, Started
<1>18. CASE CheckHealth
  BY <1>18, SMTT(30) DEF CheckHealth, Record
<1>19. CASE WriteVersion
  BY <1>19, SMTT(30) DEF WriteVersion
<1>20. CASE RestoreRelease
  BY <1>20, SMTT(30) DEF RestoreRelease
<1>21. CASE SwitchCurrent
  BY <1>21, SMTT(30) DEF SwitchCurrent
<1>22. CASE RestoreTools
  BY <1>22, SMTT(30) DEF RestoreTools
<1>23. CASE RestorePreimage
  <2>1. db' \in [schema : Versions, writes : 0..MaxWrites]
    BY <1>23, SMTT(30) DEF RestorePreimage
  <2> QED BY <1>23, <2>1, SMTT(30) DEF RestorePreimage
<1>24. CASE RestoreConfig
  BY <1>24, SMTT(30) DEF RestoreConfig
<1>25. CASE ClearJournal \/ ClearCheckpoint
  <2>1. CASE ClearJournal
    BY <1>25, <2>1, SMTT(30) DEF ClearJournal
  <2>2. CASE ClearCheckpoint
    BY <1>25, <2>2, SMTT(30) DEF ClearCheckpoint
  <2> QED BY <1>25, <2>1, <2>2
<1>26. CASE CleanupStage
  BY <1>26, SMTT(30) DEF CleanupStage
<1>27. CASE Kill \/ Torn \/ Reboot
  <2>1. CASE Kill
    BY <2>1, SMTT(30) DEF Kill
  <2>2. CASE Torn
    BY <2>2, SMTT(30) DEF Torn
  <2>3. CASE Reboot
    BY <2>3, SMTT(30) DEF Reboot
  <2> QED BY <1>27, <2>1, <2>2, <2>3
<1>28. CASE Write
  BY <1>28, SMTT(30) DEF Write
<1>29. CASE UNCHANGED vars
  BY <1>29, SMTT(30) DEF vars
<1> HIDE DEF JInv
<1> QED BY <1>1, <1>2, <1>3, <1>4, <1>5, <1>6, <1>7, <1>8, <1>9, <1>10, <1>11, <1>12, <1>13, <1>14,
           <1>15, <1>16, <1>17, <1>18, <1>19, <1>20, <1>21, <1>22, <1>23, <1>24, <1>25, <1>26, <1>27,
           <1>28, <1>29, Zenon DEF Next, Script

\* A journal that exists can be acted on, whatever fails: _upgrade_read_journal
\* finds the stage, and the archive is one that a rollback accepts.
THEOREM JournalAlwaysUsable == Spec => []JournalUsable
<1>1. JInv => JournalUsable
  BY DEF JInv, JournalInv, JournalUsable
<1> QED BY <1>1, JInit, JNext, PTL DEF Spec

\* Every step of the script keeps each file and variable within its type: no
\* rollback restores release 0 or a schema that no release has.
THEOREM UpgradeTypeCorrect == Spec => []TypeOK
<1>1. JInv => TypeOK
  BY DEF JInv
<1> QED BY <1>1, JInit, JNext, PTL DEF Spec

-----------------------------------------------------------------------------
(* The server during an operation, when the faults are ordinary.           *)

\* Commands that fail, a script that is killed, a server that reboots; not the
\* faults that go unnoticed, and not the gap between the two unlinks.
Ordinary == FaultKinds \subseteq {"fail", "kill", "reboot"}

\* All parts are of release v, and so is the stack, if it runs.
Rest(v) ==
    /\ v \in releases /\ current = v /\ config = v /\ tools = v /\ db.schema = v /\ version = v
    /\ stack \in {0, v}

\* The script is writing down one of the phases P.
Recording(P) == pc \in {"journal", "checkpoint"} /\ ctx.phase \in P

\* Without a journal, or with one that is only prepared, nothing is replaced.
EarlyInv ==
    /\ leftovers = {}
    /\ journal.phase \in EarlyPhases => Rest(version)
    /\ pc \in {"resume", "begin", "stage"} => journal = NoJournal

\* From the switch on the stage and the archive are of the release to return to.
LateInv ==
    journal.phase \notin EarlyPhases =>
        /\ stage.tools = journal.from
        /\ journal.pre.config = journal.from /\ journal.pre.schema = journal.from

\* Nothing is replaced yet, or everything is back or through.
RestInv ==
    /\ (pc \in {"stop", "preimage", "remove", "old_start", "old_health", "clear"}
          \/ Recording({"prepared", "switching"})) => Rest(version)
    /\ pc \in {"old_start", "old_health"} /\ journal.phase \notin EarlyPhases => version = journal.from
    /\ pc = "clear" /\ journal.phase \notin EarlyPhases =>
          version = journal.from \/ (version > journal.from /\ checked = version)

\* The script knows what its journal says.
AgreeInv ==
    pc \in {"stage", "journal", "checkpoint"} \cup ForwardPCs =>
        /\ ctx.from <= ctx.to
        /\ pc # "stage" => stage.tools = ctx.from
        /\ ctx.phase \notin EarlyPhases => ctx.pre.config = ctx.from /\ ctx.pre.schema = ctx.from
        /\ journal.phase \notin EarlyPhases => journal.from = ctx.from
        /\ (pc \in ForwardPCs \ {"stop", "preimage"} \/ Recording({"switched", "migrated", "committing"})
              \/ (pc = "checkpoint" /\ ctx.phase = "switching")) => journal.phase \notin EarlyPhases

\* How far the switch has come.
Switched == pc \in {"migrate", "start", "health", "version"} \/ Recording({"switched", "migrated", "committing"})
Migrated == pc \in {"start", "health", "version"} \/ Recording({"migrated", "committing"})
Committing == pc = "version" \/ Recording({"committing"})
ForthInv ==
    /\ pc \in {"link", "config", "rendered", "tools"} \/ Switched => ctx.to \in releases
    /\ pc \in {"config", "rendered", "tools"} \/ Switched => current = ctx.to
    /\ pc = "tools" \/ Switched => config = ctx.to
    /\ Switched => tools = ctx.to
    /\ Migrated => db.schema = ctx.to
    /\ pc = "health" \/ Committing => stack \in {0, ctx.to}
    /\ Committing => checked = ctx.to
    /\ pc \in ForwardPCs \ {"stop", "health", "version"}
          \/ Recording({"switching", "switched", "migrated"}) => stack = 0
    /\ pc \in {"remove", "install", "link", "config", "rendered", "tools"} => ctx.phase = "switching"
    /\ pc = "migrate" => ctx.phase = "switched"
    /\ pc \in {"start", "health"} => ctx.phase = "migrated"
    /\ pc = "version" => ctx.phase = "committing"

\* How far the way back has come.
Returned(P) == pc \in P \cup {"rb_start", "rb_health"}
BackwardInv ==
    /\ pc \in RollbackPCs =>
          /\ journal.phase \notin EarlyPhases /\ journal.from = ctx.from /\ stage.tools = ctx.from
          /\ ctx.pre.config = ctx.from /\ ctx.pre.schema = ctx.from
    /\ pc \in RollbackPCs \ {"rb_stop", "rb_health"} => stack = 0
    /\ pc = "rb_health" => stack \in {0, ctx.from}
    /\ Returned({"rb_link", "rb_tools", "rb_version", "rb_restore", "rb_config"}) => ctx.from \in releases
    /\ Returned({"rb_tools", "rb_version", "rb_restore", "rb_config"}) => current = ctx.from
    /\ Returned({"rb_version", "rb_restore", "rb_config"}) => tools = ctx.from
    /\ Returned({"rb_restore", "rb_config"}) => version = ctx.from
    /\ Returned({"rb_config"}) => db.schema = ctx.from
    /\ Returned({}) => config = ctx.from

ServerInv == EarlyInv /\ LateInv /\ RestInv /\ AgreeInv /\ ForthInv /\ BackwardInv
WInv == JInv /\ ServerInv

\* The first release is whole and nothing is open.
LEMMA WInit == Init => WInv
<1> SUFFICES ASSUME Init PROVE WInv
  OBVIOUS
<1>1. ServerInv
  BY SMTT(30) DEF Init, ServerInv, EarlyInv, LateInv, RestInv, AgreeInv, ForthInv, BackwardInv, Rest,
     Recording, Switched, Migrated, Committing, Returned, ForwardPCs, RollbackPCs, EarlyPhases, NoJournal
<1> QED BY <1>1, JInit DEF WInv

\* Under ordinary faults WInv is inductive.
LEMMA WNext == ASSUME Ordinary PROVE WInv /\ [Next]_vars => WInv'
<1> SUFFICES ASSUME WInv, [Next]_vars PROVE ServerInv'
  BY JNext DEF WInv
<1> USE Ordinary DEF Ordinary, WInv, ServerInv, EarlyInv, LateInv, RestInv, AgreeInv, ForthInv,
        BackwardInv, Rest, Recording, Switched, Migrated, Committing, Returned, JInv, TypeOK, JournalInv,
        ForwardInv, BackInv, ClearedInv, EarlyPhases, PCs, ForwardPCs, RollbackPCs, Phases, Versions,
        VersionOrNone, Ctx, Journal, NoJournal, StageDir, Image, Exit, GiveUp, Fail, OnFailure, Untouched,
        partVars, logVars, runVars
<1>1. ASSUME NEW mode \in Modes, Command(mode) PROVE ServerInv'
  BY <1>1, SMTT(30) DEF Command
<1>2. CASE Recover
  <2>1. UNCHANGED <<partVars, logVars, runVars, faults>>
    BY <1>2, RecoverEffect, Zenon
  <2>2. CASE pc' = "idle" /\ ctx' = NoCtx
    BY <2>1, <2>2, SMTT(30)
  <2>3. CASE journal = NoJournal /\ pc' \in {"resume", "begin"} /\ ctx' = ctx
    BY <2>1, <2>3, SMTT(30)
  <2>4. CASE /\ journal # NoJournal
             /\ pc' = IF journal.phase # "prepared" THEN "rb_stop" ELSE "old_start"
             /\ ctx' \in Ctx /\ ctx'.from = journal.from /\ ctx'.pre = journal.pre
             /\ ctx'.phase = journal.phase
    BY <2>1, <2>4, SMTT(30)
  <2> HIDE DEF JInv, ServerInv
  <2> QED BY <1>2, <2>2, <2>3, <2>4, RecoverEffect, Zenon
<1>3. CASE Stage
  BY <1>3, SMTT(30) DEF Stage, Saved
<1>4. CASE WriteJournal
  BY <1>4, SMTT(30) DEF WriteJournal, Entry
<1>5. CASE WriteCheckpoint
  BY <1>5, SMTT(30) DEF WriteCheckpoint, After
<1>6. CASE Resume
  BY <1>6, SMTT(30) DEF Resume, Started
<1>7. CASE Begin
  <2>1. UNCHANGED <<partVars, logVars, runVars, faults>> /\ pc = "begin"
    BY <1>7, BeginEffect, Zenon DEF Begin
  <2>2. CASE pc' = "idle" /\ ctx' = NoCtx
    BY <2>1, <2>2, SMTT(30)
  <2>3. CASE /\ pc' = "stage" /\ ctx' \in Ctx
             /\ ctx'.from = version /\ ctx'.to \in Versions /\ ctx'.to >= version
             /\ ctx'.phase = "none"
    BY <2>1, <2>3, SMTT(30)
  <2> HIDE DEF JInv, ServerInv
  <2> QED BY <1>7, <2>2, <2>3, BeginEffect, Zenon
<1>8. CASE StopStack
  BY <1>8, SMTT(30) DEF StopStack
<1>9. CASE CreatePreimage
  <2>1. UNCHANGED <<partVars, logVars, runVars>> /\ pc = "preimage"
    BY <1>9, PreimageEffect, Zenon DEF CreatePreimage
  <2>2. CASE Fail
    BY <2>1, <2>2, SMTT(30)
  <2>3. CASE /\ Fine /\ pc' = "journal" /\ ctx' \in Ctx /\ ctx'.phase = "switching"
             /\ ctx'.from = ctx.from /\ ctx'.to = ctx.to /\ ctx'.pre.version = version
             /\ ctx'.pre.config = config /\ ctx'.pre.schema = db.schema
    BY <2>1, <2>3, SMTT(30)
  <2> HIDE DEF JInv, ServerInv
  <2> QED BY <1>9, <2>2, <2>3, PreimageEffect, Zenon
<1>10. CASE RemoveTargetRelease
  BY <1>10, SMTT(30) DEF RemoveTargetRelease
<1>11. CASE InstallRelease
  BY <1>11, SMTT(30) DEF InstallRelease
<1>12. CASE LinkRelease
  BY <1>12, SMTT(30) DEF LinkRelease
<1>13. CASE ReplaceConfig
  BY <1>13, SMTT(30) DEF ReplaceConfig
<1>14. CASE FinishConfig
  BY <1>14, SMTT(30) DEF FinishConfig
<1>15. CASE InstallTools
  BY <1>15, SMTT(30) DEF InstallTools, Record
<1>16. CASE Migrate
  BY <1>16, SMTT(30) DEF Migrate, Record
<1>17. CASE StartStack
  BY <1>17, SMTT(30) DEF StartStack, Started
<1>18. CASE CheckHealth
  BY <1>18, SMTT(30) DEF CheckHealth, Record
<1>19. CASE WriteVersion
  BY <1>19, SMTT(30) DEF WriteVersion
<1>20. CASE RestoreRelease
  BY <1>20, SMTT(30) DEF RestoreRelease
<1>21. CASE SwitchCurrent
  BY <1>21, SMTT(30) DEF SwitchCurrent
<1>22. CASE RestoreTools
  BY <1>22, SMTT(30) DEF RestoreTools
<1>23. CASE RestorePreimage
  BY <1>23, SMTT(30) DEF RestorePreimage
<1>24. CASE RestoreConfig
  BY <1>24, SMTT(30) DEF RestoreConfig
<1>25. CASE ClearJournal
  BY <1>25, SMTT(30) DEF ClearJournal
<1>26. CASE ClearCheckpoint
  BY <1>26, SMTT(30) DEF ClearCheckpoint
<1>27. CASE CleanupStage
  BY <1>27, SMTT(30) DEF CleanupStage
<1>28. CASE Kill
  BY <1>28, SMTT(30) DEF Kill
<1>29. CASE Torn
  BY <1>29, SMTT(30) DEF Torn
<1>30. CASE Reboot
  BY <1>30, SMTT(30) DEF Reboot
<1>31. CASE Write
  BY <1>31, SMTT(30) DEF Write
<1>32. CASE UNCHANGED vars
  BY <1>32, SMTT(30) DEF vars
<1> HIDE DEF ServerInv
<1> QED BY <1>1, <1>2, <1>3, <1>4, <1>5, <1>6, <1>7, <1>8, <1>9, <1>10, <1>11, <1>12, <1>13, <1>14, <1>15,
   <1>16, <1>17, <1>18, <1>19, <1>20, <1>21, <1>22, <1>23, <1>24, <1>25, <1>26, <1>27, <1>28, <1>29, <1>30,
      <1>31, <1>32, Zenon DEF Next, Script

\* Between operations the server is on one whole release, if the faults are
\* ordinary: a command that fails or is killed anywhere in upgrade_run, or a
\* reboot, leaves either a journal or a server without a mixture of releases.
THEOREM RestAlwaysWhole == ASSUME Ordinary PROVE Spec => []RestIsWhole
<1>1. WInv => RestIsWhole
  BY DEF WInv, ServerInv, EarlyInv, Rest, EarlyPhases, NoJournal, Interrupted, RestIsWhole
<1> QED BY <1>1, Ordinary, WInit, WNext, PTL DEF Spec

\* A stack whose health the script waits for has the database of its own
\* release, if the faults are ordinary: forward, in a rollback and in the
\* restart of an operation that replaced nothing.
THEOREM StackServesOwnSchema == ASSUME Ordinary PROVE Spec => []ServesOwnSchema
<1>1. WInv => ServesOwnSchema
  BY SMTT(20) DEF WInv, ServerInv, RestInv, ForthInv, BackwardInv, Rest, Migrated, Returned, ServesOwnSchema
<1> QED BY <1>1, Ordinary, WInit, WNext, PTL DEF Spec

-----------------------------------------------------------------------------
(* Updates implement ReleaseSwitch.                                        *)

\* The release of the server: the one an open transaction returns to.
Base == IF journal.phase \in EarlyPhases THEN version ELSE journal.from

\* What Settled shows is one whole release.
LEMMA SettledIsWhole == WInv => Settled = Switch!Whole(Base) /\ Base \in Versions
<1> SUFFICES ASSUME WInv PROVE Settled = Switch!Whole(Base) /\ Base \in Versions
  OBVIOUS
<1>1. CASE journal.phase \in EarlyPhases
  BY <1>1, SMTT(20) DEF WInv, ServerInv, EarlyInv, Rest, JInv, TypeOK, Settled, Base, EarlyPhases,
     Switch!Whole
<1>2. CASE journal.phase \notin EarlyPhases
  <2>1. journal # NoJournal
    BY <1>2 DEF EarlyPhases, NoJournal
  <2> QED BY <1>2, <2>1, SMTT(20) DEF WInv, ServerInv, LateInv, JInv, JournalInv, Settled, Base, EarlyPhases,
          Switch!Whole
<1> QED BY <1>1, <1>2

\* The release changes only when the journal of a committed operation is
\* cleared, to a newer one that was seen healthy.
LEMMA BaseStep ==
    ASSUME WInv, [Next]_vars
    PROVE  \/ Base' = Base
           \/ Base' > Base /\ checked = Base' /\ checked' = checked
<1>1. CASE UNCHANGED <<journal, version>>
  BY <1>1 DEF Base
<1>2. CASE WriteJournal
  BY <1>2, SMTT(30) DEF WriteJournal, Entry, Base, WInv, ServerInv, RestInv, AgreeInv, Recording, JInv,
     TypeOK, ForwardInv, Ctx, Phases, EarlyPhases, partVars, ForwardPCs
<1>3. CASE WriteVersion
  BY <1>3, SMTT(30) DEF WriteVersion, Base, WInv, ServerInv, AgreeInv, BackwardInv, Recording, ForwardPCs,
     RollbackPCs, logVars
<1>4. CASE ClearJournal
  BY <1>4, SMTT(30) DEF ClearJournal, Base, WInv, ServerInv, RestInv, NoJournal, EarlyPhases, partVars,
     runVars
<1>5. WriteJournal \/ WriteVersion \/ ClearJournal \/ UNCHANGED <<journal, version>>
  BY Zenon DEF Next, Script, Command, Recover, Resume, Begin, Stage, WriteCheckpoint,
     StopStack, CreatePreimage, RemoveTargetRelease, InstallRelease, LinkRelease, ReplaceConfig,
     FinishConfig, InstallTools, Migrate, StartStack, CheckHealth, RestoreRelease,
     SwitchCurrent, RestoreTools, RestorePreimage, RestoreConfig, ClearCheckpoint,
     CleanupStage, Kill, Torn, Reboot, Write, partVars, logVars, vars
<1> QED BY <1>1, <1>2, <1>3, <1>4, <1>5

\* Updates implement ReleaseSwitch, if the faults are ordinary: whatever step
\* fails or is cut short, the link, the configuration, the schema and the
\* recorded version change together, forward only, and to a release that
\* passed its health check (upgrade_run, _upgrade_recover_interrupted).
THEOREM UpdatesSwitchAtomically == ASSUME Ordinary PROVE Spec => AtomicSwitch
<1>1. Init => Switch!Init
  BY SMTT(20) DEF Init, Switch!Init, Switch!Whole, Settled, NoJournal
<1>2. WInv /\ WInv' /\ [Next]_vars => [Switch!Next]_(Switch!vars)
  <2> SUFFICES ASSUME WInv, WInv', [Next]_vars PROVE [Switch!Next]_(Switch!vars)
    OBVIOUS
  <2>1. Settled = Switch!Whole(Base) /\ Base \in Versions
    BY SettledIsWhole
  <2>2. Settled' = Switch!Whole(Base') /\ Base' \in Versions
    <3>1. (Settled = Switch!Whole(Base) /\ Base \in Versions)'
      BY SettledIsWhole, PTL
    <3> QED BY <3>1 DEF Switch!Whole, Versions
  <2>3. checked' \in 0..MaxVersion
    BY DEF WInv, JInv, TypeOK, VersionOrNone
  <2>4. CASE Base' = Base
    <3>1. Settled' = Settled
      BY <2>1, <2>2, <2>4
    <3> QED BY <2>3, <3>1 DEF Switch!Next, Switch!CheckHealth
  <2>5. CASE Base' > Base /\ checked = Base' /\ checked' = checked
    <3>1. Settled.version = Base
      BY <2>1 DEF Switch!Whole
    <3>2. Switch!Upgrade(Base')
      BY <2>2, <2>5, <3>1 DEF Switch!Upgrade
    <3> QED BY <2>2, <3>2 DEF Switch!Next, Switch!Versions, Versions
  <2> QED BY <2>4, <2>5, BaseStep
<1>3. Spec => []WInv
  BY Ordinary, WInit, WNext, PTL DEF Spec
<1> QED BY <1>1, <1>2, <1>3, PTL DEF Spec, AtomicSwitch, Switch!Spec
=============================================================================
