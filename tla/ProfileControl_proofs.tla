----------------------- MODULE ProfileControl_proofs -----------------------
(***************************************************************************)
(* Machine-checked proofs about ProfileControl, for any set of profiles    *)
(* and any bounds.  The inductive invariant IInv says, next to what is to  *)
(* be proved, which thread may be where: one thread at most is inside the  *)
(* coordinator, what it is about to do fits the row of its target, and the *)
(* list of accounts it still has to add consists of active profiles.       *)
(***************************************************************************)
EXTENDS ProfileControl, TLAPS

\* Exactly the owner of the lock is inside the coordinator.
LockInv == \A t \in Threads : frame[t].pc # "idle" <=> lock = t

\* After disable has committed the row.
CommittedPCs == {"kick", "remove", "restart", "ready", "list", "readd", "finish", "erase"}

\* A thread's target and operation fit what it does next.
TargetInv ==
    \A t \in Threads :
        /\ frame[t].pc \in ProvisionPCs =>
               frame[t].op \in {"create", "enable"} /\ frame[t].target \in Profiles \ revoked
        /\ frame[t].pc \in RevokePCs \cup ErasePCs =>
               frame[t].op \in {"disable", "delete"} /\ frame[t].target \in Profiles
        /\ frame[t].pc \in ErasePCs => frame[t].op = "delete"
        /\ frame[t].pc \in CommittedPCs => state[frame[t].target] = "DISABLED"
        /\ frame[t].pc = "mark" =>
               /\ frame[t].op \in {"create", "enable", "delete"}
               /\ frame[t].target \in Profiles
               /\ frame[t].op # "delete" => frame[t].target \notin revoked

\* The accounts a thread still has to add are those of active profiles.
TodoInv ==
    \A t \in Threads :
        /\ frame[t].pc \in {"readd", "r_add"} => frame[t].todo \subseteq Active
        /\ frame[t].pc \in {"r_users", "r_remove", "r_restart", "r_ready"} =>
               frame[t].todo = Active

\* p has no way into Xray, and no way back.
Barred(p) == p \notin users /\ p \notin vless /\ Rpc("add", p) \notin pend

\* A revoked profile is switched off and barred; so is the target of a
\* revocation that has been complete so far, once Xray was restarted.
RevokedInv ==
    /\ \A p \in revoked : state[p] \in {"DISABLED", "deleted"} /\ Barred(p)
    /\ \A t \in Threads :
           frame[t].pc \in {"ready", "list", "readd", "finish"} /\ ~frame[t].incomplete =>
               Barred(frame[t].target)

IInv == TypeOK /\ LockInv /\ TargetInv /\ TodoInv /\ RevokedInv

-----------------------------------------------------------------------------
(* The inductive invariant.                                                *)

USE ProfilesAssumption, BoundsAssumption
USE DEF Threads, At, Goto

\* What Return leaves behind is a frame outside the coordinator.
LEMMA IdleFrameType == IdleFrame \in Frame /\ IdleFrame.pc = "idle"
BY DEF IdleFrame, Frame, Ops, PCs

\* The process starts outside the coordinator, with empty runtimes.
LEMMA InitInv == Init => IInv
<1> SUFFICES ASSUME Init PROVE IInv
  OBVIOUS
<1> USE IdleFrameType
        DEF Init, States, RowStates, Codes, Results, PCs, ProvisionPCs, RevokePCs, ErasePCs,
            ReconcilePCs, CommittedPCs
<1>1. restartDue \in BOOLEAN /\ ready \in BOOLEAN /\ drift \in BOOLEAN
  BY Zenon
<1>2. TypeOK
  BY <1>1, SMTT(20) DEF TypeOK
<1>3. LockInv
  BY SMTT(20) DEF LockInv
<1>4. TargetInv /\ TodoInv
  BY SMTT(20) DEF TargetInv, TodoInv
<1>5. RevokedInv
  BY SMTT(20) DEF RevokedInv
<1> QED BY <1>2, <1>3, <1>4, <1>5 DEF IInv

\* The lock was free and t took it to execute an operation.
Entered(t, name, p, first) ==
    /\ lock = "free" /\ lock' = t
    /\ frame' \in [Threads -> Frame]
    /\ frame'[t].op = name /\ frame'[t].pc = first /\ frame'[t].target = p
    /\ \A u \in Threads \ {t} : frame'[u] = frame[u]

\* Entering the coordinator puts the caller, and nobody else, inside.
LEMMA BeginEffect ==
    ASSUME TypeOK, NEW t \in Threads, NEW name \in Ops,
           NEW p \in Profiles \cup {NoProfile}, NEW first \in PCs,
           Begin(t, name, p, first)
    PROVE  Entered(t, name, p, first)
<1>1. [IdleFrame EXCEPT !.op = name, !.pc = first, !.target = p] \in Frame
  BY IdleFrameType DEF Frame
<1> QED BY <1>1, IdleFrameType, SMTT(20) DEF Begin, Acquire, LockFree, TypeOK, Frame, Entered

\* create and enable work on a profile that is not revoked.
LEMMA ProvisionInv ==
    ASSUME IInv, NEW t \in Threads, Provision(t)
    PROVE  IInv'
<1> USE IdleFrameType
        DEF IInv, TypeOK, LockInv, TargetInv, TodoInv, RevokedInv, Barred, Active,
            Frame, PCs, ProvisionPCs, RevokePCs, ErasePCs, ReconcilePCs, CommittedPCs,
            Ops, States, RowStates, Codes, Rpcs, Rpc, Results, Fault,
            dbVars, xrayVars, hyVars, ctlVars
<1>1. CASE AddUser(t)
  BY <1>1, SMTT(20) DEF AddUser, Applied, Confirmed, Raised
<1>2. CASE SetActive(t)
  <2> USE <1>2
        DEF SetActive, Legal, LegalTransitions, SetState, SetRuntimeError,
            AddFailed, RevokeIncomplete, MaterialInvalid
  <2>1. TypeOK'
    BY SMTT(20)
  <2>2. LockInv'
    BY SMTT(20)
  <2>3. TargetInv'
    BY SMTT(20)
  <2>4. TodoInv'
    BY SMTT(20)
  <2>5. RevokedInv'
    BY SMTT(20)
  <2>6. QED BY <2>1, <2>2, <2>3, <2>4, <2>5 DEF IInv
<1>3. CASE BundleForRecord(t)
  <2> USE <1>3
        DEF BundleForRecord, Return
  <2>1. TypeOK'
    BY SMTT(20)
  <2>2. LockInv'
    BY SMTT(20)
  <2>3. TargetInv'
    BY SMTT(20)
  <2>4. TodoInv'
    BY SMTT(20)
  <2>5. RevokedInv'
    BY SMTT(20)
  <2>6. QED BY <2>1, <2>2, <2>3, <2>4, <2>5 DEF IInv
<1>4. CASE UndoAdd(t)
  BY <1>4, SMTT(20) DEF UndoAdd, Applied, Confirmed, Raised
<1>5. CASE MarkError(t)
  <2> USE <1>5
        DEF MarkError, Legal, LegalTransitions, SetState, SetRuntimeError,
            AddFailed, RevokeIncomplete, MaterialInvalid, ErrorCode
  <2>1. TypeOK'
    BY SMTT(20)
  <2>2. LockInv'
    BY SMTT(20)
  <2>3. TargetInv'
    BY SMTT(20)
  <2>4. TodoInv'
    BY SMTT(20)
  <2>5. RevokedInv'
    BY SMTT(20)
  <2>6. QED BY <2>1, <2>2, <2>3, <2>4, <2>5 DEF IInv
<1> QED BY <1>1, <1>2, <1>3, <1>4, <1>5 DEF Provision

\* disable and delete: the restart is what bars the target, and only a
\* revocation without a failed phase makes it revoked.
LEMMA RevokeInv ==
    ASSUME IInv, NEW t \in Threads, Revoke(t)
    PROVE  IInv'
<1> USE IdleFrameType
        DEF IInv, TypeOK, LockInv, TargetInv, TodoInv, RevokedInv, Barred, Active,
            Frame, PCs, ProvisionPCs, RevokePCs, ErasePCs, ReconcilePCs, CommittedPCs,
            Ops, States, RowStates, Codes, Rpcs, Rpc, Results, Fault,
            dbVars, xrayVars, hyVars, ctlVars
<1>1. CASE PrepareDisabled(t)
  <2> USE <1>1
        DEF PrepareDisabled, Legal, LegalTransitions, SetState,
            SetRuntimeError, AddFailed, RevokeIncomplete, MaterialInvalid,
            Return, Raise
  <2>1. TypeOK'
    BY SMTT(20)
  <2>2. LockInv'
    BY SMTT(20)
  <2>3. TargetInv'
    BY SMTT(20)
  <2>4. TodoInv'
    BY SMTT(20)
  <2>5. RevokedInv'
    BY SMTT(20)
  <2>6. QED BY <2>1, <2>2, <2>3, <2>4, <2>5 DEF IInv
<1>2. CASE Kick(t)
  BY <1>2, SMTT(20) DEF Kick, Attempt
<1>3. CASE RemoveUser(t)
  BY <1>3, SMTT(20) DEF RemoveUser, Attempt, Applied, Confirmed, Raised
<1>4. CASE Restart(t)
  <2> USE <1>4
        DEF Restart, Attempt, Wipe, RestartConfirmed, RestartRaised
  <2>1. TypeOK'
    <3>1. drift' \in BOOLEAN /\ restartDue' \in BOOLEAN
      BY Zenon
    <3>2. QED BY <3>1, SMTT(20)
  <2>2. LockInv'
    BY SMTT(20)
  <2>3. TargetInv'
    BY SMTT(20)
  <2>4. TodoInv'
    BY SMTT(20)
  <2>5. RevokedInv'
    BY SMTT(20)
  <2>6. QED BY <2>1, <2>2, <2>3, <2>4, <2>5 DEF IInv
<1>5. CASE WaitReady(t)
  BY <1>5, SMTT(20) DEF WaitReady, Attempt
<1>6. CASE ListActive(t)
  <2> USE <1>6
        DEF ListActive, Return, Raise
  <2>1. TypeOK'
    BY SMTT(20)
  <2>2. LockInv'
    BY SMTT(20)
  <2>3. TargetInv'
    BY SMTT(20)
  <2>4. TodoInv'
    BY SMTT(20)
  <2>5. RevokedInv'
    BY SMTT(20)
  <2>6. QED BY <2>1, <2>2, <2>3, <2>4, <2>5 DEF IInv
<1>7. CASE ReAddUser(t)
  <2>1. CASE frame[t].todo = {} /\ Goto(t, "finish") /\ UNCHANGED <<users, pend, faults>>
    BY <1>7, <2>1, SMTT(20) DEF ReAddUser
  <2>2. ASSUME NEW q \in frame[t].todo, Confirmed(Rpc("add", q)), ReAdded(t, q, FALSE)
        PROVE  IInv'
    <3> USE <1>7, <2>2
          DEF ReAddUser, ReAdded, Applied, Confirmed
    <3>1. TypeOK'
      BY SMTT(20)
    <3>2. LockInv'
      BY SMTT(20)
    <3>3. TargetInv'
      BY SMTT(20)
    <3>4. TodoInv'
      BY SMTT(20)
    <3>5. RevokedInv'
      BY SMTT(20)
    <3>6. QED BY <3>1, <3>2, <3>3, <3>4, <3>5 DEF IInv
  <2>3. ASSUME NEW q \in frame[t].todo, Raised(Rpc("add", q)), ReAdded(t, q, TRUE)
        PROVE  IInv'
    <3> USE <1>7, <2>3
          DEF ReAddUser, ReAdded, Applied, Raised
    <3>1. TypeOK'
      BY SMTT(20)
    <3>2. LockInv'
      BY SMTT(20)
    <3>3. TargetInv'
      BY SMTT(20)
    <3>4. TodoInv'
      BY SMTT(20)
    <3>5. RevokedInv'
      BY SMTT(20)
    <3>6. QED BY <3>1, <3>2, <3>3, <3>4, <3>5 DEF IInv
  <2>4. QED BY <1>7, <2>1, <2>2, <2>3 DEF ReAddUser
<1>8. CASE FinishDisable(t)
  <2> USE <1>8
        DEF FinishDisable, SetRuntimeError, Return, Raise, RevokeIncomplete
  <2>1. TypeOK'
    BY SMTT(20)
  <2>2. LockInv'
    BY SMTT(20)
  <2>3. TargetInv'
    BY SMTT(20)
  <2>4. TodoInv'
    BY SMTT(20)
  <2>5. RevokedInv'
    BY SMTT(20)
  <2>6. QED BY <2>1, <2>2, <2>3, <2>4, <2>5 DEF IInv
<1>9. CASE DeleteLocal(t)
  <2> USE <1>9
        DEF DeleteLocal
  <2>1. TypeOK'
    BY SMTT(20)
  <2>2. LockInv'
    BY SMTT(20)
  <2>3. TargetInv'
    BY SMTT(20)
  <2>4. TodoInv'
    BY SMTT(20)
  <2>5. RevokedInv'
    BY SMTT(20)
  <2>6. QED BY <2>1, <2>2, <2>3, <2>4, <2>5 DEF IInv
<1>10. CASE CheckpointWal(t)
  <2> USE <1>10
        DEF CheckpointWal, Return
  <2>1. TypeOK'
    BY SMTT(20)
  <2>2. LockInv'
    BY SMTT(20)
  <2>3. TargetInv'
    BY SMTT(20)
  <2>4. TodoInv'
    BY SMTT(20)
  <2>5. RevokedInv'
    BY SMTT(20)
  <2>6. QED BY <2>1, <2>2, <2>3, <2>4, <2>5 DEF IInv
<1> QED BY <1>1, <1>2, <1>3, <1>4, <1>5, <1>6, <1>7, <1>8, <1>9, <1>10 DEF Revoke

\* A reconciliation adds active profiles only, and those are not revoked.
LEMMA ReconcileInv ==
    ASSUME IInv, NEW t \in Threads, ReconcileStep(t)
    PROVE  IInv'
<1> USE IdleFrameType
        DEF IInv, TypeOK, LockInv, TargetInv, TodoInv, RevokedInv, Barred, Active,
            Frame, PCs, ProvisionPCs, RevokePCs, ErasePCs, ReconcilePCs, CommittedPCs,
            Ops, States, RowStates, Codes, Rpcs, Rpc, Results, Fault,
            dbVars, xrayVars, hyVars, ctlVars
<1>1. CASE ReadDesired(t)
  BY <1>1, SMTT(20) DEF ReadDesired
<1>2. CASE ListUsers(t)
  <2> USE <1>2
        DEF ListUsers, ToAdd
  <2>1. TypeOK'
    <3>1. drift' \in BOOLEAN
      BY Zenon
    <3>2. QED BY <3>1, SMTT(20)
  <2>2. LockInv'
    BY SMTT(20)
  <2>3. TargetInv'
    BY SMTT(20)
  <2>4. TodoInv'
    BY SMTT(20)
  <2>5. RevokedInv'
    BY SMTT(20)
  <2>6. QED BY <2>1, <2>2, <2>3, <2>4, <2>5 DEF IInv
<1>3. CASE RemoveExtra(t)
  BY <1>3, SMTT(20) DEF RemoveExtra, Applied, Confirmed, Raised
<1>4. CASE ReconcileRestart(t)
  <2> USE <1>4
        DEF ReconcileRestart, Wipe, RestartConfirmed, RestartRaised
  <2>1. TypeOK'
    <3>1. drift' \in BOOLEAN /\ restartDue' \in BOOLEAN
      BY Zenon
    <3>2. QED BY <3>1, SMTT(20)
  <2>2. LockInv'
    BY SMTT(20)
  <2>3. TargetInv'
    BY SMTT(20)
  <2>4. TodoInv'
    BY SMTT(20)
  <2>5. RevokedInv'
    BY SMTT(20)
  <2>6. QED BY <2>1, <2>2, <2>3, <2>4, <2>5 DEF IInv
<1>5. CASE ReconcileReady(t)
  BY <1>5, SMTT(20) DEF ReconcileReady
<1>6. CASE ReconcileAdd(t)
  BY <1>6, SMTT(20) DEF ReconcileAdd, Applied, Confirmed, Raised
<1>7. CASE UpdateHealth(t)
  BY <1>7, SMTT(20) DEF UpdateHealth, Return
<1> QED BY <1>1, <1>2, <1>3, <1>4, <1>5, <1>6, <1>7 DEF ReconcileStep

\* A request enters the coordinator only when nobody is inside; enabling a
\* profile gives up its revocation.
LEMMA AdministerInv ==
    ASSUME IInv, NEW p \in Profiles, Administer(p)
    PROVE  IInv'
<1> USE IdleFrameType
        DEF IInv, TypeOK, LockInv, TargetInv, TodoInv, RevokedInv, Barred, Active,
            Frame, PCs, ProvisionPCs, RevokePCs, ErasePCs, ReconcilePCs, CommittedPCs,
            Ops, States, RowStates, Codes, Rpcs, Rpc, Results, Fault,
            dbVars, xrayVars, hyVars, ctlVars
<1>1. CASE Create(p)
  <2>1. CASE Request("create", p, "add") /\ UNCHANGED faults
    <3> USE <1>1, <2>1
          DEF Create, Request
    <3>0. Entered("loop", "create", p, "add")
      BY BeginEffect
    <3> USE <3>0 DEF Entered
    <3>1. TypeOK'
      BY SMTT(20)
    <3>2. LockInv'
      BY SMTT(20)
    <3>3. TargetInv'
      <4>1. p \notin revoked
        OBVIOUS
      <4>2. QED BY <4>1, SMTT(20)
    <3>4. TodoInv'
      BY SMTT(20)
    <3>5. RevokedInv'
      BY SMTT(20)
    <3>6. QED BY <3>1, <3>2, <3>3, <3>4, <3>5 DEF IInv
  <2>2. CASE Fault("db") /\ ops < MaxOps /\ ops' = ops + 1 /\ UNCHANGED <<lock, frame>>
    <3> USE <1>1, <2>2
          DEF Create, LockFree
    <3>1. TypeOK'
      BY SMTT(20)
    <3>2. LockInv'
      BY SMTT(20)
    <3>3. TargetInv'
      BY SMTT(20)
    <3>4. TodoInv'
      BY SMTT(20)
    <3>5. RevokedInv'
      BY SMTT(20)
    <3>6. QED BY <3>1, <3>2, <3>3, <3>4, <3>5 DEF IInv
  <2>3. QED BY <1>1, <2>1, <2>2 DEF Create
<1>2. CASE Enable(p)
  <2> USE <1>2
        DEF Enable, Request, Legal, LegalTransitions, SetState
  <2>0. Entered("loop", "enable", p, "add")
    BY BeginEffect
  <2> USE <2>0 DEF Entered
  <2>1. TypeOK'
    BY SMTT(20)
  <2>2. LockInv'
    BY SMTT(20)
  <2>3. TargetInv'
    BY SMTT(20)
  <2>4. TodoInv'
    BY SMTT(20)
  <2>5. RevokedInv'
    BY SMTT(20)
  <2>6. QED BY <2>1, <2>2, <2>3, <2>4, <2>5 DEF IInv
<1>3. CASE Disable(p)
  <2> USE <1>3
        DEF Disable, Request
  <2>0. Entered("loop", "disable", p, "prepare")
    BY BeginEffect
  <2> USE <2>0 DEF Entered
  <2>1. TypeOK'
    BY SMTT(20)
  <2>2. LockInv'
    BY SMTT(20)
  <2>3. TargetInv'
    BY SMTT(20)
  <2>4. TodoInv'
    BY SMTT(20)
  <2>5. RevokedInv'
    BY SMTT(20)
  <2>6. QED BY <2>1, <2>2, <2>3, <2>4, <2>5 DEF IInv
<1>4. CASE Delete(p)
  <2> USE <1>4
        DEF Delete, Request
  <2>0. Entered("loop", "delete", p, "prepare")
    BY BeginEffect
  <2> USE <2>0 DEF Entered
  <2>1. TypeOK'
    BY SMTT(20)
  <2>2. LockInv'
    BY SMTT(20)
  <2>3. TargetInv'
    BY SMTT(20)
  <2>4. TodoInv'
    BY SMTT(20)
  <2>5. RevokedInv'
    BY SMTT(20)
  <2>6. QED BY <2>1, <2>2, <2>3, <2>4, <2>5 DEF IInv
<1> QED BY <1>1, <1>2, <1>3, <1>4 DEF Administer

\* Clients get a VLESS session only through an account.
LEMMA TransportsInv ==
    ASSUME IInv, NEW p \in Profiles, Transports(p)
    PROVE  IInv'
<1> USE IdleFrameType
        DEF IInv, TypeOK, LockInv, TargetInv, TodoInv, RevokedInv, Barred, Active,
            Frame, PCs, ProvisionPCs, RevokePCs, ErasePCs, ReconcilePCs, CommittedPCs,
            Ops, States, RowStates, Codes, Rpcs, Rpc, Results, Fault,
            dbVars, xrayVars, hyVars, ctlVars
<1>1. CASE Authorize(p)
  BY <1>1, SMTT(20) DEF Authorize, AuthAccepted
<1>2. CASE HysteriaSession(p)
  BY <1>2, SMTT(20) DEF HysteriaSession
<1>3. CASE VlessSession(p)
  BY <1>3, SMTT(20) DEF VlessSession
<1> QED BY <1>1, <1>2, <1>3 DEF Transports

\* The reconciliation task, late effects and crashes.
LEMMA EnvironmentInv ==
    ASSUME IInv,
           Reconcile \/ PublishResult \/ LateRpc \/ LateRestart \/ XrayCrash \/ ControlCrash
    PROVE  IInv'
<1> USE IdleFrameType
        DEF IInv, TypeOK, LockInv, TargetInv, TodoInv, RevokedInv, Barred, Active,
            Frame, PCs, ProvisionPCs, RevokePCs, ErasePCs, ReconcilePCs, CommittedPCs,
            Ops, States, RowStates, Codes, Rpcs, Rpc, Results, Fault,
            dbVars, xrayVars, hyVars, ctlVars
<1>1. CASE Reconcile
  <2> USE <1>1
        DEF Reconcile
  <2>0. Entered("worker", "reconcile", NoProfile, "r_begin")
    BY BeginEffect
  <2> USE <2>0 DEF Entered
  <2>1. TypeOK'
    BY SMTT(20)
  <2>2. LockInv'
    BY SMTT(20)
  <2>3. TargetInv'
    BY SMTT(20)
  <2>4. TodoInv'
    BY SMTT(20)
  <2>5. RevokedInv'
    BY SMTT(20)
  <2>6. QED BY <2>1, <2>2, <2>3, <2>4, <2>5 DEF IInv
<1>2. CASE PublishResult
  <2> USE <1>2
        DEF PublishResult
  <2>1. TypeOK'
    <3>1. ready' \in BOOLEAN
      BY Zenon
    <3>2. QED BY <3>1, SMTT(20)
  <2>2. LockInv'
    BY SMTT(20)
  <2>3. TargetInv'
    BY SMTT(20)
  <2>4. TodoInv'
    BY SMTT(20)
  <2>5. RevokedInv'
    BY SMTT(20)
  <2>6. QED BY <2>1, <2>2, <2>3, <2>4, <2>5 DEF IInv
<1>3. CASE LateRpc
  <2> USE <1>3
        DEF LateRpc, Applied
  <2>1. TypeOK'
    <3>1. drift' \in BOOLEAN
      BY Zenon
    <3>2. QED BY <3>1, SMTT(20)
  <2>2. LockInv'
    BY SMTT(20)
  <2>3. TargetInv'
    BY SMTT(20)
  <2>4. TodoInv'
    BY SMTT(20)
  <2>5. RevokedInv'
    BY SMTT(20)
  <2>6. QED BY <2>1, <2>2, <2>3, <2>4, <2>5 DEF IInv
<1>4. CASE LateRestart
  <2> USE <1>4
        DEF LateRestart, Wipe
  <2>1. TypeOK'
    <3>1. drift' \in BOOLEAN /\ restartDue' \in BOOLEAN
      BY Zenon
    <3>2. QED BY <3>1, SMTT(20)
  <2>2. LockInv'
    BY SMTT(20)
  <2>3. TargetInv'
    BY SMTT(20)
  <2>4. TodoInv'
    BY SMTT(20)
  <2>5. RevokedInv'
    <3>1. \A q : Barred(q)'
      BY Zenon
    <3>2. UNCHANGED <<state, frame, revoked>>
      OBVIOUS
    <3> HIDE <1>4 DEF Barred
    <3>3. QED BY <3>1, <3>2, SMTT(20)
  <2>6. QED BY <2>1, <2>2, <2>3, <2>4, <2>5 DEF IInv
<1>5. CASE XrayCrash
  <2> USE <1>5
        DEF XrayCrash, Wipe
  <2>1. TypeOK'
    <3>1. drift' \in BOOLEAN
      BY Zenon
    <3>2. QED BY <3>1, SMTT(20)
  <2>2. LockInv'
    BY SMTT(20)
  <2>3. TargetInv'
    BY SMTT(20)
  <2>4. TodoInv'
    BY SMTT(20)
  <2>5. RevokedInv'
    <3>1. \A q : Barred(q)'
      BY Zenon
    <3>2. UNCHANGED <<state, frame, revoked>>
      OBVIOUS
    <3> HIDE <1>5 DEF Barred
    <3>3. QED BY <3>1, <3>2, SMTT(20)
  <2>6. QED BY <2>1, <2>2, <2>3, <2>4, <2>5 DEF IInv
<1>6. CASE ControlCrash
  <2> USE <1>6
        DEF ControlCrash
  <2>1. TypeOK'
    <3>1. ready' \in BOOLEAN
      BY Zenon
    <3>2. QED BY <3>1, SMTT(20)
  <2>2. LockInv'
    BY SMTT(20)
  <2>3. TargetInv'
    BY SMTT(20)
  <2>4. TodoInv'
    BY SMTT(20)
  <2>5. RevokedInv'
    BY SMTT(20)
  <2>6. QED BY <2>1, <2>2, <2>3, <2>4, <2>5 DEF IInv
<1> QED BY <1>1, <1>2, <1>3, <1>4, <1>5, <1>6

\* IInv is inductive.
LEMMA NextInv == IInv /\ [Next]_vars => IInv'
<1> SUFFICES ASSUME IInv, [Next]_vars PROVE IInv'
  OBVIOUS
<1>1. CASE Next
  BY <1>1, ProvisionInv, RevokeInv, ReconcileInv, AdministerInv, TransportsInv,
     EnvironmentInv, Zenon DEF Next, Step
<1>2. CASE UNCHANGED vars
  BY <1>2, SMTT(30) DEF vars, dbVars, xrayVars, hyVars, ctlVars, IInv, TypeOK, LockInv, TargetInv,
     TodoInv, RevokedInv, Barred, Active
<1> QED BY <1>1, <1>2

\* The invariant holds of the control plane.
THEOREM Invariance == Spec => []IInv
BY InitInv, NextInv, PTL DEF Spec

\* Every variable of the control plane keeps its type.
THEOREM TypeCorrect == Spec => []TypeOK
<1>1. IInv => TypeOK
  BY DEF IInv
<1> QED BY <1>1, Invariance, PTL

\* A successful disable or delete leaves no account, no VLESS session and no
\* queued request of the profile in Xray, whatever failed or crashed before
\* and after it, until the profile is enabled again.
THEOREM RevocationIsSound == Spec => []RevocationSound
<1>1. IInv => RevocationSound
  BY DEF IInv, RevokedInv, Barred, RevocationSound
<1> QED BY <1>1, Invariance, PTL

-----------------------------------------------------------------------------
(* The database: ProfileControl implements ProfileLifecycle.               *)

\* The row of one profile moves as the repository's table of transitions says.
LEMMA SetStateRefines ==
    ASSUME NEW p \in Profiles, NEW s \in RowStates, NEW c \in Codes, SetState(p, s, c)
    PROVE  Lifecycle!Next
<1>1. Lifecycle!SetState(p, s, c)
  BY DEF SetState, Legal, LegalTransitions, RowStates, Lifecycle!SetState,
         Lifecycle!LegalTransitions, Lifecycle!RowStates
<1> QED BY <1>1 DEF Lifecycle!Next, RowStates, Lifecycle!RowStates, Codes, Lifecycle!Codes,
              AddFailed, RevokeIncomplete, MaterialInvalid, Lifecycle!AddFailed,
              Lifecycle!RevokeIncomplete, Lifecycle!MaterialInvalid

\* A row is annotated only in DISABLED.
LEMMA SetRuntimeErrorRefines ==
    ASSUME NEW p \in Profiles, NEW c \in Codes \ {"none"}, state[p] = "DISABLED",
           SetRuntimeError(p, c)
    PROVE  Lifecycle!Next
<1>1. Lifecycle!SetRuntimeError(p, c)
  BY DEF SetRuntimeError, Lifecycle!SetRuntimeError
<1> QED BY <1>1 DEF Lifecycle!Next, Codes, Lifecycle!Codes,
              AddFailed, RevokeIncomplete, MaterialInvalid, Lifecycle!AddFailed,
              Lifecycle!RevokeIncomplete, Lifecycle!MaterialInvalid

\* Every step of the control plane is a step of the lifecycle or leaves the
\* database alone.
LEMMA StepRefines == IInv /\ [Next]_vars => [Lifecycle!Next]_(Lifecycle!vars)
<1> SUFFICES ASSUME IInv, [Next]_vars PROVE Lifecycle!Next \/ UNCHANGED dbVars
  BY DEF Lifecycle!vars, dbVars
<1> USE DEF RowStates, Codes, AddFailed, RevokeIncomplete, MaterialInvalid
<1>1. ASSUME NEW p \in Profiles, Create(p) PROVE Lifecycle!Next
  BY <1>1 DEF Create, Lifecycle!Next, Lifecycle!InsertPending
<1>2. ASSUME NEW p \in Profiles, Enable(p) PROVE Lifecycle!Next \/ UNCHANGED dbVars
  BY <1>2, SetStateRefines DEF Enable
<1>3. ASSUME NEW t \in Threads, SetActive(t) PROVE Lifecycle!Next \/ UNCHANGED dbVars
  <2>1. frame[t].target \in Profiles
    BY <1>3 DEF SetActive, IInv, TargetInv, ProvisionPCs
  <2>2. QED BY <1>3, <2>1, SetStateRefines DEF SetActive
<1>4. ASSUME NEW t \in Threads, MarkError(t) PROVE Lifecycle!Next \/ UNCHANGED dbVars
  <2>1. frame[t].target \in Profiles
    BY <1>4 DEF MarkError, IInv, TargetInv
  <2>2. ErrorCode(t) \in Codes \ {"none"}
    BY DEF ErrorCode
  <2>3. QED BY <1>4, <2>1, <2>2, SetStateRefines, SetRuntimeErrorRefines DEF MarkError
<1>5. ASSUME NEW t \in Threads, PrepareDisabled(t) PROVE Lifecycle!Next \/ UNCHANGED dbVars
  <2>1. frame[t].target \in Profiles
    BY <1>5 DEF PrepareDisabled, IInv, TargetInv, RevokePCs
  <2>2. QED BY <1>5, <2>1, SetStateRefines DEF PrepareDisabled
<1>6. ASSUME NEW t \in Threads, FinishDisable(t) PROVE Lifecycle!Next \/ UNCHANGED dbVars
  <2>1. frame[t].target \in Profiles /\ state[frame[t].target] = "DISABLED"
    BY <1>6 DEF FinishDisable, IInv, TargetInv, RevokePCs, CommittedPCs
  <2>2. QED BY <1>6, <2>1, SetRuntimeErrorRefines DEF FinishDisable
<1>7. ASSUME NEW t \in Threads, DeleteLocal(t) PROVE Lifecycle!Next \/ UNCHANGED dbVars
  <2>1. frame[t].target \in Profiles /\ state[frame[t].target] = "DISABLED"
    BY <1>7 DEF DeleteLocal, IInv, TargetInv, ErasePCs, CommittedPCs
  <2>2. QED BY <1>7, <2>1 DEF DeleteLocal, Lifecycle!Next, Lifecycle!DeleteLocal
<1>8. ASSUME NEW t \in Threads,
             \/ AddUser(t) \/ BundleForRecord(t) \/ UndoAdd(t) \/ Kick(t) \/ RemoveUser(t)
             \/ Restart(t) \/ WaitReady(t) \/ ListActive(t) \/ ReAddUser(t) \/ CheckpointWal(t)
             \/ ReconcileStep(t)
      PROVE  UNCHANGED dbVars
  BY <1>8, Zenon DEF AddUser, BundleForRecord, UndoAdd, Kick, RemoveUser, Restart, WaitReady,
     ListActive, ReAddUser, CheckpointWal, ReconcileStep, ReadDesired, ListUsers, RemoveExtra,
     ReconcileRestart, ReconcileReady, ReconcileAdd, UpdateHealth
<1>9. ASSUME NEW p \in Profiles, Disable(p) \/ Delete(p) \/ Transports(p)
      PROVE  UNCHANGED dbVars
  BY <1>9, Zenon DEF Disable, Delete, Transports, Authorize, HysteriaSession, VlessSession
<1>10. CASE \/ Reconcile \/ PublishResult \/ LateRpc \/ LateRestart \/ XrayCrash
            \/ ControlCrash \/ UNCHANGED vars
  BY <1>10, Zenon DEF Reconcile, PublishResult, LateRpc, LateRestart, XrayCrash, ControlCrash,
     vars
<1> QED BY <1>1, <1>2, <1>3, <1>4, <1>5, <1>6, <1>7, <1>8, <1>9, <1>10, Zenon
        DEF Next, Step, Provision, Revoke, Administer

\* The control plane, with its threads, failures and crashes, implements the
\* profile lifecycle: no row ever moves outside the table of transitions, and
\* none is destroyed before it was switched off.
THEOREM ImplementsLifecycle == Spec => LifecycleSpec
<1>1. Init => Lifecycle!Init
  BY DEF Init, Lifecycle!Init
<1> QED BY <1>1, StepRefines, Invariance, PTL DEF Spec, LifecycleSpec, Lifecycle!Spec

\* Codes and dates stay consistent with the state of the row; this follows
\* from the lifecycle alone.
THEOREM RecordsAreConsistent == Spec => []RecordConsistent
<1> DEFINE DbTypes == /\ state \in [Profiles -> States]
                      /\ lastError \in [Profiles -> Codes]
                      /\ disabledAt \in [Profiles -> {"NULL", "set"}]
<1> USE DEF RecordConsistent
<1>1. Init => RecordConsistent
  BY DEF Init
<1>2. ASSUME TypeOK, RecordConsistent, [Lifecycle!Next]_(Lifecycle!vars)
      PROVE  RecordConsistent'
  <2>0. DbTypes
    BY <1>2 DEF TypeOK
  <2>1. ASSUME NEW p \in Profiles, Lifecycle!InsertPending(p) PROVE RecordConsistent'
    BY <1>2, <2>0, <2>1 DEF Lifecycle!InsertPending
  <2>2. ASSUME NEW p \in Profiles, NEW s, NEW c, Lifecycle!SetState(p, s, c)
        PROVE  RecordConsistent'
    BY <1>2, <2>0, <2>2 DEF Lifecycle!SetState
  <2>3. ASSUME NEW p \in Profiles, NEW c, Lifecycle!SetRuntimeError(p, c)
        PROVE  RecordConsistent'
    BY <1>2, <2>0, <2>3 DEF Lifecycle!SetRuntimeError
  <2>4. ASSUME NEW p \in Profiles, Lifecycle!DeleteLocal(p) PROVE RecordConsistent'
    BY <1>2, <2>0, <2>4 DEF Lifecycle!DeleteLocal
  <2>5. CASE UNCHANGED Lifecycle!vars
    BY <1>2, <2>5 DEF Lifecycle!vars
  <2>6. QED BY <1>2, <2>1, <2>2, <2>3, <2>4, <2>5, Zenon DEF Lifecycle!Next
<1> HIDE DEF RecordConsistent
<1> QED BY <1>1, <1>2, TypeCorrect, ImplementsLifecycle, PTL
        DEF Spec, LifecycleSpec, Lifecycle!Spec

-----------------------------------------------------------------------------
(* The other transport and the other profiles.  KInv adds to IInv what a   *)
(* thread may rely on while it holds the lock.                             *)

\* Between the kick and the verdict.
KickedPCs == {"remove", "restart", "ready", "list", "readd", "finish"}

\* p has no Hysteria session and no auth answer under way.
Silent(p) == p \notin hy /\ p \notin granted

\* A revoked profile without an answer in flight at the kick is silent; so is
\* the target of a revocation that has been complete so far.
HysteriaInv ==
    /\ \A p \in revoked \ straggler : Silent(p)
    /\ \A t \in Threads :
           frame[t].pc \in KickedPCs /\ ~frame[t].incomplete /\ frame[t].target \notin straggler =>
               Silent(frame[t].target)

\* What disable still has to add is what the active profiles lack.
RestoreInv ==
    \A t \in Threads :
        ~frame[t].incomplete /\ ~drift =>
            /\ frame[t].pc = "readd" => Active \subseteq users \cup frame[t].todo
            /\ frame[t].pc = "finish" => Active \subseteq users

\* What a reconciliation still has to add is exactly what Xray lacks.
ExactInv ==
    \A t \in Threads :
        ~drift =>
            /\ frame[t].pc = "r_ready" => users = {}
            /\ frame[t].pc = "r_add" => users \cup frame[t].todo = Active
            /\ frame[t].pc = "r_ok" => users = Active

KInv == HysteriaInv /\ RestoreInv /\ ExactInv

-----------------------------------------------------------------------------
(* KInv is inductive relative to IInv.                                     *)

\* create and enable touch neither Hysteria nor, from outside, what another
\* thread is about to add.
LEMMA ProvisionK ==
    ASSUME IInv, KInv, NEW t \in Threads, Provision(t)
    PROVE  KInv'
<1> USE IdleFrameType
        DEF IInv, TypeOK, LockInv, TargetInv, TodoInv, RevokedInv, KInv, HysteriaInv, RestoreInv,
            ExactInv, Silent, Active, Frame, PCs, ProvisionPCs, RevokePCs, ErasePCs, ReconcilePCs,
            CommittedPCs, KickedPCs, Rpcs, Rpc, Fault, dbVars, xrayVars, hyVars, ctlVars
<1>1. CASE AddUser(t)
  BY <1>1, SMTT(20) DEF AddUser, Applied, Confirmed, Raised
<1>2. CASE SetActive(t)
  BY <1>2, SMTT(20) DEF SetActive, SetState
<1>3. CASE BundleForRecord(t)
  BY <1>3, SMTT(20) DEF BundleForRecord, Return
<1>4. CASE UndoAdd(t)
  BY <1>4, SMTT(20) DEF UndoAdd, Applied, Confirmed, Raised
<1>5. CASE MarkError(t)
  BY <1>5, SMTT(20) DEF MarkError, SetState, SetRuntimeError
<1> QED BY <1>1, <1>2, <1>3, <1>4, <1>5 DEF Provision

\* The kick makes the target silent, or notes the answer that is under way;
\* every active profile is listed after the restart and added before the
\* verdict, or the revocation is incomplete.
LEMMA RevokeK ==
    ASSUME IInv, KInv, NEW t \in Threads, Revoke(t)
    PROVE  KInv'
<1> USE IdleFrameType
        DEF IInv, TypeOK, LockInv, TargetInv, TodoInv, RevokedInv, KInv, HysteriaInv, RestoreInv,
            ExactInv, Silent, Active, Frame, PCs, ProvisionPCs, RevokePCs, ErasePCs, ReconcilePCs,
            CommittedPCs, KickedPCs, Rpcs, Rpc, Fault, dbVars, xrayVars, hyVars, ctlVars
<1>1. CASE PrepareDisabled(t)
  BY <1>1, SMTT(20) DEF PrepareDisabled, SetState, Return, Raise
<1>2. CASE Kick(t)
  BY <1>2, SMTT(20) DEF Kick, Attempt
<1>3. CASE RemoveUser(t)
  BY <1>3, SMTT(20) DEF RemoveUser, Attempt, Applied, Confirmed, Raised
<1>4. CASE Restart(t)
  BY <1>4, SMTT(20) DEF Restart, Attempt, Wipe, RestartConfirmed, RestartRaised
<1>5. CASE WaitReady(t)
  BY <1>5, SMTT(20) DEF WaitReady, Attempt
<1>6. CASE ListActive(t)
  BY <1>6, SMTT(20) DEF ListActive, Return, Raise
<1>7. CASE ReAddUser(t)
  <2>1. CASE frame[t].todo = {} /\ Goto(t, "finish") /\ UNCHANGED <<users, pend, faults>>
    BY <1>7, <2>1, SMTT(20) DEF ReAddUser
  <2>2. ASSUME NEW q \in frame[t].todo, Confirmed(Rpc("add", q)), ReAdded(t, q, FALSE)
        PROVE  KInv'
    BY <1>7, <2>2, SMTT(20) DEF ReAddUser, ReAdded, Applied, Confirmed
  <2>3. ASSUME NEW q \in frame[t].todo, Raised(Rpc("add", q)), ReAdded(t, q, TRUE)
        PROVE  KInv'
    <3>1. frame'[t].incomplete /\ \A u \in Threads \ {t} : frame'[u].pc = "idle"
      BY <1>7, <2>3, SMTT(20) DEF ReAdded, ReAddUser
    <3>2. frame'[t].pc = "readd"
      BY <1>7, <2>3, SMTT(20) DEF ReAdded, ReAddUser
    <3>3. QED BY <1>7, <3>1, <3>2, SMTT(20) DEF ReAddUser
  <2>4. QED BY <1>7, <2>1, <2>2, <2>3 DEF ReAddUser
<1>8. CASE FinishDisable(t)
  BY <1>8, SMTT(20) DEF FinishDisable, SetRuntimeError, Return, Raise
<1>9. CASE DeleteLocal(t)
  BY <1>9, SMTT(20) DEF DeleteLocal
<1>10. CASE CheckpointWal(t)
  BY <1>10, SMTT(20) DEF CheckpointWal, Return
<1> QED BY <1>1, <1>2, <1>3, <1>4, <1>5, <1>6, <1>7, <1>8, <1>9, <1>10 DEF Revoke

\* What was listed or wiped and what is still to be added make up the active
\* profiles; a call that raises ends the reconciliation as failed.
LEMMA ReconcileStepK ==
    ASSUME IInv, KInv, NEW t \in Threads, ReconcileStep(t)
    PROVE  KInv'
<1> USE IdleFrameType
        DEF IInv, TypeOK, LockInv, TargetInv, TodoInv, RevokedInv, KInv, HysteriaInv, RestoreInv,
            ExactInv, Silent, Active, Frame, PCs, ProvisionPCs, RevokePCs, ErasePCs, ReconcilePCs,
            CommittedPCs, KickedPCs, Rpcs, Rpc, Fault, dbVars, xrayVars, hyVars, ctlVars
<1>1. CASE ReadDesired(t)
  BY <1>1, SMTT(20) DEF ReadDesired
<1>2. CASE ListUsers(t)
  BY <1>2, SMTT(20) DEF ListUsers, ToAdd
<1>3. CASE RemoveExtra(t)
  BY <1>3, SMTT(20) DEF RemoveExtra, Applied, Confirmed, Raised
<1>4. CASE ReconcileRestart(t)
  BY <1>4, SMTT(20) DEF ReconcileRestart, Wipe, RestartConfirmed, RestartRaised
<1>5. CASE ReconcileReady(t)
  BY <1>5, SMTT(20) DEF ReconcileReady
<1>6. CASE ReconcileAdd(t)
  BY <1>6, SMTT(20) DEF ReconcileAdd, Applied, Confirmed, Raised
<1>7. CASE UpdateHealth(t)
  BY <1>7, SMTT(20) DEF UpdateHealth, Return
<1> QED BY <1>1, <1>2, <1>3, <1>4, <1>5, <1>6, <1>7 DEF ReconcileStep

\* A request finds nobody inside; enabling gives up the revocation.
LEMMA AdministerK ==
    ASSUME IInv, KInv, NEW p \in Profiles, Administer(p)
    PROVE  KInv'
<1>1. \A u \in Threads : frame'[u].pc \in {"idle", "add", "prepare"}
  <2> USE DEF Ops, PCs, ProvisionPCs, RevokePCs, IInv, LockInv, Entered
  <2>1. CASE \E name \in Ops, first \in {"add", "prepare"} : Request(name, p, first)
    BY <2>1, BeginEffect DEF Request
  <2>2. CASE LockFree /\ UNCHANGED frame
    BY <2>2 DEF LockFree
  <2>3. QED BY <2>1, <2>2 DEF Administer, Create, Enable, Disable, Delete
<1>2. \A q \in revoked' \ straggler' : q \in revoked \ straggler
  BY Zenon DEF Administer, Create, Enable, Disable, Delete
<1>3. UNCHANGED <<granted, hy>>
  BY Zenon DEF Administer, Create, Enable, Disable, Delete, hyVars
<1> QED BY <1>1, <1>2, <1>3, SMTT(20)
        DEF KInv, HysteriaInv, RestoreInv, ExactInv, Silent, KickedPCs

\* Only an ACTIVE profile is authorized, and neither a revoked one nor the
\* target of a revocation is ACTIVE.
LEMMA TransportsK ==
    ASSUME IInv, KInv, NEW p \in Profiles, Transports(p)
    PROVE  KInv'
<1> USE DEF IInv, TypeOK, LockInv, TargetInv, RevokedInv, KInv, HysteriaInv, RestoreInv, ExactInv,
            Silent, Active, CommittedPCs, KickedPCs, dbVars, xrayVars, hyVars, ctlVars
<1>1. CASE Authorize(p)
  BY <1>1, SMTT(20) DEF Authorize, AuthAccepted
<1>2. CASE HysteriaSession(p)
  BY <1>2, SMTT(20) DEF HysteriaSession
<1>3. CASE VlessSession(p)
  BY <1>3, SMTT(20) DEF VlessSession
<1> QED BY <1>1, <1>2, <1>3 DEF Transports

\* Whatever disturbs Xray behind the coordinator's back is noted as drift; a
\* crash empties both threads.
LEMMA EnvironmentK ==
    ASSUME IInv, KInv,
           \/ Reconcile \/ PublishResult \/ LateRpc \/ LateRestart \/ XrayCrash \/ ControlCrash
           \/ UNCHANGED vars
    PROVE  KInv'
<1> USE IdleFrameType
        DEF KInv, HysteriaInv, RestoreInv, ExactInv, Silent, Active, KickedPCs,
            dbVars, xrayVars, hyVars, ctlVars, Fault
<1>1. CASE Reconcile
  <2>1. Entered("worker", "reconcile", NoProfile, "r_begin")
    BY <1>1, BeginEffect DEF Reconcile, IInv, Ops, PCs, ReconcilePCs
  <2>2. QED BY <1>1, <2>1, SMTT(20) DEF Reconcile, Entered
<1>2. CASE PublishResult
  BY <1>2, SMTT(20) DEF PublishResult
<1>3. CASE LateRpc \/ LateRestart \/ XrayCrash
  <2>1. drift' = TRUE /\ UNCHANGED <<frame, hyVars, revoked, straggler>>
    BY <1>3, Zenon DEF LateRpc, LateRestart, XrayCrash
  <2>2. QED BY <2>1, SMTT(20)
<1>4. CASE ControlCrash
  BY <1>4, SMTT(20) DEF ControlCrash
<1>5. CASE UNCHANGED vars
  BY <1>5, SMTT(20) DEF vars
<1> QED BY <1>1, <1>2, <1>3, <1>4, <1>5

\* KInv is inductive relative to IInv.
LEMMA NextK == IInv /\ KInv /\ [Next]_vars => KInv'
BY ProvisionK, RevokeK, ReconcileStepK, AdministerK, TransportsK, EnvironmentK, Zenon
   DEF Next, Step

\* Both invariants hold of the control plane.
LEMMA KInvariance == Spec => []KInv
<1>1. Init => KInv
  BY IdleFrameType, SMTT(20) DEF Init, KInv, HysteriaInv, RestoreInv, ExactInv, Silent, KickedPCs
<1> QED BY <1>1, NextK, Invariance, PTL DEF Spec

\* A successful disable or delete ends the profile's Hysteria sessions and
\* admits no new one until it is enabled again, except through an auth answer
\* that was already on its way when the kick was executed.
THEOREM HysteriaRevocationIsSound == Spec => []HysteriaRevocationSound
<1>1. KInv => HysteriaRevocationSound
  BY DEF KInv, HysteriaInv, Silent, HysteriaRevocationSound
<1> QED BY <1>1, KInvariance, PTL

\* A disable about to report success has given every other active profile its
\* account back, unless Xray was disturbed after the restart.
THEOREM OthersAreRestored == Spec => []DisableRestoresOthers
<1>1. KInv => DisableRestoresOthers
  BY DEF KInv, RestoreInv, DisableRestoresOthers
<1> QED BY <1>1, KInvariance, PTL

\* A reconciliation that ends without error leaves exactly the accounts of the
\* active profiles in Xray, unless Xray was disturbed after they were listed.
THEOREM ReconciliationIsExact == Spec => []ReconcileExact
<1>1. KInv => ReconcileExact
  BY DEF KInv, ExactInv, ReconcileExact
<1> QED BY <1>1, KInvariance, PTL
=============================================================================
