--------------------------- MODULE ProfileControl ---------------------------
(***************************************************************************)
(* The profile control plane of EzOpenPN: ProfileCoordinator,              *)
(* ProfileRepository and RuntimeReconciler in control/src/ezopenpn/        *)
(* profiles, the application's reconciliation task (web/app.py) and the    *)
(* Hysteria auth endpoint, with the runtimes they drive.                   *)
(*                                                                         *)
(* One step is one database transaction or one remote call.  Two threads   *)
(* run the coordinator: the event loop, which executes the administrator's *)
(* POST handlers, and the worker thread of asyncio.to_thread, which        *)
(* executes the startup and periodic reconciliation.  A remote call may    *)
(* fail with or without having had its effect, or take effect after the    *)
(* caller has given up; Xray and the control process may crash anywhere.   *)
(***************************************************************************)
EXTENDS Naturals

CONSTANTS Profiles,     \* identifiers a profile can get
          NoProfile,    \* the target of a thread with no profile at hand
          Clients,      \* profiles whose owners open transport sessions
          FaultKinds,   \* the kinds of failure that may happen
          MaxFaults,    \* bound: failures in a behaviour
          MaxOps        \* bound: administrator operations in a behaviour

AllFaultKinds == {"rpc", "late", "kick", "restart", "db", "links", "xray", "crash"}

ASSUME ProfilesAssumption == NoProfile \notin Profiles /\ Clients \subseteq Profiles
ASSUME BoundsAssumption ==
    MaxFaults \in Nat /\ MaxOps \in Nat /\ FaultKinds \subseteq AllFaultKinds

VARIABLES
    \* SQLite, the durable source of truth
    state, lastError, disabledAt,
    \* Xray: the inbound's accounts, profiles with an open VLESS session,
    \* mutations still queued in the server after the caller timed out, and
    \* whether the supervisor still owes a restart nobody waits for
    users, vless, pend, restartDue,
    \* Hysteria: profiles whose auth was answered ok but whose session is
    \* not registered yet, and profiles with a registered session
    granted, hy,
    \* the control process: the coordinator's RLock, the two threads, whether
    \* the application serves requests, RuntimeHealth.ready, and the result
    \* the reconciliation task has not published yet
    lock, frame, phase, ready, late,
    \* history: profiles whose revocation was reported successful; those
    \* that had an auth answer in flight when they were kicked; whether Xray
    \* was disturbed since the last restart or listing; the result of the
    \* last reconciliation finished by this process
    revoked, straggler, drift, lastReconcile,
    \* bounds
    ops, faults

dbVars   == <<state, lastError, disabledAt>>
xrayVars == <<users, vless, pend, restartDue>>
hyVars   == <<granted, hy>>
ctlVars  == <<phase, ready, late, lastReconcile>>
vars == <<dbVars, xrayVars, hyVars, lock, frame, ctlVars,
          revoked, straggler, drift, ops, faults>>

Lifecycle == INSTANCE ProfileLifecycle

-----------------------------------------------------------------------------
(* Types.                                                                  *)

RowStates == {"PENDING", "ACTIVE", "DISABLED", "ERROR"}
States == RowStates \cup {"unborn", "deleted"}

AddFailed == "xray_add_failed"
RevokeIncomplete == "runtime_revoke_incomplete"
MaterialInvalid == "profile_material_invalid"
Codes == {"none", AddFailed, RevokeIncomplete, MaterialInvalid}

Threads == {"loop", "worker"}
Ops == {"none", "create", "enable", "disable", "delete", "reconcile"}
Rpcs == [op : {"add", "remove"}, p : Profiles]
Results == {"none", "ok", "failed"}

\* Where a thread is: the call it makes next.
ProvisionPCs == {"add", "activate", "bundle", "undo"}
RevokePCs == {"prepare", "kick", "remove", "restart", "ready", "list", "readd", "finish"}
ErasePCs == {"erase", "checkpoint"}
ReconcilePCs == {"r_begin", "r_users", "r_remove", "r_restart", "r_ready", "r_add",
                 "r_ok", "r_failed"}
PCs == {"idle", "mark"} \cup ProvisionPCs \cup RevokePCs \cup ErasePCs \cup ReconcilePCs

Frame == [op : Ops, pc : PCs, target : Profiles \cup {NoProfile},
          todo : SUBSET Profiles,      \* accounts still to be added
          extra : SUBSET Profiles,     \* accounts still to be removed
          incomplete : BOOLEAN]        \* disable's flag of the same name

IdleFrame == [op |-> "none", pc |-> "idle", target |-> NoProfile,
              todo |-> {}, extra |-> {}, incomplete |-> FALSE]

Active == {p \in Profiles : state[p] = "ACTIVE"}

TypeOK ==
    /\ state \in [Profiles -> States]
    /\ lastError \in [Profiles -> Codes]
    /\ disabledAt \in [Profiles -> {"NULL", "set"}]
    /\ users \subseteq Profiles /\ vless \subseteq Profiles
    /\ pend \subseteq Rpcs /\ restartDue \in BOOLEAN
    /\ granted \subseteq Profiles /\ hy \subseteq Profiles
    /\ lock \in Threads \cup {"free"}
    /\ frame \in [Threads -> Frame]
    /\ phase \in {"starting", "serving"} /\ ready \in BOOLEAN
    /\ late \in Results /\ lastReconcile \in Results
    /\ revoked \subseteq Profiles /\ straggler \subseteq Profiles
    /\ drift \in BOOLEAN
    /\ ops \in 0..MaxOps /\ faults \in 0..MaxFaults

Init ==
    /\ state = [p \in Profiles |-> "unborn"]
    /\ lastError = [p \in Profiles |-> "none"]
    /\ disabledAt = [p \in Profiles |-> "NULL"]
    /\ users = {} /\ vless = {} /\ pend = {} /\ restartDue = FALSE
    /\ granted = {} /\ hy = {}
    /\ lock = "free" /\ frame = [t \in Threads |-> IdleFrame]
    /\ phase = "starting" /\ ready = FALSE /\ late = "none" /\ lastReconcile = "none"
    /\ revoked = {} /\ straggler = {} /\ drift = FALSE
    /\ ops = 0 /\ faults = 0

-----------------------------------------------------------------------------
(* Threads.                                                                *)

At(t, here) == frame[t].pc = here
Goto(t, there) == frame' = [frame EXCEPT ![t].pc = there]

\* Mutant: the operations are not serialized.
LockFreeMutant == TRUE

\* with self._lock: the RLock is free (a nested call keeps it, so only the
\* outermost call acquires it).
LockFree == lock = "free"
Acquire(t) == LockFree /\ lock' = t
Return(t) == lock' = "free" /\ frame' = [frame EXCEPT ![t] = IdleFrame]

Begin(t, name, p, first) ==
    /\ Acquire(t)
    /\ frame' = [frame EXCEPT ![t] = [IdleFrame EXCEPT !.op = name, !.pc = first,
                                                       !.target = p]]

Fault(kind) ==
    /\ kind \in FaultKinds
    /\ faults < MaxFaults
    /\ faults' = faults + 1

\* An exception other than ProfileRevocationFailed or ProfileNotFound leaves
\* disable(): the request fails with it, or delete() records it.
Raise(t) ==
    \/ frame[t].op = "disable" /\ Return(t)
    \/ frame[t].op = "delete" /\ Goto(t, "mark") /\ UNCHANGED lock

-----------------------------------------------------------------------------
(* ProfileRepository: each operator is one committed transaction.          *)

LegalTransitions == [s \in RowStates |->
    CASE s = "PENDING"  -> {"ACTIVE", "ERROR"}
      [] s = "ERROR"    -> {"PENDING", "DISABLED"}
      [] s = "ACTIVE"   -> {"DISABLED", "ERROR"}
      [] s = "DISABLED" -> {"ACTIVE", "ERROR"}]

Legal(p, s) == state[p] \in RowStates /\ (s = state[p] \/ s \in LegalTransitions[state[p]])

\* Mutant: an error code outlives the error.
SetStateMutant(p, s, code) ==
    /\ Legal(p, s)
    /\ state' = [state EXCEPT ![p] = s]
    /\ lastError' = [lastError EXCEPT ![p] = IF s = "ERROR" THEN code ELSE @]
    /\ disabledAt' = [disabledAt EXCEPT ![p] = IF s = "DISABLED" THEN "set" ELSE "NULL"]

SetState(p, s, code) ==
    /\ Legal(p, s)
    /\ state' = [state EXCEPT ![p] = s]
    /\ lastError' = [lastError EXCEPT ![p] = IF s = "ERROR" THEN code ELSE "none"]
    /\ disabledAt' = [disabledAt EXCEPT ![p] = IF s = "DISABLED" THEN "set" ELSE "NULL"]

SetRuntimeError(p, code) ==
    /\ state[p] \in RowStates
    /\ lastError' = [lastError EXCEPT ![p] = code]
    /\ UNCHANGED <<state, disabledAt>>

-----------------------------------------------------------------------------
(* Xray's HandlerService as GrpcXrayClient sees it.                        *)

Rpc(name, p) == [op |-> name, p |-> p]
Applied(m) == IF m.op = "add" THEN users \cup {m.p} ELSE users \ {m.p}

Confirmed(m) == users' = Applied(m) /\ UNCHANGED <<pend, faults>>

\* The call raised.  Adding a present account or removing an absent one may be
\* rejected; an unavailable server may or may not have applied the mutation,
\* or may apply it after the 3 s deadline.
Raised(m) ==
    \/ Applied(m) = users /\ UNCHANGED <<users, pend, faults>>
    \/ Fault("rpc") /\ users' \in {users, Applied(m)} /\ UNCHANGED pend
    \/ Fault("late") /\ pend' = pend \cup {m} /\ UNCHANGED users

\* The Xray process is replaced: its configuration has no accounts, and the
\* sessions and requests of the old process end with it.
Wipe == users' = {} /\ vless' = {} /\ pend' = {}

\* POST /restart answered 202.  The supervisor handles restarts one at a time,
\* so one still owed from an abandoned request is over as well.
RestartConfirmed == Wipe /\ restartDue' = FALSE /\ drift' = FALSE /\ UNCHANGED faults

\* Refused, or abandoned after 4 s with the supervisor still at it.
RestartRaised ==
    /\ Fault("restart")
    /\ UNCHANGED restartDue \/ restartDue' = TRUE
    /\ UNCHANGED <<users, vless, pend, drift>>

-----------------------------------------------------------------------------
(* create and enable.                                                      *)

Request(name, p, first) ==
    /\ phase = "serving"
    /\ ops < MaxOps /\ ops' = ops + 1
    /\ Begin("loop", name, p, first)

\* ProfileService.create commits a PENDING row under a fresh uuid.  Reading it
\* back may fail before the try block: the row stays PENDING.
Create(p) ==
    /\ state[p] = "unborn"
    /\ \/ Request("create", p, "add") /\ UNCHANGED faults
       \/ /\ phase = "serving" /\ LockFree /\ ops < MaxOps /\ ops' = ops + 1
          /\ Fault("db") /\ UNCHANGED <<lock, frame>>
    /\ state' = [state EXCEPT ![p] = "PENDING"]
    /\ UNCHANGED <<lastError, disabledAt, xrayVars, hyVars, ctlVars,
                   revoked, straggler, drift>>

\* Only PENDING, ERROR and DISABLED profiles can be enabled; ERROR is moved
\* to PENDING first.
Enable(p) ==
    /\ state[p] \in {"PENDING", "ERROR", "DISABLED"}
    /\ Request("enable", p, "add")
    /\ IF state[p] = "ERROR" THEN SetState(p, "PENDING", "none") ELSE UNCHANGED dbVars
    /\ revoked' = revoked \ {p} /\ straggler' = straggler \ {p}
    /\ UNCHANGED <<xrayVars, hyVars, ctlVars, drift, faults>>

AddUser(t) ==
    /\ At(t, "add")
    /\ LET m == Rpc("add", frame[t].target) IN
           \/ Confirmed(m) /\ Goto(t, "activate")
           \/ Raised(m) /\ Goto(t, "undo")
    /\ UNCHANGED <<dbVars, vless, restartDue, hyVars, lock, ctlVars,
                   revoked, straggler, drift, ops>>

SetActive(t) ==
    /\ At(t, "activate")
    /\ \/ SetState(frame[t].target, "ACTIVE", "none") /\ Goto(t, "bundle") /\ UNCHANGED faults
       \/ Fault("db") /\ Goto(t, "undo") /\ UNCHANGED dbVars
    /\ UNCHANGED <<xrayVars, hyVars, lock, ctlVars, revoked, straggler, drift, ops>>

\* The links are built last; the request succeeds.
BundleForRecord(t) ==
    /\ At(t, "bundle")
    /\ \/ Return(t) /\ UNCHANGED faults
       \/ Fault("links") /\ Goto(t, "undo") /\ UNCHANGED lock
    /\ UNCHANGED <<dbVars, xrayVars, hyVars, ctlVars, revoked, straggler, drift, ops>>

\* with suppress(Exception): self._xray.remove_user(...)
UndoAdd(t) ==
    /\ At(t, "undo")
    /\ LET m == Rpc("remove", frame[t].target) IN Confirmed(m) \/ Raised(m)
    /\ Goto(t, "mark")
    /\ UNCHANGED <<dbVars, vless, restartDue, hyVars, lock, ctlVars,
                   revoked, straggler, drift, ops>>

\* Mutant: the exception's own text is recorded.
ErrorCodeMutant(t) == "private upstream detail"

\* The fixed code of the operation's except clause.
ErrorCode(t) == IF frame[t].op = "delete" THEN MaterialInvalid ELSE AddFailed

\* _mark_error: a DISABLED profile keeps its state; every exception, that of
\* a row already deleted included, is swallowed.
MarkError(t) ==
    /\ At(t, "mark")
    /\ LET p == frame[t].target
           code == ErrorCode(t)
       IN \/ state[p] = "DISABLED" /\ SetRuntimeError(p, code) /\ UNCHANGED faults
          \/ state[p] # "DISABLED" /\ SetState(p, "ERROR", code) /\ UNCHANGED faults
          \/ state[p] = "deleted" /\ UNCHANGED <<dbVars, faults>>
          \/ Fault("db") /\ UNCHANGED dbVars
    /\ Goto(t, "r_begin")
    /\ UNCHANGED <<xrayVars, hyVars, lock, ctlVars, revoked, straggler, drift, ops>>

-----------------------------------------------------------------------------
(* disable and delete.                                                     *)

Disable(p) ==
    /\ state[p] \in RowStates
    /\ Request("disable", p, "prepare")
    /\ UNCHANGED <<dbVars, xrayVars, hyVars, ctlVars, revoked, straggler, drift, faults>>

\* Mutant: the material is destroyed without revoking access first.
DeleteMutant(p) ==
    /\ state[p] \in RowStates
    /\ Request("delete", p, "erase")
    /\ UNCHANGED <<dbVars, xrayVars, hyVars, ctlVars, revoked, straggler, drift, faults>>

Delete(p) ==
    /\ state[p] \in RowStates
    /\ Request("delete", p, "prepare")
    /\ UNCHANGED <<dbVars, xrayVars, hyVars, ctlVars, revoked, straggler, drift, faults>>

\* A PENDING profile goes through ERROR, in a transaction of its own.
PrepareDisabled(t) ==
    /\ At(t, "prepare")
    /\ LET p == frame[t].target IN
           \/ /\ state[p] = "PENDING" /\ SetState(p, "ERROR", "none")
              /\ UNCHANGED <<lock, frame, faults>>
           \/ /\ state[p] # "PENDING" /\ SetState(p, "DISABLED", "none")
              /\ Goto(t, "kick") /\ UNCHANGED <<lock, faults>>
           \/ Fault("db") /\ Raise(t) /\ UNCHANGED dbVars
    /\ UNCHANGED <<xrayVars, hyVars, ctlVars, revoked, straggler, drift, ops>>

\* Mutant: a later phase that succeeds hides an earlier failure.
AttemptMutant(t, raised, there) ==
    frame' = [frame EXCEPT ![t].pc = there, ![t].incomplete = raised]

\* The next phase is attempted whether or not this one raised.
Attempt(t, raised, there) ==
    frame' = [frame EXCEPT ![t].pc = there, ![t].incomplete = @ \/ raised]

Kick(t) ==
    /\ At(t, "kick")
    /\ LET p == frame[t].target IN
           \/ /\ hy' = hy \ {p} /\ Attempt(t, FALSE, "remove") /\ UNCHANGED faults
              /\ straggler' = (straggler \ {p}) \cup (granted \cap {p})
           \/ /\ Fault("kick") /\ hy' \in {hy, hy \ {p}} /\ Attempt(t, TRUE, "remove")
              /\ UNCHANGED straggler
    /\ UNCHANGED <<dbVars, xrayVars, granted, lock, ctlVars, revoked, drift, ops>>

RemoveUser(t) ==
    /\ At(t, "remove")
    /\ LET m == Rpc("remove", frame[t].target) IN
           \/ Confirmed(m) /\ Attempt(t, FALSE, "restart")
           \/ Raised(m) /\ Attempt(t, TRUE, "restart")
    /\ UNCHANGED <<dbVars, vless, restartDue, hyVars, lock, ctlVars,
                   revoked, straggler, drift, ops>>

Restart(t) ==
    /\ At(t, "restart")
    /\ \/ RestartConfirmed /\ Attempt(t, FALSE, "ready")
       \/ RestartRaised /\ Attempt(t, TRUE, "ready")
    /\ UNCHANGED <<dbVars, hyVars, lock, ctlVars, revoked, straggler, ops>>

WaitReady(t) ==
    /\ At(t, "ready")
    /\ \/ Attempt(t, FALSE, "list") /\ UNCHANGED faults
       \/ Fault("rpc") /\ Attempt(t, TRUE, "list")
    /\ UNCHANGED <<dbVars, xrayVars, hyVars, lock, ctlVars, revoked, straggler, drift, ops>>

\* repository.list() is read outside every try: its failure leaves disable().
ListActive(t) ==
    /\ At(t, "list")
    /\ \/ /\ frame' = [frame EXCEPT ![t].pc = "readd", ![t].todo = Active]
          /\ UNCHANGED <<lock, faults>>
       \/ Fault("db") /\ Raise(t)
    /\ UNCHANGED <<dbVars, xrayVars, hyVars, ctlVars, revoked, straggler, drift, ops>>

\* Mutant: a profile that could not be re-added is forgotten.
ReAddedMutant(t, q, raised) == frame' = [frame EXCEPT ![t].todo = @ \ {q}]

ReAdded(t, q, raised) ==
    frame' = [frame EXCEPT ![t].todo = @ \ {q}, ![t].incomplete = @ \/ raised]

ReAddUser(t) ==
    /\ At(t, "readd")
    /\ \/ /\ frame[t].todo = {} /\ Goto(t, "finish")
          /\ UNCHANGED <<users, pend, faults>>
       \/ \E q \in frame[t].todo :
              \/ Confirmed(Rpc("add", q)) /\ ReAdded(t, q, FALSE)
              \/ Raised(Rpc("add", q)) /\ ReAdded(t, q, TRUE)
    /\ UNCHANGED <<dbVars, vless, restartDue, hyVars, lock, ctlVars,
                   revoked, straggler, drift, ops>>

\* The verdict.  An incomplete revocation is recorded, reconciled and raised as
\* ProfileRevocationFailed; a complete one is the success of disable() and lets
\* delete() go on.
FinishDisable(t) ==
    /\ At(t, "finish")
    /\ LET p == frame[t].target IN
           \/ /\ frame[t].incomplete /\ SetRuntimeError(p, RevokeIncomplete)
              /\ Goto(t, "r_begin") /\ UNCHANGED <<lock, revoked, faults>>
           \/ /\ ~frame[t].incomplete /\ revoked' = revoked \cup {p}
              /\ IF frame[t].op = "delete" THEN Goto(t, "erase") /\ UNCHANGED lock
                                           ELSE Return(t)
              /\ UNCHANGED <<dbVars, faults>>
           \/ Fault("db") /\ Raise(t) /\ UNCHANGED <<dbVars, revoked>>
    /\ UNCHANGED <<xrayVars, hyVars, ctlVars, straggler, drift, ops>>

DeleteLocal(t) ==
    /\ At(t, "erase")
    /\ LET p == frame[t].target IN
           \/ /\ state[p] \in RowStates
              /\ state' = [state EXCEPT ![p] = "deleted"]
              /\ lastError' = [lastError EXCEPT ![p] = "none"]
              /\ disabledAt' = [disabledAt EXCEPT ![p] = "NULL"]
              /\ Goto(t, "checkpoint") /\ UNCHANGED faults
           \/ Fault("db") /\ Goto(t, "mark") /\ UNCHANGED dbVars
    /\ UNCHANGED <<xrayVars, hyVars, lock, ctlVars, revoked, straggler, drift, ops>>

CheckpointWal(t) ==
    /\ At(t, "checkpoint")
    /\ \/ Return(t) /\ UNCHANGED faults
       \/ Fault("db") /\ Goto(t, "mark") /\ UNCHANGED lock
    /\ UNCHANGED <<dbVars, xrayVars, hyVars, ctlVars, revoked, straggler, drift, ops>>

-----------------------------------------------------------------------------
(* RuntimeReconciler.run, entered by the reconciliation task or, with the  *)
(* lock already held, after an error; any exception ends it in "r_failed". *)

\* _reconcile_runtime: the startup call and the 60 s task of the application.
\* The task awaits its own result before it sleeps again.
Reconcile ==
    /\ late = "none" /\ At("worker", "idle")
    /\ Begin("worker", "reconcile", NoProfile, "r_begin")
    /\ UNCHANGED <<dbVars, xrayVars, hyVars, ctlVars, revoked, straggler, drift, ops, faults>>

\* The ACTIVE rows and their decrypted ids.
ReadDesired(t) ==
    /\ At(t, "r_begin")
    /\ \/ /\ frame' = [frame EXCEPT ![t].pc = "r_users", ![t].todo = Active]
          /\ UNCHANGED faults
       \/ Fault("db") /\ Goto(t, "r_failed")
    /\ UNCHANGED <<dbVars, xrayVars, hyVars, lock, ctlVars, revoked, straggler, drift, ops>>

\* Mutant: accounts are only added after a restart.
ToAddMutant(desired, current) ==
    IF current \subseteq desired THEN {} ELSE desired

\* After a restart every desired account is added, otherwise the missing ones.
ToAdd(desired, current) ==
    IF current \subseteq desired THEN desired \ current ELSE desired

ListUsers(t) ==
    /\ At(t, "r_users")
    /\ \/ /\ \E next \in {"r_add", "r_remove"} :
                 /\ (next = "r_add") <=> (users \subseteq frame[t].todo)
                 /\ frame' = [frame EXCEPT ![t].pc = next,
                                           ![t].extra = users \ frame[t].todo,
                                           ![t].todo = ToAdd(frame[t].todo, users)]
          /\ drift' = FALSE /\ UNCHANGED faults
       \/ Fault("rpc") /\ Goto(t, "r_failed") /\ UNCHANGED drift
    /\ UNCHANGED <<dbVars, xrayVars, hyVars, lock, ctlVars, revoked, straggler, ops>>

RemoveExtra(t) ==
    /\ At(t, "r_remove")
    /\ \/ /\ frame[t].extra = {} /\ Goto(t, "r_restart")
          /\ UNCHANGED <<users, pend, faults>>
       \/ \E q \in frame[t].extra :
              \/ /\ Confirmed(Rpc("remove", q))
                 /\ frame' = [frame EXCEPT ![t].extra = @ \ {q}]
              \/ Raised(Rpc("remove", q)) /\ Goto(t, "r_failed")
    /\ UNCHANGED <<dbVars, vless, restartDue, hyVars, lock, ctlVars,
                   revoked, straggler, drift, ops>>

ReconcileRestart(t) ==
    /\ At(t, "r_restart")
    /\ \/ RestartConfirmed /\ Goto(t, "r_ready")
       \/ RestartRaised /\ Goto(t, "r_failed")
    /\ UNCHANGED <<dbVars, hyVars, lock, ctlVars, revoked, straggler, ops>>

ReconcileReady(t) ==
    /\ At(t, "r_ready")
    /\ \/ Goto(t, "r_add") /\ UNCHANGED faults
       \/ Fault("rpc") /\ Goto(t, "r_failed")
    /\ UNCHANGED <<dbVars, xrayVars, hyVars, lock, ctlVars, revoked, straggler, drift, ops>>

ReconcileAdd(t) ==
    /\ At(t, "r_add")
    /\ \/ /\ frame[t].todo = {} /\ Goto(t, "r_ok")
          /\ UNCHANGED <<users, pend, faults>>
       \/ \E q \in frame[t].todo :
              \/ /\ Confirmed(Rpc("add", q))
                 /\ frame' = [frame EXCEPT ![t].todo = @ \ {q}]
              \/ Raised(Rpc("add", q)) /\ Goto(t, "r_failed")
    /\ UNCHANGED <<dbVars, vless, restartDue, hyVars, lock, ctlVars,
                   revoked, straggler, drift, ops>>

\* runtime_health.update(result), then the lock is released.  The result of a
\* reconciliation run by the task travels back to the event loop.
UpdateHealth(t) ==
    /\ frame[t].pc \in {"r_ok", "r_failed"}
    /\ LET result == IF At(t, "r_ok") THEN "ok" ELSE "failed" IN
           /\ ready' = (result = "ok")
           /\ lastReconcile' = result
           /\ late' = IF frame[t].op = "reconcile" THEN result ELSE late
    /\ Return(t)
    /\ UNCHANGED <<dbVars, xrayVars, hyVars, phase, revoked, straggler, drift, ops, faults>>

\* The task resumes on the event loop, outside the coordinator's lock, and
\* stores the result once more; after the first one requests are served.
PublishResult ==
    /\ late # "none" /\ At("loop", "idle")
    /\ ready' = (late = "ok") /\ late' = "none" /\ phase' = "serving"
    /\ UNCHANGED <<dbVars, xrayVars, hyVars, lock, frame, lastReconcile,
                   revoked, straggler, drift, ops, faults>>

-----------------------------------------------------------------------------
(* The transports and their clients.                                       *)

\* Mutant: any stored secret is accepted.
AuthAcceptedMutant(p) == state[p] \in RowStates

AuthAccepted(p) == state[p] = "ACTIVE"

\* POST /internal/hysteria/auth runs on the event loop, between requests.
Authorize(p) ==
    /\ phase = "serving" /\ At("loop", "idle")
    /\ p \in Clients /\ AuthAccepted(p)
    /\ granted' = granted \cup {p}
    /\ UNCHANGED <<dbVars, xrayVars, hy, lock, frame, ctlVars,
                   revoked, straggler, drift, ops, faults>>

HysteriaSession(p) ==
    /\ \/ p \in granted /\ granted' = granted \ {p} /\ hy' = hy \cup {p}
       \/ p \in hy /\ hy' = hy \ {p} /\ UNCHANGED granted
    /\ UNCHANGED <<dbVars, xrayVars, lock, frame, ctlVars,
                   revoked, straggler, drift, ops, faults>>

VlessSession(p) ==
    /\ \/ p \in Clients \cap users /\ vless' = vless \cup {p}
       \/ p \in vless /\ vless' = vless \ {p}
    /\ UNCHANGED <<dbVars, users, pend, restartDue, hyVars, lock, frame, ctlVars,
                   revoked, straggler, drift, ops, faults>>

\* A mutation whose caller timed out is applied, or dropped, at last.
LateRpc ==
    /\ \E m \in pend : pend' = pend \ {m} /\ users' \in {users, Applied(m)}
    /\ drift' = TRUE
    /\ UNCHANGED <<dbVars, vless, restartDue, hyVars, lock, frame, ctlVars,
                   revoked, straggler, ops, faults>>

\* The supervisor completes a restart its client no longer waits for.
LateRestart ==
    /\ restartDue /\ restartDue' = FALSE
    /\ Wipe /\ drift' = TRUE
    /\ UNCHANGED <<dbVars, hyVars, lock, frame, ctlVars, revoked, straggler, ops, faults>>

\* Xray exits and its supervisor starts it again.
XrayCrash ==
    /\ Fault("xray")
    /\ Wipe /\ drift' = TRUE
    /\ UNCHANGED <<dbVars, restartDue, hyVars, lock, frame, ctlVars, revoked, straggler, ops>>

\* The control container dies and is started again: the threads, the lock and
\* the health record are lost, the database and the runtimes are not.
ControlCrash ==
    /\ Fault("crash")
    /\ lock' = "free" /\ frame' = [t \in Threads |-> IdleFrame]
    /\ phase' = "starting" /\ ready' = FALSE /\ late' = "none" /\ lastReconcile' = "none"
    /\ UNCHANGED <<dbVars, xrayVars, hyVars, revoked, straggler, drift, ops>>

-----------------------------------------------------------------------------
(* The specification.                                                      *)

Provision(t) == AddUser(t) \/ SetActive(t) \/ BundleForRecord(t) \/ UndoAdd(t) \/ MarkError(t)

Revoke(t) ==
    \/ PrepareDisabled(t) \/ Kick(t) \/ RemoveUser(t) \/ Restart(t) \/ WaitReady(t)
    \/ ListActive(t) \/ ReAddUser(t) \/ FinishDisable(t) \/ DeleteLocal(t) \/ CheckpointWal(t)

ReconcileStep(t) ==
    \/ ReadDesired(t) \/ ListUsers(t) \/ RemoveExtra(t) \/ ReconcileRestart(t)
    \/ ReconcileReady(t) \/ ReconcileAdd(t) \/ UpdateHealth(t)

Step(t) == Provision(t) \/ Revoke(t) \/ ReconcileStep(t)

Administer(p) == Create(p) \/ Enable(p) \/ Disable(p) \/ Delete(p)

Transports(p) == Authorize(p) \/ HysteriaSession(p) \/ VlessSession(p)

Next ==
    \/ \E t \in Threads : Step(t)
    \/ \E p \in Profiles : Administer(p) \/ Transports(p)
    \/ Reconcile \/ PublishResult
    \/ LateRpc \/ LateRestart \/ XrayCrash \/ ControlCrash

Spec == Init /\ [][Next]_vars

\* A thread that holds the lock keeps running (every remote call has a
\* deadline), the application's task keeps reconciling, and the event loop
\* keeps running its callbacks.  Nothing is assumed of clients, of late
\* replies or of failures.
Fairness ==
    /\ \A t \in Threads : WF_vars(Step(t))
    /\ WF_vars(Reconcile) /\ WF_vars(PublishResult)

FairSpec == Spec /\ Fairness

-----------------------------------------------------------------------------
(* Properties.                                                             *)

\* A revocation reported successful is final on Xray until the profile is
\* enabled again: no account, no open VLESS session, no queued request that
\* would bring the account back (disable: remove, restart, re-add the others).
RevocationSound ==
    \A p \in revoked :
        p \notin users /\ p \notin vless /\ Rpc("add", p) \notin pend

\* A revoked profile has a Hysteria session only when an auth answer given
\* before the revocation was still on its way when the kick was executed.
HysteriaRevocationSound ==
    \A p \in revoked \ straggler : p \notin hy /\ p \notin granted

\* When disable is about to report success and Xray was left alone since its
\* restart, every other active profile has its account back.
DisableRestoresOthers ==
    \A t \in Threads :
        At(t, "finish") /\ ~frame[t].incomplete /\ ~drift => Active \subseteq users

\* A reconciliation that ends without error, and was not disturbed after it
\* listed the accounts, leaves exactly the active profiles in Xray.
ReconcileExact ==
    \A t \in Threads : At(t, "r_ok") /\ ~drift => users = Active

\* An error code is kept only by a profile that needs attention, and the date
\* of disabling exactly by the disabled ones, through every failure path.
RecordConsistent ==
    \A p \in Profiles :
        /\ lastError[p] # "none" => state[p] \in {"ERROR", "DISABLED"}
        /\ disabledAt[p] = "set" <=> state[p] = "DISABLED"

\* The coordinator, its failures and crashes included, moves each row only as
\* ProfileLifecycle allows; material is destroyed only in DISABLED.
LifecycleSpec == Lifecycle!Spec

\* Once failures and requests stop, the 60 s reconciliation brings Xray back to
\* the active profiles of the database and the service to ready, for good.
Convergence == <>[](ready /\ users = Active)

\* What docs/profiles.md says of a disabled profile, on Xray: with the
\* reconciliation running, its open VLESS session is closed eventually.
DisabledVlessCloses ==
    \A p \in Profiles :
        (state[p] = "DISABLED" /\ p \in vless) ~> (state[p] # "DISABLED" \/ p \notin vless)

\* The same on Hysteria.
DisabledHysteriaCloses ==
    \A p \in Profiles :
        (state[p] = "DISABLED" /\ p \in hy) ~> (state[p] # "DISABLED" \/ p \notin hy)

\* Readiness is the result of the last reconciliation, once no result is on its
\* way from the worker to the event loop.
HealthCurrent == late = "none" => (ready <=> lastReconcile = "ok")
=============================================================================
