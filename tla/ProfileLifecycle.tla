-------------------------- MODULE ProfileLifecycle --------------------------
(***************************************************************************)
(* What the profile table promises on its own: one row per profile, moved  *)
(* only along _LEGAL_TRANSITIONS of control/src/ezopenpn/profiles/         *)
(* repository.py, annotated with last_error_code and disabled_at.          *)
(*                                                                         *)
(* This is the abstract specification of the control plane's database;     *)
(* ProfileControl, with its threads, remote calls and crashes, implements  *)
(* it.  Two states stand for the absence of a row: "unborn" (the uuid was  *)
(* never inserted) and "deleted" (delete_local committed).                 *)
(***************************************************************************)
CONSTANT Profiles        \* identifiers a profile can have

VARIABLES state,         \* profile.state, or the absence of the row
          lastError,     \* profile.last_error_code, "none" for NULL
          disabledAt     \* whether profile.disabled_at is set

vars == <<state, lastError, disabledAt>>

RowStates == {"PENDING", "ACTIVE", "DISABLED", "ERROR"}
States == RowStates \cup {"unborn", "deleted"}

\* The fixed codes of coordinator.py, and NULL.
AddFailed == "xray_add_failed"
RevokeIncomplete == "runtime_revoke_incomplete"
MaterialInvalid == "profile_material_invalid"
Codes == {"none", AddFailed, RevokeIncomplete, MaterialInvalid}

LegalTransitions == [s \in RowStates |->
    CASE s = "PENDING"  -> {"ACTIVE", "ERROR"}
      [] s = "ERROR"    -> {"PENDING", "DISABLED"}
      [] s = "ACTIVE"   -> {"DISABLED", "ERROR"}
      [] s = "DISABLED" -> {"ACTIVE", "ERROR"}]

Init ==
    /\ state = [p \in Profiles |-> "unborn"]
    /\ lastError = [p \in Profiles |-> "none"]
    /\ disabledAt = [p \in Profiles |-> "NULL"]

\* A new uuid gets its row.
InsertPending(p) ==
    /\ state[p] = "unborn"
    /\ state' = [state EXCEPT ![p] = "PENDING"]
    /\ UNCHANGED <<lastError, disabledAt>>

\* A legal move; only ERROR carries a code, only DISABLED a date.
SetState(p, s, code) ==
    /\ state[p] \in RowStates
    /\ s = state[p] \/ s \in LegalTransitions[state[p]]
    /\ state' = [state EXCEPT ![p] = s]
    /\ lastError' = [lastError EXCEPT ![p] = IF s = "ERROR" THEN code ELSE "none"]
    /\ disabledAt' = [disabledAt EXCEPT ![p] = IF s = "DISABLED" THEN "set" ELSE "NULL"]

\* The coordinator annotates a profile only once it is switched off.
SetRuntimeError(p, code) ==
    /\ state[p] = "DISABLED"
    /\ lastError' = [lastError EXCEPT ![p] = code]
    /\ UNCHANGED <<state, disabledAt>>

\* Material is destroyed only after the profile was switched off.
DeleteLocal(p) ==
    /\ state[p] = "DISABLED"
    /\ state' = [state EXCEPT ![p] = "deleted"]
    /\ lastError' = [lastError EXCEPT ![p] = "none"]
    /\ disabledAt' = [disabledAt EXCEPT ![p] = "NULL"]

Next ==
    \E p \in Profiles :
        \/ InsertPending(p)
        \/ \E s \in RowStates, c \in Codes : SetState(p, s, c)
        \/ \E c \in Codes \ {"none"} : SetRuntimeError(p, c)
        \/ DeleteLocal(p)

Spec == Init /\ [][Next]_vars
=============================================================================
