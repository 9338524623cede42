------------------------- MODULE Supervisor_proofs -------------------------
(***************************************************************************)
(* Machine-checked proofs about Supervisor, for any number of calls and    *)
(* crashes and any failure budget: there is one Xray at most, an answer    *)
(* 202 means a fresh one, an abandoned restart never follows it, and exit  *)
(* code 0 means that Xray was stopped.                                     *)
(***************************************************************************)
EXTENDS Supervisor, TLAPS

\* The children: numbered as they are started, at most the newest is running.
ChildInv == child \in Nat /\ alive \subseteq 1..child /\ SingleChild

\* The part of TypeOK the argument needs.
Types ==
    /\ pc \in {"begin", "select", "stop", "kill", "stable", "returned"}
    /\ cause \in {"none", "restart", "shutdown", "cancel"}
    /\ serving \in Calls \cup {0}
    /\ call \in [Calls -> {"new", "mutex", "send", "wait", "ok", "failed"}]
    /\ ctxDone \in [Calls -> BOOLEAN]
    /\ reply \in [Calls -> {"none", "nil", "error"}]
    /\ abandoned \subseteq Calls /\ born \in [Calls -> Nat]

\* Run has an unanswered request at hand while it restarts the child for it;
\* on trial is a child younger than the request.
ServingInv ==
    /\ pc = "begin" => child = 0
    /\ pc \in {"stop", "kill"} /\ cause = "restart" => serving \in Calls
    /\ pc = "stable" => serving \in Calls /\ born[serving] < child
    /\ serving # 0 =>
           call[serving] \notin {"new", "mutex", "send"} /\ reply[serving] = "none"

\* The client makes its calls in order and waits for one of them at most.
OrderInv ==
    \A s \in Calls :
        /\ born[s] <= child
        /\ \A r \in Calls : r < s /\ call[s] # "new" =>
               call[r] # "new" /\ (r \in InFlight => r \in abandoned)

\* Once a request was answered with success, the earlier ones that are still
\* under way are cancelled and will be refused.
ReplyInv ==
    \A s \in Calls :
        /\ call[s] \in {"new", "mutex", "send"} => reply[s] = "none"
        /\ call[s] = "ok" => reply[s] = "nil"
        /\ reply[s] = "nil" =>
               /\ born[s] < child
               /\ \A r \in Calls : r < s =>
                      serving # r /\ (r \in InFlight => ctxDone[r])

SInv == ChildInv /\ Types /\ ServingInv /\ OrderInv /\ ReplyInv

-----------------------------------------------------------------------------
(* Steps of Run.                                                           *)

USE CallsAssumption

\* What a step does to the children.
Spawned == child' = child + 1 /\ alive' = {child + 1}
Kept == child' = child /\ alive' \subseteq alive

\* A child started in the place of one that exited is the only one.
LEMMA SpawnAlone ==
    ASSUME ChildInv, Exited, StartChild
    PROVE  Spawned
BY DEF ChildInv, SingleChild, Exited, StartChild, Spawned

\* Either way the children stay in order.
LEMMA ChildStep ==
    ASSUME ChildInv, Spawned \/ Kept
    PROVE  ChildInv'
<1>1. CASE Spawned
  BY <1>1 DEF ChildInv, SingleChild, Spawned
<1>2. CASE Kept
  BY <1>2 DEF ChildInv, SingleChild, Kept
<1> QED BY <1>1, <1>2

\* A step of Run that accepts no request and reports no success.
Reported ==
    /\ UNCHANGED callVars
    /\ serving' = 0 \/ serving' = serving
    /\ \/ reply' = reply
       \/ serving \in Calls /\ serving' = 0 /\ reply' = [reply EXCEPT ![serving] = "error"]

\* Such a step leaves what was answered with success as it was.
LEMMA ReportedStep ==
    ASSUME SInv, Spawned \/ Kept, Reported
    PROVE  /\ OrderInv' /\ ReplyInv'
           /\ serving' # 0 =>
                  /\ call'[serving'] \notin {"new", "mutex", "send"}
                  /\ reply'[serving'] = "none"
<1> USE DEF SInv, Reported, Types, callVars, InFlight, Calls
<1>1. child' \in Nat /\ child' >= child
  BY DEF ChildInv, Spawned, Kept
<1>2. OrderInv'
  BY <1>1, SMTT(20) DEF OrderInv, ChildInv
<1>3. \A s \in Calls :
          \/ reply'[s] = reply[s]
          \/ reply'[s] = "error" /\ call[s] \notin {"new", "mutex", "send", "ok"}
  BY SMTT(20) DEF ServingInv, ReplyInv
<1>4. ReplyInv'
  BY <1>1, <1>3, SMTT(20) DEF ReplyInv, ChildInv, ServingInv
<1>5. serving' # 0 =>
          call'[serving'] \notin {"new", "mutex", "send"} /\ reply'[serving'] = "none"
  BY SMTT(20) DEF ServingInv
<1> QED BY <1>2, <1>4, <1>5

-----------------------------------------------------------------------------
(* The inductive invariant.                                                *)

\* Everything the supervisor starts with is idle.
LEMMA SInit == Init => SInv
BY DEF Init, SInv, ChildInv, Types, SingleChild, ServingInv, OrderInv, ReplyInv, InFlight, Calls

\* SInv is inductive.
LEMMA SNext == SInv /\ [Next]_vars => SInv'
<1> SUFFICES ASSUME SInv, [Next]_vars PROVE SInv'
  OBVIOUS
<1> USE DEF SInv
<1>1. CASE Begin
  <2>0. Exited
    BY <1>1, SMT DEF Begin, ServingInv, ChildInv, Exited
  <2>1. Spawned \/ Kept
    BY <1>1, <2>0, SpawnAlone, Zenon
       DEF Begin, StartFails, Supervise, ReturnRun, Kept, osVars
  <2>2. ChildInv'
    BY <2>1, ChildStep
  <2>3. Reported
    BY <1>1, Zenon
       DEF Begin, StartFails, Supervise, ReturnRun, Reported, Types, ServingInv, runVars
  <2>4. Types'
    BY <1>1, SMTT(20)
       DEF Begin, StartFails, Supervise, ReturnRun, Types, ServingInv, callVars, runVars, Calls
  <2>5. ServingInv'
    BY <1>1, <2>1, <2>3, ReportedStep, SMTT(20)
       DEF Begin, StartFails, Supervise, ReturnRun, Types, ServingInv, OrderInv, ChildInv, Spawned, Kept,
          osVars, callVars, Calls
  <2>6. QED BY <2>1, <2>2, <2>3, <2>4, <2>5, ReportedStep
<1>2. CASE SelectExited
  <2>1. Spawned \/ Kept
    BY <1>2, SpawnAlone, Zenon
       DEF SelectExited, AfterFailure, StartFails, Supervise, ReturnRun, Kept, osVars
  <2>2. ChildInv'
    BY <2>1, ChildStep
  <2>3. Reported
    BY <1>2, Zenon
       DEF SelectExited, AfterFailure, StartFails, Supervise, ReturnRun, Reported, Types, ServingInv, runVars
  <2>4. Types'
    BY <1>2, SMTT(20)
       DEF SelectExited, AfterFailure, StartFails, Supervise, ReturnRun, Types, ServingInv, callVars,
          runVars, Calls
  <2>5. ServingInv'
    BY <1>2, <2>1, <2>3, ReportedStep, SMTT(20)
       DEF SelectExited, AfterFailure, StartFails, Supervise, ReturnRun, Types, ServingInv, OrderInv,
          ChildInv, Spawned, Kept, osVars, callVars, Calls
  <2>6. QED BY <2>1, <2>2, <2>3, <2>4, <2>5, ReportedStep
<1>3. CASE AwaitStop
  <2>1. Spawned \/ Kept
    BY <1>3, SpawnAlone, Zenon
       DEF AwaitStop, Stopped, Respond, StartFails, Supervise, ReturnRun, Kept, osVars
  <2>2. ChildInv'
    BY <2>1, ChildStep
  <2>3. Reported
    BY <1>3, Zenon
       DEF AwaitStop, Stopped, Respond, StartFails, Supervise, ReturnRun, Reported, Types, ServingInv, runVars
  <2>4. Types'
    BY <1>3, SMTT(20)
       DEF AwaitStop, Stopped, Respond, StartFails, Supervise, ReturnRun, Types, ServingInv, callVars,
          runVars, Calls
  <2>5. ServingInv'
    BY <1>3, <2>1, <2>3, ReportedStep, SMTT(20)
       DEF AwaitStop, Stopped, Respond, StartFails, Supervise, ReturnRun, Types, ServingInv, OrderInv,
          ChildInv, Spawned, Kept, StartChild, osVars, callVars, Calls
  <2>6. QED BY <2>1, <2>2, <2>3, <2>4, <2>5, ReportedStep
<1>4. CASE AwaitKill
  <2>1. Spawned \/ Kept
    BY <1>4, SpawnAlone, Zenon
       DEF AwaitKill, Stopped, KillTimeout, StopFailed, Respond, StartFails, Supervise, ReturnRun, Kept,
          osVars
  <2>2. ChildInv'
    BY <2>1, ChildStep
  <2>3. Reported
    BY <1>4, Zenon
       DEF AwaitKill, Stopped, KillTimeout, StopFailed, Respond, StartFails, Supervise, ReturnRun,
          Reported, Types, ServingInv, runVars
  <2>4. Types'
    BY <1>4, SMTT(20)
       DEF AwaitKill, Stopped, KillTimeout, StopFailed, Respond, StartFails, Supervise, ReturnRun, Types,
          ServingInv, callVars, runVars, Calls
  <2>5. ServingInv'
    BY <1>4, <2>1, <2>3, ReportedStep, SMTT(20)
       DEF AwaitKill, Stopped, KillTimeout, StopFailed, Respond, StartFails, Supervise, ReturnRun, Types,
          ServingInv, OrderInv, ChildInv, Spawned, Kept, StartChild, osVars, callVars, Calls
  <2>6. QED BY <2>1, <2>2, <2>3, <2>4, <2>5, ReportedStep
<1>5. CASE TrialFailed
  <2>1. Spawned \/ Kept
    BY <1>5, SpawnAlone, Zenon
       DEF TrialFailed, AfterFailure, Respond, StartFails, Supervise, ReturnRun, Kept, osVars
  <2>2. ChildInv'
    BY <2>1, ChildStep
  <2>3. Reported
    BY <1>5, Zenon
       DEF TrialFailed, AfterFailure, Respond, StartFails, Supervise, ReturnRun, Reported, Types,
          ServingInv, runVars
  <2>4. Types'
    BY <1>5, SMTT(20)
       DEF TrialFailed, AfterFailure, Respond, StartFails, Supervise, ReturnRun, Types, ServingInv,
          callVars, runVars, Calls
  <2>5. ServingInv'
    BY <1>5, <2>1, <2>3, ReportedStep, SMTT(20)
       DEF TrialFailed, AfterFailure, Respond, StartFails, Supervise, ReturnRun, Types, ServingInv,
          OrderInv, ChildInv, Spawned, Kept, osVars, callVars, Calls
  <2>6. QED BY <2>1, <2>2, <2>3, <2>4, <2>5, ReportedStep
<1>6. CASE SelectDone
  <2>1. Kept
    BY <1>6, Zenon
       DEF SelectDone, StopChild, Kept, osVars
  <2>2. ChildInv'
    BY <2>1, ChildStep
  <2>3. Reported
    BY <1>6, Zenon
       DEF SelectDone, StopChild, Reported, Types, ServingInv, runVars
  <2>4. Types'
    BY <1>6, SMTT(20)
       DEF SelectDone, StopChild, Types, ServingInv, callVars, runVars, Calls
  <2>5. ServingInv'
    BY <1>6, <2>1, <2>3, ReportedStep, SMTT(20)
       DEF SelectDone, StopChild, Types, ServingInv, OrderInv, ChildInv, Spawned, Kept, osVars, callVars,
          Calls
  <2>6. QED BY <2>1, <2>2, <2>3, <2>4, <2>5, ReportedStep
<1>7. CASE SelectShutdown
  <2>1. Kept
    BY <1>7, Zenon
       DEF SelectShutdown, StopChild, Kept, osVars
  <2>2. ChildInv'
    BY <2>1, ChildStep
  <2>3. Reported
    BY <1>7, Zenon
       DEF SelectShutdown, StopChild, Reported, Types, ServingInv, runVars
  <2>4. Types'
    BY <1>7, SMTT(20)
       DEF SelectShutdown, StopChild, Types, ServingInv, callVars, runVars, Calls
  <2>5. ServingInv'
    BY <1>7, <2>1, <2>3, ReportedStep, SMTT(20)
       DEF SelectShutdown, StopChild, Types, ServingInv, OrderInv, ChildInv, Spawned, Kept, osVars,
          callVars, Calls
  <2>6. QED BY <2>1, <2>2, <2>3, <2>4, <2>5, ReportedStep
<1>8. CASE TrialCancelled
  <2>1. Kept
    BY <1>8, Zenon
       DEF TrialCancelled, StopChild, Respond, Canceled, Kept, osVars
  <2>2. ChildInv'
    BY <2>1, ChildStep
  <2>3. Reported
    BY <1>8, Zenon
       DEF TrialCancelled, StopChild, Respond, Canceled, Reported, Types, ServingInv, runVars
  <2>4. Types'
    BY <1>8, SMTT(20)
       DEF TrialCancelled, StopChild, Respond, Canceled, Types, ServingInv, callVars, runVars, Calls
  <2>5. ServingInv'
    BY <1>8, <2>1, <2>3, ReportedStep, SMTT(20)
       DEF TrialCancelled, StopChild, Respond, Canceled, Types, ServingInv, OrderInv, ChildInv, Spawned,
          Kept, osVars, callVars, Calls
  <2>6. QED BY <2>1, <2>2, <2>3, <2>4, <2>5, ReportedStep
<1>9. CASE TrialPassed
  <2>1. Kept
    BY <1>9, Zenon DEF TrialPassed, Disconnected, Supervise, Respond, Kept, osVars
  <2>2. ChildInv'
    BY <2>1, ChildStep
  <2>3. Types'
    BY <1>9, <2>1, SMTT(20)
       DEF TrialPassed, Disconnected, Supervise, Respond, Types, ServingInv, OrderInv, ReplyInv, InFlight,
          Calls, ChildInv, Spawned, Kept, osVars, runVars, callVars
  <2>4. ServingInv'
    BY <1>9, <2>1, SMTT(20)
       DEF TrialPassed, Disconnected, Supervise, Respond, Types, ServingInv, OrderInv, ReplyInv, InFlight,
          Calls, ChildInv, Spawned, Kept, osVars, runVars, callVars
  <2>5. OrderInv'
    BY <1>9, <2>1, SMTT(20)
       DEF TrialPassed, Disconnected, Supervise, Respond, Types, ServingInv, OrderInv, ReplyInv, InFlight,
          Calls, ChildInv, Spawned, Kept, osVars, runVars, callVars
  <2>6. ReplyInv'
    BY <1>9, <2>1, SMTT(20)
       DEF TrialPassed, Disconnected, Supervise, Respond, Types, ServingInv, OrderInv, ReplyInv, InFlight,
          Calls, ChildInv, Spawned, Kept, osVars, runVars, callVars
  <2>7. QED BY <2>2, <2>3, <2>4, <2>5, <2>6
<1>10. ASSUME NEW r \in Calls, SelectRestart(r) PROVE SInv'
  <2>1. Kept
    BY <1>10, Zenon DEF SelectRestart, StopChild, Refused, Respond, Canceled, Kept, osVars
  <2>2. ChildInv'
    BY <2>1, ChildStep
  <2>3. Types'
    <3>1. CASE Refused(r)
      BY <1>10, <3>1, <2>1, SMTT(20)
         DEF SelectRestart, StopChild, Refused, Respond, Canceled, Types, ServingInv, OrderInv, ReplyInv,
            InFlight, Calls, ChildInv, Spawned, Kept, osVars, runVars
    <3>2. CASE ~Refused(r)
      BY <1>10, <3>2, <2>1, SMTT(20)
         DEF SelectRestart, StopChild, Refused, Respond, Canceled, Types, ServingInv, OrderInv, ReplyInv,
            InFlight, Calls, ChildInv, Spawned, Kept, osVars, runVars
    <3>3. QED BY <3>1, <3>2
  <2>4. ServingInv'
    <3>1. CASE Refused(r)
      BY <1>10, <3>1, <2>1, SMTT(20)
         DEF SelectRestart, StopChild, Refused, Respond, Canceled, Types, ServingInv, OrderInv, ReplyInv,
            InFlight, Calls, ChildInv, Spawned, Kept, osVars, runVars
    <3>2. CASE ~Refused(r)
      BY <1>10, <3>2, <2>1, SMTT(20)
         DEF SelectRestart, StopChild, Refused, Respond, Canceled, Types, ServingInv, OrderInv, ReplyInv,
            InFlight, Calls, ChildInv, Spawned, Kept, osVars, runVars
    <3>3. QED BY <3>1, <3>2
  <2>5. OrderInv'
    BY <1>10, <2>1, SMTT(20)
       DEF SelectRestart, StopChild, Refused, Respond, Canceled, Types, ServingInv, OrderInv, ReplyInv,
          InFlight, Calls, ChildInv, Spawned, Kept, osVars, runVars, callVars
  <2>6. ReplyInv'
    <3>1. CASE Refused(r)
      BY <1>10, <3>1, <2>1, SMTT(20)
         DEF SelectRestart, StopChild, Refused, Respond, Canceled, Types, ServingInv, OrderInv, ReplyInv,
            InFlight, Calls, ChildInv, Spawned, Kept, osVars, runVars
    <3>2. CASE ~Refused(r)
      BY <1>10, <3>2, <2>1, SMTT(20)
         DEF SelectRestart, StopChild, Refused, Respond, Canceled, Types, ServingInv, OrderInv, ReplyInv,
            InFlight, Calls, ChildInv, Spawned, Kept, osVars, runVars
    <3>3. QED BY <3>1, <3>2
  <2>7. QED BY <2>2, <2>3, <2>4, <2>5, <2>6
<1>11. CASE ChildExits
  <2>1. Kept
    BY <1>11, Zenon DEF ChildExits, Kept, osVars
  <2>2. ChildInv'
    BY <2>1, ChildStep
  <2>3. Types'
    BY <1>11, <2>1, SMTT(20)
       DEF ChildExits, Types, ServingInv, OrderInv, ReplyInv, InFlight, Calls, ChildInv, Spawned, Kept,
          osVars, runVars, callVars
  <2>4. ServingInv'
    BY <1>11, <2>1, SMTT(20)
       DEF ChildExits, Types, ServingInv, OrderInv, ReplyInv, InFlight, Calls, ChildInv, Spawned, Kept,
          osVars, runVars, callVars
  <2>5. OrderInv'
    BY <1>11, <2>1, SMTT(20)
       DEF ChildExits, Types, ServingInv, OrderInv, ReplyInv, InFlight, Calls, ChildInv, Spawned, Kept,
          osVars, runVars, callVars
  <2>6. ReplyInv'
    BY <1>11, <2>1, SMTT(20)
       DEF ChildExits, Types, ServingInv, OrderInv, ReplyInv, InFlight, Calls, ChildInv, Spawned, Kept,
          osVars, runVars, callVars
  <2>7. QED BY <2>2, <2>3, <2>4, <2>5, <2>6
<1>12. CASE Exit
  <2>1. Kept
    BY <1>12, Zenon DEF Exit, Kept, osVars
  <2>2. ChildInv'
    BY <2>1, ChildStep
  <2>3. Types'
    BY <1>12, <2>1, SMTT(20)
       DEF Exit, Types, ServingInv, OrderInv, ReplyInv, InFlight, Calls, ChildInv, Spawned, Kept, osVars,
          runVars, callVars
  <2>4. ServingInv'
    BY <1>12, <2>1, SMTT(20)
       DEF Exit, Types, ServingInv, OrderInv, ReplyInv, InFlight, Calls, ChildInv, Spawned, Kept, osVars,
          runVars, callVars
  <2>5. OrderInv'
    BY <1>12, <2>1, SMTT(20)
       DEF Exit, Types, ServingInv, OrderInv, ReplyInv, InFlight, Calls, ChildInv, Spawned, Kept, osVars,
          runVars, callVars
  <2>6. ReplyInv'
    BY <1>12, <2>1, SMTT(20)
       DEF Exit, Types, ServingInv, OrderInv, ReplyInv, InFlight, Calls, ChildInv, Spawned, Kept, osVars,
          runVars, callVars
  <2>7. QED BY <2>2, <2>3, <2>4, <2>5, <2>6
<1>13. ASSUME NEW r \in Calls, Call(r) PROVE SInv'
  <2>1. Kept
    BY <1>13, Zenon DEF Call, Kept, osVars
  <2>2. ChildInv'
    BY <2>1, ChildStep
  <2>3. Types'
    BY <1>13, <2>1, SMTT(20)
       DEF Call, Types, ServingInv, OrderInv, ReplyInv, InFlight, Calls, ChildInv, Spawned, Kept, osVars,
          runVars, callVars
  <2>4. ServingInv'
    BY <1>13, <2>1, SMTT(20)
       DEF Call, Types, ServingInv, OrderInv, ReplyInv, InFlight, Calls, ChildInv, Spawned, Kept, osVars,
          runVars, callVars
  <2>5. OrderInv'
    BY <1>13, <2>1, SMTT(20)
       DEF Call, Types, ServingInv, OrderInv, ReplyInv, InFlight, Calls, ChildInv, Spawned, Kept, osVars,
          runVars, callVars
  <2>6. ReplyInv'
    BY <1>13, <2>1, SMTT(20)
       DEF Call, Types, ServingInv, OrderInv, ReplyInv, InFlight, Calls, ChildInv, Spawned, Kept, osVars,
          runVars, callVars
  <2>7. QED BY <2>2, <2>3, <2>4, <2>5, <2>6
<1>14. ASSUME NEW r \in Calls, Abandon(r) PROVE SInv'
  <2>1. Kept
    BY <1>14, Zenon DEF Abandon, Kept, osVars
  <2>2. ChildInv'
    BY <2>1, ChildStep
  <2>3. Types'
    BY <1>14, <2>1, SMTT(20)
       DEF Abandon, Types, ServingInv, OrderInv, ReplyInv, InFlight, Calls, ChildInv, Spawned, Kept,
          osVars, runVars, callVars
  <2>4. ServingInv'
    BY <1>14, <2>1, SMTT(20)
       DEF Abandon, Types, ServingInv, OrderInv, ReplyInv, InFlight, Calls, ChildInv, Spawned, Kept,
          osVars, runVars, callVars
  <2>5. OrderInv'
    BY <1>14, <2>1, SMTT(20)
       DEF Abandon, Types, ServingInv, OrderInv, ReplyInv, InFlight, Calls, ChildInv, Spawned, Kept,
          osVars, runVars, callVars
  <2>6. ReplyInv'
    BY <1>14, <2>1, SMTT(20)
       DEF Abandon, Types, ServingInv, OrderInv, ReplyInv, InFlight, Calls, ChildInv, Spawned, Kept,
          osVars, runVars, callVars
  <2>7. QED BY <2>2, <2>3, <2>4, <2>5, <2>6
<1>15. ASSUME NEW r \in Calls, CtxDone(r) PROVE SInv'
  <2>1. Kept
    BY <1>15, Zenon DEF CtxDone, Kept, osVars
  <2>2. ChildInv'
    BY <2>1, ChildStep
  <2>3. Types'
    BY <1>15, <2>1, SMTT(20)
       DEF CtxDone, Types, ServingInv, OrderInv, ReplyInv, InFlight, Calls, ChildInv, Spawned, Kept,
          osVars, runVars, callVars
  <2>4. ServingInv'
    BY <1>15, <2>1, SMTT(20)
       DEF CtxDone, Types, ServingInv, OrderInv, ReplyInv, InFlight, Calls, ChildInv, Spawned, Kept,
          osVars, runVars, callVars
  <2>5. OrderInv'
    BY <1>15, <2>1, SMTT(20)
       DEF CtxDone, Types, ServingInv, OrderInv, ReplyInv, InFlight, Calls, ChildInv, Spawned, Kept,
          osVars, runVars, callVars
  <2>6. ReplyInv'
    BY <1>15, <2>1, SMTT(20)
       DEF CtxDone, Types, ServingInv, OrderInv, ReplyInv, InFlight, Calls, ChildInv, Spawned, Kept,
          osVars, runVars, callVars
  <2>7. QED BY <2>2, <2>3, <2>4, <2>5, <2>6
<1>16. ASSUME NEW r \in Calls, LockMutex(r) PROVE SInv'
  <2>1. Kept
    BY <1>16, Zenon DEF LockMutex, Kept, osVars
  <2>2. ChildInv'
    BY <2>1, ChildStep
  <2>3. Types'
    BY <1>16, <2>1, SMTT(20)
       DEF LockMutex, Types, ServingInv, OrderInv, ReplyInv, InFlight, Calls, ChildInv, Spawned, Kept,
          osVars, runVars, callVars
  <2>4. ServingInv'
    BY <1>16, <2>1, SMTT(20)
       DEF LockMutex, Types, ServingInv, OrderInv, ReplyInv, InFlight, Calls, ChildInv, Spawned, Kept,
          osVars, runVars, callVars
  <2>5. OrderInv'
    BY <1>16, <2>1, SMTT(20)
       DEF LockMutex, Types, ServingInv, OrderInv, ReplyInv, InFlight, Calls, ChildInv, Spawned, Kept,
          osVars, runVars, callVars
  <2>6. ReplyInv'
    BY <1>16, <2>1, SMTT(20)
       DEF LockMutex, Types, ServingInv, OrderInv, ReplyInv, InFlight, Calls, ChildInv, Spawned, Kept,
          osVars, runVars, callVars
  <2>7. QED BY <2>2, <2>3, <2>4, <2>5, <2>6
<1>17. ASSUME NEW r \in Calls, RestartReturns(r) PROVE SInv'
  <2>1. Kept
    BY <1>17, Zenon DEF RestartReturns, GivesUp, Kept, osVars
  <2>2. ChildInv'
    BY <2>1, ChildStep
  <2>3. Types'
    BY <1>17, <2>1, SMTT(20)
       DEF RestartReturns, GivesUp, Types, ServingInv, OrderInv, ReplyInv, InFlight, Calls, ChildInv,
          Spawned, Kept, osVars, runVars, callVars
  <2>4. ServingInv'
    BY <1>17, <2>1, SMTT(20)
       DEF RestartReturns, GivesUp, Types, ServingInv, OrderInv, ReplyInv, InFlight, Calls, ChildInv,
          Spawned, Kept, osVars, runVars, callVars
  <2>5. OrderInv'
    BY <1>17, <2>1, SMTT(20)
       DEF RestartReturns, GivesUp, Types, ServingInv, OrderInv, ReplyInv, InFlight, Calls, ChildInv,
          Spawned, Kept, osVars, runVars, callVars
  <2>6. ReplyInv'
    BY <1>17, <2>1, SMTT(20)
       DEF RestartReturns, GivesUp, Types, ServingInv, OrderInv, ReplyInv, InFlight, Calls, ChildInv,
          Spawned, Kept, osVars, runVars, callVars
  <2>7. QED BY <2>2, <2>3, <2>4, <2>5, <2>6
<1>18. CASE MainSelect \/ ServerStops \/ ShutdownReturns \/ Drain \/ Signal \/ UNCHANGED vars
  <2>1. UNCHANGED <<osVars, pc, cause, serving, callVars, reply>>
    BY <1>18, Zenon DEF MainSelect, ServerStops, ShutdownReturns, Drain, Signal, vars, runVars
  <2>2. QED
    BY <2>1, SMTT(20) DEF Types, ServingInv, OrderInv, ReplyInv, InFlight, Calls, ChildInv, Spawned, Kept,
       SingleChild, osVars, callVars
<1> HIDE DEF SInv
<1> QED
  BY <1>1, <1>2, <1>3, <1>4, <1>5, <1>6, <1>7, <1>8, <1>9, <1>10, <1>11, <1>12, <1>13, <1>14, <1>15, <1>16,
     <1>17, <1>18,
     Zenon DEF Next, Run, Main, Handler

\* The invariant holds of the supervisor.
THEOREM SupervisorInvariance == Spec => []SInv
BY SInit, SNext, PTL DEF Spec

\* There is never a second Xray.
THEOREM OneChild == Spec => []SingleChild
<1>1. SInv => SingleChild
  BY DEF SInv, ChildInv
<1> QED BY <1>1, SupervisorInvariance, PTL

\* A restart answered 202 leaves no child that was running when it was asked.
THEOREM FreshAfterSuccess == Spec => []SuccessIsFresh
<1>1. SInv => SuccessIsFresh
  BY DEF SInv, ChildInv, SingleChild, ReplyInv, Types, SuccessIsFresh
<1> QED BY <1>1, SupervisorInvariance, PTL

\* A restart its caller gave up is never executed after a later success.
THEOREM AbandonedNeverFollows == Spec => []NoLateRestart
<1>1. SInv => NoLateRestart
  BY DEF SInv, ReplyInv, NoLateRestart
<1> QED BY <1>1, SupervisorInvariance, PTL

-----------------------------------------------------------------------------
(* The exit code, and the types that are left.                             *)

Flags == healthy \in BOOLEAN /\ signalled \in BOOLEAN /\ cancelled \in BOOLEAN

Ranges ==
    /\ crashes \in 0..MaxCrashes
    /\ failures \in 0..(MaxFailures + IF pc = "returned" THEN 1 ELSE 0)
    /\ result \in {"none", "nil", "error"} /\ mutex \in Calls \cup {0}
    /\ main \in {"select", "shutdown_send", "shutdown_wait", "drain", "http", "exited"}
    /\ exitCode \in {0, 1} /\ stopReply \in {"none", "nil", "error"}

\* Run returns once; it returns nil only when the child is gone, and main keeps
\* code 0 only when that is what Run returned.
ExitInv ==
    /\ pc = "returned" <=> result # "none"
    /\ result = "nil" => alive = {}
    /\ main \in {"http", "exited"} /\ exitCode = 0 => result = "nil"

EInv == SInv /\ Flags /\ Ranges /\ ExitInv

\* Everything is within its type at the start, and no code is set.
LEMMA EInit == Init => EInv
<1> SUFFICES ASSUME Init PROVE EInv
  OBVIOUS
<1>1. Flags
  BY Zenon DEF Init, Flags
<1>2. Ranges /\ ExitInv
  BY PolicyAssumption DEF Init, Ranges, ExitInv
<1> QED BY <1>1, <1>2, SInit DEF EInv

\* The flags are flags.
LEMMA FlagsStep == Flags /\ [Next]_vars => Flags'
BY Zenon DEF Flags, Next, Run, Main, Handler, Begin, SelectDone, SelectShutdown, SelectExited,
   SelectRestart, AwaitStop, AwaitKill, TrialPassed, TrialFailed, TrialCancelled, MainSelect,
   ShutdownReturns, Drain, Exit, ServerStops, Signal, ChildExits, Call, Abandon, CtxDone, LockMutex,
   RestartReturns, Supervise, ReturnRun, StopChild, AfterFailure, Stopped, StopFailed, KillTimeout,
   runVars, mainVars, vars

\* A child that exited was the last one.
LEMMA ExitedAlone == ChildInv /\ Exited => alive = {}
BY DEF ChildInv, SingleChild, Exited

\* The budget of failures is exceeded only by the failure that ends Run.
LEMMA FailureStep ==
    ASSUME Ranges, ExitInv, pc # "returned", AfterFailure
    PROVE  /\ failures' \in 0..(MaxFailures + IF pc' = "returned" THEN 1 ELSE 0)
           /\ crashes' = crashes /\ result' \in {"none", "error"}
           /\ pc' = "returned" <=> result' # "none"
BY PolicyAssumption, SMTT(20)
   DEF Ranges, ExitInv, AfterFailure, RecordFailure, Exceeded, StartChild, StartFails, Supervise, ReturnRun,
       osVars

\* EInv is inductive.
LEMMA ENext == EInv /\ [Next]_vars => EInv'
<1> SUFFICES ASSUME EInv, [Next]_vars PROVE Ranges' /\ ExitInv'
  BY SNext, FlagsStep DEF EInv
<1> USE PolicyAssumption DEF EInv, SInv, Types, Ranges, ExitInv
<1>1. CASE Begin
  BY <1>1, SMTT(20) DEF Begin, StartChild, StartFails, Supervise, ReturnRun, osVars, callVars, mainVars
<1>2. CASE SelectDone \/ SelectShutdown \/ TrialCancelled
  BY <1>2, SMTT(20)
     DEF SelectDone, SelectShutdown, TrialCancelled, StopChild, osVars, callVars, mainVars
<1>3. CASE SelectExited
  BY <1>3, FailureStep, SMTT(20) DEF SelectExited, callVars, mainVars
<1>4. CASE TrialFailed
  BY <1>4, FailureStep, SMTT(20) DEF TrialFailed, callVars, mainVars
<1>5. CASE TrialPassed
  BY <1>5, SMTT(20) DEF TrialPassed, Supervise, osVars, callVars, mainVars
<1>6. CASE AwaitStop
  BY <1>6, ExitedAlone, SMTT(20)
     DEF AwaitStop, Stopped, StartChild, StartFails, ReturnRun, osVars, callVars, mainVars
<1>7. CASE AwaitKill
  BY <1>7, ExitedAlone, SMTT(20)
     DEF AwaitKill, KillTimeout, StopFailed, Stopped, StartChild, StartFails, ReturnRun, osVars, callVars,
        mainVars
<1>8. ASSUME NEW r \in Calls, SelectRestart(r) PROVE Ranges' /\ ExitInv'
  BY <1>8, SMTT(20) DEF SelectRestart, StopChild, osVars, runVars, mainVars
<1>9. CASE ChildExits
  BY <1>9, SMTT(20) DEF ChildExits, runVars, callVars, mainVars
<1>10. CASE MainSelect \/ ServerStops \/ ShutdownReturns \/ Drain \/ Signal \/ Exit
  BY <1>10, SMTT(20)
     DEF MainSelect, ServerStops, ShutdownReturns, ShutdownTimeout, Drain, Signal, Exit, ExitCode, osVars,
         runVars, callVars
<1>11. ASSUME NEW r \in Calls, Call(r) \/ Abandon(r) \/ CtxDone(r) \/ LockMutex(r) \/ RestartReturns(r)
      PROVE  Ranges' /\ ExitInv'
  BY <1>11, SMTT(20)
     DEF Call, Abandon, CtxDone, LockMutex, RestartReturns, Unlock, osVars, runVars, mainVars
<1>12. CASE UNCHANGED vars
  BY <1>12, SMTT(20) DEF vars, osVars, runVars, callVars, mainVars
<1> HIDE DEF EInv, Ranges, ExitInv
<1> QED
  BY <1>1, <1>2, <1>3, <1>4, <1>5, <1>6, <1>7, <1>8, <1>9, <1>10, <1>11, <1>12, Zenon
     DEF Next, Run, Main, Handler

\* Every goroutine and counter stays within its type; the failures that are
\* kept exceed the policy only when Run has returned.
THEOREM SupervisorTypeCorrect == Spec => []TypeOK
<1>1. EInv => TypeOK
  BY Zenon DEF EInv, SInv, ChildInv, Types, Flags, Ranges, TypeOK
<1> QED BY <1>1, EInit, ENext, PTL DEF Spec

\* Exit code 0 means that Xray was stopped, whichever of the signal, the
\* control server, the timeouts and Run's own return ended main.
THEOREM ExitIsClean == Spec => []CleanExit
<1>1. EInv => CleanExit
  BY DEF EInv, ExitInv, CleanExit
<1> QED BY <1>1, EInit, ENext, PTL DEF Spec
=============================================================================
