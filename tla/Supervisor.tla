----------------------------- MODULE Supervisor -----------------------------
(***************************************************************************)
(* The Xray supervisor (runtime/internal/supervisor and cmd/               *)
(* xray-supervisor): the ProcessManager.Run loop that owns the Xray child, *)
(* the POST /restart handlers that queue at Restarter's mutex, and main's  *)
(* orderly exit.                                                           *)
(*                                                                         *)
(* Each goroutine is a process; channels are rendezvous steps or buffered  *)
(* cells; where a Go select has several ready cases any of them may be     *)
(* taken.  Time is not modelled: a timer fires at any moment, except that  *)
(* the 500 ms of stableDuration outlast the closing of a connection.       *)
(* The only client is the control plane, one call at a time.               *)
(***************************************************************************)
EXTENDS Naturals

CONSTANTS MaxCalls,      \* bound: POST /restart calls in a behaviour
          MaxCrashes,    \* bound: exits of Xray that nobody asked for
          MaxFailures,   \* policy.maxFailures
          StartMayFail   \* whether Start() may return ErrChildStart

ASSUME CallsAssumption == MaxCalls \in Nat
ASSUME PolicyAssumption == MaxCrashes \in Nat /\ MaxFailures \in Nat /\ StartMayFail \in BOOLEAN

Calls == 1..MaxCalls

VARIABLES
    \* the operating system: the number of the newest child, the children
    \* that are running, and the unexpected exits so far
    child, alive, crashes,
    \* ProcessManager.Run: where it is, why it stops the child, the restart
    \* request at hand (0: none), the failures kept, what it returned
    pc, cause, serving, failures, result, healthy,
    \* one goroutine per call: where it is, its context, its response channel;
    \* and Restarter.mu (0: unlocked)
    call, ctxDone, reply, mutex,
    \* the client: calls it no longer waits for; the newest child when the
    \* call was made
    abandoned, born,
    \* main: where it is, its exit code, whether a signal arrived, whether the
    \* context of Run is cancelled, the response of Shutdown
    main, exitCode, signalled, cancelled, stopReply

osVars   == <<child, alive, crashes>>
runVars  == <<pc, cause, serving, failures, result, healthy>>
callVars == <<call, ctxDone, mutex, abandoned, born>>
mainVars == <<main, exitCode, signalled, cancelled>>
vars == <<osVars, runVars, callVars, reply, mainVars, stopReply>>

InFlight == {r \in Calls : call[r] \in {"mutex", "send", "wait"}}

TypeOK ==
    /\ child \in Nat /\ alive \subseteq 1..child /\ crashes \in 0..MaxCrashes
    /\ pc \in {"begin", "select", "stop", "kill", "stable", "returned"}
    /\ cause \in {"none", "restart", "shutdown", "cancel"}
    /\ serving \in Calls \cup {0}
    /\ failures \in 0..(MaxFailures + IF pc = "returned" THEN 1 ELSE 0)
    /\ result \in {"none", "nil", "error"}
    /\ healthy \in BOOLEAN
    /\ call \in [Calls -> {"new", "mutex", "send", "wait", "ok", "failed"}]
    /\ ctxDone \in [Calls -> BOOLEAN]
    /\ reply \in [Calls -> {"none", "nil", "error"}]
    /\ mutex \in Calls \cup {0}
    /\ abandoned \subseteq Calls /\ born \in [Calls -> Nat]
    /\ main \in {"select", "shutdown_send", "shutdown_wait", "drain", "http", "exited"}
    /\ exitCode \in {0, 1} /\ signalled \in BOOLEAN /\ cancelled \in BOOLEAN
    /\ stopReply \in {"none", "nil", "error"}

Init ==
    /\ child = 0 /\ alive = {} /\ crashes = 0
    /\ pc = "begin" /\ cause = "none" /\ serving = 0 /\ failures = 0
    /\ result = "none" /\ healthy = FALSE
    /\ call = [r \in Calls |-> "new"] /\ ctxDone = [r \in Calls |-> FALSE]
    /\ reply = [r \in Calls |-> "none"] /\ mutex = 0
    /\ abandoned = {} /\ born = [r \in Calls |-> 0]
    /\ main = "select" /\ exitCode = 0 /\ signalled = FALSE /\ cancelled = FALSE
    /\ stopReply = "none"

-----------------------------------------------------------------------------
(* ProcessManager.Run.                                                     *)

Running == main # "exited"

StartChild == child' = child + 1 /\ alive' = alive \cup {child'} /\ UNCHANGED crashes

\* Run returns; its deferred call clears the health flag.
ReturnRun(r) ==
    /\ pc' = "returned" /\ result' = r /\ healthy' = FALSE
    /\ cause' = "none" /\ serving' = 0

\* A child takes over without a trial period.
Supervise == pc' = "select" /\ cause' = "none" /\ serving' = 0 /\ healthy' = TRUE

StartFails == StartMayFail /\ UNCHANGED osVars

Begin ==
    /\ Running /\ pc = "begin"
    /\ \/ StartChild /\ Supervise /\ UNCHANGED result
       \/ StartFails /\ ReturnRun("error")
    /\ UNCHANGED <<failures, callVars, reply, mainVars, stopReply>>

\* stopChild up to its first select: unhealthy, and the signal is sent.
StopChild(why, r) ==
    /\ pc' = "stop" /\ cause' = why /\ serving' = r /\ healthy' = FALSE
    /\ UNCHANGED <<failures, result, osVars>>

\* recordFailure: failures older than the window are dropped, one is added.
RecordFailure == \E kept \in 0..failures : failures' = kept + 1

\* Mutant: one failure too many is tolerated.
ExceededMutant(n) == n > MaxFailures + 1

Exceeded(n) == n > MaxFailures

\* The child exited by itself: give up after too many failures, else replace it.
AfterFailure ==
    /\ RecordFailure
    /\ \/ Exceeded(failures') /\ ReturnRun("error") /\ UNCHANGED osVars
       \/ /\ ~Exceeded(failures')
          /\ \/ StartChild /\ Supervise /\ UNCHANGED result
             \/ StartFails /\ ReturnRun("error")

\* The child that the loop watches has exited: <-exited is ready.
Exited == child \notin alive

SelectDone ==
    /\ Running /\ pc = "select" /\ cancelled
    /\ StopChild("cancel", 0)
    /\ UNCHANGED <<callVars, reply, mainVars, stopReply>>

SelectShutdown ==
    /\ Running /\ pc = "select" /\ main = "shutdown_send"
    /\ main' = "shutdown_wait"
    /\ StopChild("shutdown", 0)
    /\ UNCHANGED <<callVars, reply, exitCode, signalled, cancelled, stopReply>>

\* Mutant: a request is executed even when its caller is gone.
RefusedMutant(r) == FALSE

\* request.ctx.Err() != nil
Refused(r) == ctxDone[r]

\* Mutant: a refused restart is reported as done.
CanceledMutant == "nil"

\* ErrRestartCanceled
Canceled == "error"

\* The response goes to the requester; its channel is buffered.
Respond(r, value) == reply' = [reply EXCEPT ![r] = value]

SelectRestart(r) ==
    /\ Running /\ pc = "select" /\ call[r] = "send"
    /\ call' = [call EXCEPT ![r] = "wait"]
    /\ \/ /\ Refused(r) /\ Respond(r, Canceled)
          /\ UNCHANGED <<runVars, osVars>>
       \/ ~Refused(r) /\ StopChild("restart", r) /\ UNCHANGED reply
    /\ UNCHANGED <<ctxDone, mutex, abandoned, born, mainVars, stopReply>>

SelectExited ==
    /\ Running /\ pc = "select" /\ Exited
    /\ AfterFailure
    /\ UNCHANGED <<callVars, reply, mainVars, stopReply>>

\* What Run does when stopChild failed.
StopFailed ==
    /\ ReturnRun("error") /\ UNCHANGED <<osVars, failures>>
    /\ \/ cause = "restart" /\ Respond(serving, "error") /\ UNCHANGED stopReply
       \/ cause = "shutdown" /\ stopReply' = "error" /\ UNCHANGED reply
       \/ cause = "cancel" /\ UNCHANGED <<reply, stopReply>>

\* What Run does when the child is gone; a restart starts the next one and
\* puts it on trial.
Stopped ==
    /\ UNCHANGED failures
    /\ \/ /\ cause = "restart" /\ UNCHANGED stopReply
          /\ \/ /\ StartChild /\ pc' = "stable"
                /\ UNCHANGED <<cause, serving, result, healthy, reply>>
             \/ StartFails /\ Respond(serving, "error") /\ ReturnRun("error")
       \/ /\ cause = "shutdown" /\ stopReply' = "nil" /\ ReturnRun("nil")
          /\ UNCHANGED <<osVars, reply>>
       \/ /\ cause = "cancel" /\ ReturnRun("nil")
          /\ UNCHANGED <<osVars, reply, stopReply>>

\* The first select of stopChild: the child exits, or it is killed.
AwaitStop ==
    /\ Running /\ pc = "stop"
    /\ \/ Exited /\ Stopped
       \/ /\ pc' = "kill"
          /\ UNCHANGED <<osVars, cause, serving, failures, result, healthy, reply, stopReply>>
    /\ UNCHANGED <<callVars, mainVars>>

\* Mutant: a child that survives the kill is taken for stopped.
KillTimeoutMutant == Stopped

\* killTimer fires first: ErrChildStop.
KillTimeout == StopFailed

AwaitKill ==
    /\ Running /\ pc = "kill"
    /\ (Exited /\ Stopped) \/ KillTimeout
    /\ UNCHANGED <<callVars, mainVars>>

\* Connections closed by the client have been noticed by the time the trial
\* period is over.
Disconnected == \A r \in abandoned \cap InFlight : ctxDone[r]

TrialPassed ==
    /\ Running /\ pc = "stable" /\ Disconnected
    /\ Supervise /\ Respond(serving, "nil")
    /\ UNCHANGED <<osVars, failures, result, callVars, mainVars, stopReply>>

TrialFailed ==
    /\ Running /\ pc = "stable" /\ Exited
    /\ Respond(serving, "error") /\ AfterFailure
    /\ UNCHANGED <<callVars, mainVars, stopReply>>

TrialCancelled ==
    /\ Running /\ pc = "stable" /\ cancelled
    /\ Respond(serving, Canceled) /\ StopChild("cancel", 0)
    /\ UNCHANGED <<callVars, mainVars, stopReply>>

\* Xray exits because it was told to, or by itself.
ChildExits ==
    /\ child \in alive /\ alive' = alive \ {child}
    /\ \/ pc \in {"stop", "kill"} /\ UNCHANGED crashes
       \/ crashes < MaxCrashes /\ crashes' = crashes + 1
    /\ UNCHANGED <<child, runVars, callVars, reply, mainVars, stopReply>>

-----------------------------------------------------------------------------
(* POST /restart.                                                          *)

\* The client waits for one call at a time.
Call(r) ==
    /\ Running /\ call[r] = "new"
    /\ \A s \in Calls : s < r => call[s] # "new" /\ s \notin InFlight \ abandoned
    /\ call' = [call EXCEPT ![r] = "mutex"]
    /\ born' = [born EXCEPT ![r] = child]
    /\ UNCHANGED <<osVars, runVars, ctxDone, mutex, abandoned, reply, mainVars, stopReply>>

\* The client's own timeout, or its death.
Abandon(r) ==
    /\ r \in InFlight \ abandoned
    /\ abandoned' = abandoned \cup {r}
    /\ UNCHANGED <<osVars, runVars, call, ctxDone, mutex, born, reply, mainVars, stopReply>>

\* The handler's 4 s are over, or the client's connection was closed.
CtxDone(r) ==
    /\ Running /\ r \in InFlight /\ ~ctxDone[r]
    /\ ctxDone' = [ctxDone EXCEPT ![r] = TRUE]
    /\ UNCHANGED <<osVars, runVars, call, mutex, abandoned, born, reply, mainVars, stopReply>>

\* restarter.mu.Lock() does not look at the context.
LockMutex(r) ==
    /\ Running /\ call[r] = "mutex" /\ mutex = 0
    /\ mutex' = r /\ call' = [call EXCEPT ![r] = "send"]
    /\ UNCHANGED <<osVars, runVars, ctxDone, abandoned, born, reply, mainVars, stopReply>>

\* Either select of ProcessManager.Restart may find the context done.
GivesUp(r) == ctxDone[r] /\ call[r] \in {"send", "wait"}

\* Mutant: the mutex is unlocked only when a response arrived.
UnlockMutant(r) == mutex' = IF reply[r] = "none" THEN mutex ELSE 0

\* defer restarter.mu.Unlock()
Unlock(r) == mutex' = 0

\* Restart returns; the mutex is unlocked, the context cancelled and the status
\* written.
RestartReturns(r) ==
    /\ Running
    /\ \/ GivesUp(r) /\ call' = [call EXCEPT ![r] = "failed"]
       \/ /\ call[r] = "wait" /\ reply[r] # "none"
          /\ call' = [call EXCEPT ![r] = IF reply[r] = "nil" THEN "ok" ELSE "failed"]
    /\ Unlock(r) /\ ctxDone' = [ctxDone EXCEPT ![r] = TRUE]
    /\ UNCHANGED <<osVars, runVars, abandoned, born, reply, mainVars, stopReply>>

-----------------------------------------------------------------------------
(* main.                                                                   *)

Signal ==
    /\ Running /\ ~signalled /\ signalled' = TRUE
    /\ UNCHANGED <<osVars, runVars, callVars, reply, main, exitCode, cancelled, stopReply>>

\* Mutant: an error of Run or Shutdown does not change the exit code.
ExitCodeMutant(err) == exitCode

ExitCode(err) == IF err = "error" THEN 1 ELSE exitCode

MainSelect ==
    /\ main = "select"
    /\ \/ /\ signalled /\ main' = "shutdown_send"
          /\ UNCHANGED <<exitCode, cancelled>>
       \/ /\ result # "none" /\ main' = "http" /\ cancelled' = TRUE
          /\ exitCode' = ExitCode(result)
    /\ UNCHANGED <<osVars, runVars, callVars, reply, signalled, stopReply>>

\* The control server stops with an error of its own.
ServerStops ==
    /\ main = "select" /\ main' = "drain" /\ cancelled' = TRUE /\ exitCode' = 1
    /\ UNCHANGED <<osVars, runVars, callVars, reply, signalled, stopReply>>

\* Mutant: the send of the request does not watch the 5 s.
ShutdownTimeoutMutant == main = "shutdown_wait"

\* The 5 s of Shutdown are over, before or after the send.
ShutdownTimeout == main \in {"shutdown_send", "shutdown_wait"}

ShutdownReturns ==
    /\ \/ ShutdownTimeout /\ exitCode' = 1
       \/ main = "shutdown_wait" /\ stopReply # "none" /\ exitCode' = ExitCode(stopReply)
    /\ main' = "drain" /\ cancelled' = TRUE
    /\ UNCHANGED <<osVars, runVars, callVars, reply, signalled, stopReply>>

\* Run's result, or 4 s.
Drain ==
    /\ main = "drain" /\ main' = "http"
    /\ \/ result # "none" /\ exitCode' = ExitCode(result)
       \/ exitCode' = 1
    /\ UNCHANGED <<osVars, runVars, callVars, reply, signalled, cancelled, stopReply>>

\* httpServer.Shutdown waits 2 s at most; the process exits and every handler
\* that is left goes with it.
Exit ==
    /\ main = "http" /\ main' = "exited"
    /\ call' = [r \in Calls |-> IF r \in InFlight THEN "failed" ELSE call[r]]
    /\ UNCHANGED <<osVars, runVars, ctxDone, mutex, abandoned, born, reply,
                   exitCode, signalled, cancelled, stopReply>>

-----------------------------------------------------------------------------
(* The specification.                                                      *)

Run ==
    \/ Begin \/ SelectDone \/ SelectShutdown \/ SelectExited
    \/ \E r \in Calls : SelectRestart(r)
    \/ AwaitStop \/ AwaitKill \/ TrialPassed \/ TrialFailed \/ TrialCancelled

Handler(r) == LockMutex(r) \/ RestartReturns(r)

Main == MainSelect \/ ShutdownReturns \/ Drain \/ Exit

Next ==
    \/ Run \/ Main \/ ServerStops \/ Signal \/ ChildExits
    \/ \E r \in Calls : Call(r) \/ Abandon(r) \/ CtxDone(r) \/ Handler(r)

Spec == Init /\ [][Next]_vars

\* Goroutines are scheduled and timers fire; nothing is assumed of Xray, of
\* the client or of signals.
Fairness ==
    /\ WF_vars(Run) /\ WF_vars(Main)
    /\ \A r \in Calls : WF_vars(CtxDone(r)) /\ WF_vars(Handler(r))

FairSpec == Spec /\ Fairness

-----------------------------------------------------------------------------
(* Properties.                                                             *)

\* There is never a second Xray: stopChild gives up rather than start a child
\* while the previous one may still be running.
SingleChild == alive \subseteq {child}

\* A call answered 202 has replaced Xray: no child that was running when the
\* call was made is left, nor any session or account of it.
SuccessIsFresh ==
    \A r \in Calls : call[r] = "ok" => \A g \in alive : g > born[r]

\* A restart whose caller gave up is never executed after a later call was
\* answered 202 (Run refuses a request whose context is done).
NoLateRestart ==
    \A s \in Calls : call[s] = "ok" => \A r \in Calls : r < s => serving # r

\* Exit code 0 means that Xray was stopped.
CleanExit == main = "exited" /\ exitCode = 0 => alive = {}

\* Every call ends, whatever Xray does and even when Run has returned while
\* handlers are still queued at the mutex.
CallsEnd == <>[](InFlight = {})

\* A termination signal ends the supervisor, in the middle of a restart or of
\* a series of crashes too.
SignalEnds == <>[](signalled => main = "exited")
=============================================================================
