-------------------------- MODULE RuntimeLifecycle --------------------------
(***************************************************************************)
(* The control surface of one Factory Runtime: Run (runtime/factory.go),   *)
(* Pause and Resume, and ControlTerminate (runtime/worker_pool.go), called *)
(* concurrently by the host and by operators.                              *)
(*                                                                         *)
(* Run and the controls share the lifecycle state under f.mu and order     *)
(* what they do to the dispatch outbox by workerSessionControlMu.  What    *)
(* happens inside the engine's run is EngineLoop, inside the outbox        *)
(* DispatchOutbox, and inside a stop DispatchAttempt; here an engine run   *)
(* ends, a drain succeeds or fails, and a stop seals the outbox or comes   *)
(* too late to.  A control that takes workerSessionControlMu goes on to    *)
(* its section under f.mu in the same step: nobody else waits between.     *)
(***************************************************************************)
CONSTANTS
  Operator,   \* goroutines that call Pause, Resume and Terminate
  None        \* the control mutex is free

ASSUME NoneAssumption == None \notin Operator

VARIABLES
  state,      \* factoryImpl.state
  outbox,     \* Planner.mode
  control,    \* who holds workerSessionControlMu
  pc,         \* where the control call of each operator is
  run,        \* where Run is
  canceled,   \* the context of the engine run was canceled
  runErr,     \* what the engine run returned
  stopErr,    \* the stop or the reconciliation of Run failed
  complete,   \* completeCh is closed
  slipped,    \* state and outbox were last set apart (history)
  ended       \* some Terminate has returned nil (history)

lifecycle == <<state, outbox, slipped>>
controls  == <<control, pc, ended>>
running   == <<run, canceled, runErr, stopErr>>
vars      == <<lifecycle, controls, running, complete>>

State     == {"IDLE", "RUNNING", "PAUSED", "COMPLETED", "FAILED"}
Finished  == {"COMPLETED", "FAILED"}
Mode      == {"ACTIVE", "PAUSED", "STOPPED"}
ControlPC == {"idle", "pausing", "resuming", "draining", "joining", "stopping", "stopping idle"}
RunPC     == {"none", "engine", "joined", "stopped", "ending", "returning", "done"}
RunErr    == {"none", "canceled", "error"}

Init ==
  /\ state = "IDLE"
  /\ outbox = "ACTIVE"
  /\ slipped = FALSE
  /\ control = None
  /\ pc = [o \in Operator |-> "idle"]
  /\ ended = FALSE
  /\ run = "none"
  /\ canceled = FALSE
  /\ runErr = "none"
  /\ stopErr = FALSE
  /\ complete = FALSE

\* Operator o takes workerSessionControlMu and goes to p.
Take(o, p) ==
  /\ control = None
  /\ control' = o
  /\ pc' = [pc EXCEPT ![o] = p]

\* The deferred unlock.
Return(o) ==
  /\ control' = None
  /\ pc' = [pc EXCEPT ![o] = "idle"]

-----------------------------------------------------------------------------
(* Pause and Resume.  A call that finds the factory finished returns its   *)
(* error and changes nothing.                                              *)

\* applyPauseControl; a paused factory is a no-op that pauses the outbox again.
BeginPause(o) ==
  /\ Take(o, "pausing")
  /\ state \notin Finished
  /\ state' = "PAUSED"
  /\ UNCHANGED <<outbox, slipped, ended, running, complete>>

\* Planner.Pause fails when its context is over, or when it is stopped.
PauseOutbox(o, ok) ==
  /\ pc[o] = "pausing"
  /\ outbox' = IF ok /\ outbox # "STOPPED" THEN "PAUSED" ELSE outbox
  /\ slipped' = ~(ok /\ state = "PAUSED")
  /\ Return(o)
  /\ UNCHANGED <<state, ended, running, complete>>

\* Mutation: Resume does not take the control mutex.
BeginResumeUnlocked(o) ==
  /\ pc[o] = "idle"
  /\ control' = o
  /\ pc' = [pc EXCEPT ![o] = "resuming"]
  /\ state \notin Finished
  /\ state' = IF state = "PAUSED" THEN "RUNNING" ELSE state
  /\ UNCHANGED <<outbox, slipped, ended, running, complete>>

\* applyResumeControl; a running or idle factory is a no-op that still resumes
\* the outbox.
BeginResume(o) ==
  /\ Take(o, "resuming")
  /\ state \notin Finished
  /\ state' = IF state = "PAUSED" THEN "RUNNING" ELSE state
  /\ UNCHANGED <<outbox, slipped, ended, running, complete>>

\* Planner.Resume activates the outbox.
Activate(o) ==
  /\ pc[o] = "resuming"
  /\ outbox # "STOPPED"
  /\ outbox' = "ACTIVE"
  /\ pc' = [pc EXCEPT ![o] = "draining"]
  /\ UNCHANGED <<state, slipped, control, ended, running, complete>>

\* Planner.Resume fails at once: its context is over, or it is stopped.
ActivateFails(o) ==
  /\ pc[o] = "resuming"
  /\ slipped' = TRUE
  /\ Return(o)
  /\ UNCHANGED <<state, outbox, ended, running, complete>>

\* Every pending intent was published, or one publication failed and the outbox
\* is paused again.
Drained(o, ok) ==
  /\ pc[o] = "draining"
  /\ outbox' = IF ok \/ outbox = "STOPPED" THEN outbox ELSE "PAUSED"
  /\ slipped' = ~(ok /\ state # "PAUSED")
  /\ Return(o)
  /\ UNCHANGED <<state, ended, running, complete>>

-----------------------------------------------------------------------------
(* ControlTerminate.                                                       *)

\* The state is COMPLETED and the engine run, if there is one, is canceled.
BeginTerminate(o) ==
  /\ Take(o, IF run = "none" THEN "stopping idle" ELSE "joining")
  /\ state \notin Finished
  /\ state' = "COMPLETED"
  /\ canceled' = (canceled \/ run # "none")
  /\ UNCHANGED <<outbox, slipped, ended, run, runErr, stopErr, complete>>

\* Mutation: the outbox is sealed without waiting for the engine.
JoinedEarly(o) ==
  /\ pc[o] = "joining"
  /\ pc' = [pc EXCEPT ![o] = "stopping"]
  /\ UNCHANGED <<lifecycle, control, ended, running, complete>>

\* engineRunDone is closed.
Joined(o) ==
  /\ pc[o] = "joining"
  /\ run # "engine"
  /\ pc' = [pc EXCEPT ![o] = "stopping"]
  /\ UNCHANGED <<lifecycle, control, ended, running, complete>>

\* The context of the call is over first.
JoinGivesUp(o) ==
  /\ pc[o] = "joining"
  /\ Return(o)
  /\ UNCHANGED <<lifecycle, ended, running, complete>>

\* stopDispatchRuntimeLocked seals the outbox, unless it reaches it too late.
Seal(ok) ==
  \/ outbox' = "STOPPED"
  \/ ~ok /\ outbox' = outbox

\* Mutation: nobody closes completeCh for a factory that never ran.
StopRuntimeSilent(o, ok) ==
  /\ pc[o] \in {"stopping", "stopping idle"}
  /\ Seal(ok)
  /\ ended' = (ended \/ ok)
  /\ Return(o)
  /\ UNCHANGED <<state, slipped, running, complete>>

\* Terminate stops the dispatch runtime; completeCh is left to Run if it runs.
StopRuntime(o, ok) ==
  /\ pc[o] \in {"stopping", "stopping idle"}
  /\ Seal(ok)
  /\ complete' = (complete \/ pc[o] = "stopping idle")
  /\ ended' = (ended \/ ok)
  /\ Return(o)
  /\ UNCHANGED <<state, slipped, running>>

-----------------------------------------------------------------------------
(* Run.                                                                    *)

\* A factory that was finished before Run does not run.
RunFinished ==
  /\ run = "none"
  /\ state \in Finished
  /\ run' = "done"
  /\ complete' = TRUE
  /\ UNCHANGED <<lifecycle, controls, canceled, runErr, stopErr>>

\* Mutation: Run starts whatever happened before.
StartRunUnchecked ==
  /\ run = "none"
  /\ state' = "RUNNING"
  /\ run' = "engine"
  /\ slipped' = (slipped \/ state = "PAUSED")
  /\ UNCHANGED <<outbox, controls, canceled, runErr, stopErr, complete>>

\* Run makes the factory RUNNING, also a paused one, whose outbox stays paused.
StartRun ==
  /\ run = "none"
  /\ state \notin Finished
  /\ state' = "RUNNING"
  /\ run' = "engine"
  /\ slipped' = (slipped \/ state = "PAUSED")
  /\ UNCHANGED <<outbox, controls, canceled, runErr, stopErr, complete>>

\* The host cancels the context of Run.
CancelRun ==
  /\ run = "engine"
  /\ ~canceled
  /\ canceled' = TRUE
  /\ UNCHANGED <<lifecycle, controls, run, runErr, stopErr, complete>>

\* engine.Run returns, and engineRunDone is closed.
EngineReturns(e) ==
  /\ run = "engine"
  /\ e = "canceled" => canceled
  /\ run' = "joined"
  /\ runErr' = e
  /\ UNCHANGED <<lifecycle, controls, canceled, stopErr, complete>>

\* stopDispatchRuntime, behind every control call.
RunStops(ok) ==
  /\ run = "joined"
  /\ control = None
  /\ Seal(ok)
  /\ stopErr' = ~ok
  /\ run' = "stopped"
  /\ UNCHANGED <<state, slipped, controls, canceled, runErr, complete>>

\* ReconcileJoinedResults, after a stop without error.
Reconcile(ok) ==
  /\ run = "stopped"
  /\ stopErr => ~ok
  /\ stopErr' = ~ok
  /\ run' = "ending"
  /\ UNCHANGED <<lifecycle, controls, canceled, runErr, complete>>

\* The last state of the run, whatever the controls made of it meanwhile.
EndRun ==
  /\ run = "ending"
  /\ state' = IF runErr \in {"none", "canceled"} /\ ~stopErr THEN "COMPLETED" ELSE "FAILED"
  /\ run' = "returning"
  /\ UNCHANGED <<outbox, slipped, controls, canceled, runErr, stopErr, complete>>

\* The deferred close of completeCh.
RunReturns ==
  /\ run = "returning"
  /\ complete' = TRUE
  /\ run' = "done"
  /\ UNCHANGED <<lifecycle, controls, canceled, runErr, stopErr>>

-----------------------------------------------------------------------------

Begin(o) == BeginPause(o) \/ BeginResume(o) \/ BeginTerminate(o)

ControlStep(o) ==
  \/ Activate(o) \/ ActivateFails(o) \/ Joined(o) \/ JoinGivesUp(o)
  \/ \E ok \in BOOLEAN : PauseOutbox(o, ok) \/ Drained(o, ok) \/ StopRuntime(o, ok)

RunStep ==
  (\E ok \in BOOLEAN : RunStops(ok) \/ Reconcile(ok)) \/ EndRun \/ RunReturns

Next ==
  \/ \E o \in Operator : Begin(o) \/ ControlStep(o)
  \/ RunFinished \/ StartRun \/ CancelRun
  \/ \E e \in RunErr : EngineReturns(e)
  \/ RunStep

Spec == Init /\ [][Next]_vars

(* A control call that holds the mutex runs on (the context of a Terminate *)
(* need not end: then it waits for the engine), a canceled engine run      *)
(* returns, and the rest of Run runs on; Run gets the control mutex in the *)
(* end even if operators keep calling, because a Go mutex is handed over   *)
(* to a goroutine that waits too long.  The host need not call Run, an     *)
(* engine run need not end by itself, and nobody is obliged to control.    *)
Fairness ==
  /\ \A o \in Operator :
       WF_vars(Joined(o) \/ (ControlStep(o) /\ pc[o] # "joining"))
  /\ WF_vars(canceled /\ \E e \in RunErr : EngineReturns(e))
  /\ SF_vars(RunStep)

FairSpec == Spec /\ Fairness

-----------------------------------------------------------------------------
(* Properties.                                                             *)

\* The shape of the state; the control mutex belongs to the one operator whose
\* call is under way.
TypeOK ==
  /\ state \in State
  /\ outbox \in Mode
  /\ control \in Operator \cup {None}
  /\ pc \in [Operator -> ControlPC]
  /\ \A o \in Operator : control = o <=> pc[o] # "idle"
  /\ run \in RunPC
  /\ canceled \in BOOLEAN
  /\ runErr \in RunErr
  /\ stopErr \in BOOLEAN
  /\ complete \in BOOLEAN
  /\ slipped \in BOOLEAN
  /\ ended \in BOOLEAN

\* Between control calls a paused factory does not offer dispatches, and one that
\* runs or waits for Run does not withhold them, except after a control call
\* that failed halfway or a Run of a paused factory.
ControlsAgree ==
  control = None /\ ~slipped =>
    /\ state = "PAUSED" => outbox # "ACTIVE"
    /\ state \in {"IDLE", "RUNNING"} => outbox # "PAUSED"

\* Whoever waits for completion is told so only when the run is over or can no
\* longer begin ("so ControlTerminate cannot complete an idle run that starts
\* afterward", factory.go:635).
CompleteIsOver ==
  complete => run \in {"none", "done"} /\ state \in Finished

\* The outbox is sealed only when no tick can be publishing a dispatch any more
\* ("Join that producer before sealing the outbox", worker_pool.go:666), and a
\* Terminate that returned nil has sealed it for good.
TerminateJoins ==
  /\ outbox = "STOPPED" => run # "engine"
  /\ ended => outbox = "STOPPED" /\ state \in Finished

\* A factory that is finished, by its run or by a Terminate, also one whose Run
\* was never called, completes for those who wait.
FinishedCompletes == state \in Finished ~> complete
=============================================================================
