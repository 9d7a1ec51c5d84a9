----------------------- MODULE RuntimeLifecycleProofs -----------------------
(***************************************************************************)
(* Proofs about RuntimeLifecycle, for any number of operators.             *)
(***************************************************************************)
EXTENDS RuntimeLifecycle, TLAPS

-----------------------------------------------------------------------------
(* Types.                                                                  *)

LEMMA InitType == Init => TypeOK
BY NoneAssumption DEF Init, TypeOK, State, Mode, ControlPC, RunPC, RunErr

\* A control call that begins has the mutex alone; one that returns frees it.
LEMMA TakeType ==
  ASSUME TypeOK, NEW o \in Operator, NEW p \in ControlPC \ {"idle"}, Take(o, p)
  PROVE  /\ control' \in Operator \cup {None}
         /\ pc' \in [Operator -> ControlPC]
         /\ \A q \in Operator : control' = q <=> pc'[q] # "idle"
BY NoneAssumption DEF TypeOK, Take

LEMMA ReturnType ==
  ASSUME TypeOK, NEW o \in Operator, pc[o] # "idle", Return(o)
  PROVE  /\ control' \in Operator \cup {None}
         /\ pc' \in [Operator -> ControlPC]
         /\ \A q \in Operator : control' = q <=> pc'[q] # "idle"
BY NoneAssumption DEF TypeOK, Return, ControlPC

\* Every step of a control call keeps the types.
LEMMA ControlType ==
  ASSUME TypeOK, NEW o \in Operator, Begin(o) \/ ControlStep(o)
  PROVE  TypeOK'
<1> USE DEF TypeOK, lifecycle, running
<1> DEFINE Held == /\ control' \in Operator \cup {None}
                   /\ pc' \in [Operator -> ControlPC]
                   /\ \A q \in Operator : control' = q <=> pc'[q] # "idle"
<1>1. CASE BeginPause(o)
  <2>1. Held
    BY <1>1, TakeType DEF BeginPause, ControlPC
  <2> QED BY <1>1, <2>1 DEF BeginPause, State
<1>2. CASE BeginResume(o)
  <2>1. Held
    BY <1>2, TakeType DEF BeginResume, ControlPC
  <2> QED BY <1>2, <2>1 DEF BeginResume, State
<1>3. CASE BeginTerminate(o)
  <2>1. Held
    BY <1>3, TakeType DEF BeginTerminate, ControlPC
  <2> QED BY <1>3, <2>1 DEF BeginTerminate, State
<1>4. ASSUME NEW ok \in BOOLEAN, PauseOutbox(o, ok) PROVE TypeOK'
  <2>1. Held
    BY <1>4, ReturnType DEF PauseOutbox
  <2> QED BY <1>4, <2>1 DEF PauseOutbox, Mode
<1>5. CASE Activate(o)
  BY <1>5 DEF Activate, Mode, ControlPC
<1>6. CASE ActivateFails(o)
  <2>1. Held
    BY <1>6, ReturnType DEF ActivateFails
  <2> QED BY <1>6, <2>1 DEF ActivateFails
<1>7. ASSUME NEW ok \in BOOLEAN, Drained(o, ok) PROVE TypeOK'
  <2>1. Held
    BY <1>7, ReturnType DEF Drained
  <2> QED BY <1>7, <2>1 DEF Drained, Mode
<1>8. CASE Joined(o)
  BY <1>8 DEF Joined, ControlPC
<1>9. CASE JoinGivesUp(o)
  <2>1. Held
    BY <1>9, ReturnType DEF JoinGivesUp
  <2> QED BY <1>9, <2>1 DEF JoinGivesUp
<1>10. ASSUME NEW ok \in BOOLEAN, StopRuntime(o, ok) PROVE TypeOK'
  <2>1. Held
    BY <1>10, ReturnType DEF StopRuntime
  <2> QED BY <1>10, <2>1 DEF StopRuntime, Seal, Mode
<1> QED BY <1>1, <1>2, <1>3, <1>4, <1>5, <1>6, <1>7, <1>8, <1>9, <1>10 DEF Begin, ControlStep

\* Every step of Run, and of the host, keeps the types.
LEMMA RunType ==
  ASSUME TypeOK, RunFinished \/ StartRun \/ CancelRun \/ (\E e \in RunErr : EngineReturns(e)) \/ RunStep
  PROVE  TypeOK'
<1> USE DEF TypeOK, lifecycle, controls, RunPC
<1>1. CASE RunFinished
  BY <1>1 DEF RunFinished
<1>2. CASE StartRun
  BY <1>2 DEF StartRun, State
<1>3. CASE CancelRun
  BY <1>3 DEF CancelRun
<1>4. ASSUME NEW e \in RunErr, EngineReturns(e) PROVE TypeOK'
  BY <1>4 DEF EngineReturns
<1>5. ASSUME NEW ok \in BOOLEAN, RunStops(ok) PROVE TypeOK'
  BY <1>5 DEF RunStops, Seal, Mode
<1>6. ASSUME NEW ok \in BOOLEAN, Reconcile(ok) PROVE TypeOK'
  BY <1>6 DEF Reconcile
<1>7. CASE EndRun
  BY <1>7 DEF EndRun, State
<1>8. CASE RunReturns
  BY <1>8 DEF RunReturns
<1> QED BY <1>1, <1>2, <1>3, <1>4, <1>5, <1>6, <1>7, <1>8 DEF RunStep

LEMMA StepType == TypeOK /\ [Next]_vars => TypeOK'
<1> SUFFICES ASSUME TypeOK, [Next]_vars PROVE TypeOK'
  OBVIOUS
<1>1. CASE UNCHANGED vars
  BY <1>1 DEF TypeOK, vars, lifecycle, controls, running
<1> QED BY <1>1, ControlType, RunType DEF Next

\* Every reachable state has its type, and the control mutex belongs to the one
\* operator whose call is under way (workerSessionControlMu).
THEOREM TypeCorrect == Spec => []TypeOK
BY InitType, StepType, PTL DEF Spec

-----------------------------------------------------------------------------
(* What holds while a control call or Run is under way.                    *)

PhaseInv ==
  /\ \A o \in Operator :
       /\ pc[o] = "draining" => outbox # "PAUSED"
       /\ pc[o] \in {"joining", "stopping", "stopping idle"} => state \in Finished
       /\ pc[o] = "joining" => run # "none"
       /\ pc[o] = "stopping" => run \notin {"none", "engine"}
       /\ pc[o] = "stopping idle" => run \in {"none", "done"}
  /\ run = "returning" => state \in Finished
  /\ outbox = "STOPPED" /\ run = "none" => state \in Finished

Inv == TypeOK /\ PhaseInv /\ ControlsAgree /\ CompleteIsOver /\ TerminateJoins

LEMMA InitInv == Init => Inv
BY InitType DEF Init, Inv, PhaseInv, ControlsAgree, CompleteIsOver, TerminateJoins, Finished

\* Every step of a control call keeps the invariant: the mutex makes o the only one
\* whose call is under way.
LEMMA ControlInv ==
  ASSUME Inv, NEW o \in Operator, Begin(o) \/ ControlStep(o)
  PROVE  Inv'
<1>1. TypeOK'
  BY ControlType DEF Inv
<1> USE NoneAssumption DEF Inv, TypeOK, PhaseInv, ControlsAgree, CompleteIsOver, TerminateJoins,
                           Finished, lifecycle, running
<1>2. CASE BeginPause(o)
  BY <1>1, <1>2 DEF BeginPause, Take
<1>3. CASE BeginResume(o)
  BY <1>1, <1>3 DEF BeginResume, Take
<1>4. CASE BeginTerminate(o)
  BY <1>1, <1>4 DEF BeginTerminate, Take
<1>5. ASSUME NEW ok \in BOOLEAN, PauseOutbox(o, ok) PROVE Inv'
  BY <1>1, <1>5 DEF PauseOutbox, Return
<1>6. CASE Activate(o)
  BY <1>1, <1>6 DEF Activate
<1>7. CASE ActivateFails(o)
  BY <1>1, <1>7 DEF ActivateFails, Return
<1>8. ASSUME NEW ok \in BOOLEAN, Drained(o, ok) PROVE Inv'
  BY <1>1, <1>8 DEF Drained, Return
<1>9. CASE Joined(o)
  BY <1>1, <1>9 DEF Joined
<1>10. CASE JoinGivesUp(o)
  BY <1>1, <1>10 DEF JoinGivesUp, Return
<1>11. ASSUME NEW ok \in BOOLEAN, StopRuntime(o, ok) PROVE Inv'
  BY <1>1, <1>11 DEF StopRuntime, Return, Seal
<1> QED BY <1>2, <1>3, <1>4, <1>5, <1>6, <1>7, <1>8, <1>9, <1>10, <1>11 DEF Begin, ControlStep

\* Every step of Run, and of the host, keeps the invariant.
LEMMA RunInv ==
  ASSUME Inv, RunFinished \/ StartRun \/ CancelRun \/ (\E e \in RunErr : EngineReturns(e)) \/ RunStep
  PROVE  Inv'
<1>1. TypeOK'
  BY RunType DEF Inv
<1> USE NoneAssumption DEF Inv, TypeOK, PhaseInv, ControlsAgree, CompleteIsOver, TerminateJoins,
                           Finished, lifecycle, controls
<1>2. CASE RunFinished
  BY <1>1, <1>2 DEF RunFinished
<1>3. CASE StartRun
  BY <1>1, <1>3 DEF StartRun, State
<1>4. CASE CancelRun
  BY <1>1, <1>4 DEF CancelRun
<1>5. ASSUME NEW e \in RunErr, EngineReturns(e) PROVE Inv'
  BY <1>1, <1>5 DEF EngineReturns
<1>6. ASSUME NEW ok \in BOOLEAN, RunStops(ok) PROVE Inv'
  BY <1>1, <1>6 DEF RunStops, Seal
<1>7. ASSUME NEW ok \in BOOLEAN, Reconcile(ok) PROVE Inv'
  BY <1>1, <1>7 DEF Reconcile
<1>8. CASE EndRun
  BY <1>1, <1>8 DEF EndRun
<1>9. CASE RunReturns
  BY <1>1, <1>9 DEF RunReturns
<1> QED BY <1>2, <1>3, <1>4, <1>5, <1>6, <1>7, <1>8, <1>9 DEF RunStep

LEMMA StepInv == Inv /\ [Next]_vars => Inv'
<1> SUFFICES ASSUME Inv, [Next]_vars PROVE Inv'
  OBVIOUS
<1>1. CASE UNCHANGED vars
  BY <1>1 DEF Inv, TypeOK, PhaseInv, ControlsAgree, CompleteIsOver, TerminateJoins, vars, lifecycle,
              controls, running
<1> QED BY <1>1, ControlInv, RunInv DEF Next

LEMMA Invariance == Spec => []Inv
BY InitInv, StepInv, PTL DEF Spec

-----------------------------------------------------------------------------

\* Between control calls the factory state and the outbox agree, unless a control
\* failed halfway or Run found the factory paused.
THEOREM StateAndOutboxAgree == Spec => []ControlsAgree
<1>1. Inv => ControlsAgree
  BY DEF Inv
<1> QED BY <1>1, Invariance, PTL

\* Completion is announced only when Run is over or can no longer begin.
THEOREM CompletionIsFinal == Spec => []CompleteIsOver
<1>1. Inv => CompleteIsOver
  BY DEF Inv
<1> QED BY <1>1, Invariance, PTL

\* The outbox is sealed after the engine was joined, and a successful Terminate has
\* sealed it for good.
THEOREM TerminationJoins == Spec => []TerminateJoins
<1>1. Inv => TerminateJoins
  BY DEF Inv
<1> QED BY <1>1, Invariance, PTL
=============================================================================
