------------------------ MODULE DispatchOutboxProofs ------------------------
(***************************************************************************)
(* Proofs about DispatchOutbox for any sets of intents, callers and        *)
(* outcomes and any bound on the attempts counter.                         *)
(***************************************************************************)
EXTENDS DispatchOutbox, TLAPS

\* The two halves of TypeOK: where the threads are, and everything else.
ThreadsOK ==
  /\ pc \in [Thread -> ControlPC]
  /\ \A c \in Caller : pc[c] \in CallerPC
  /\ target \in [Thread -> Intent \cup {None}]
  /\ \A t \in Thread : target[t] = None <=> pc[t] \in Between

DataOK ==
  /\ mode \in Mode
  /\ ordered \in Seq(Intent)
  /\ status \in [Intent -> Status]
  /\ attempts \in [Intent -> 0 .. MaxAttempts]
  /\ result \in [Intent -> Outcome \cup {None}]
  /\ cancelled \in SUBSET Intent
  /\ snapshot \in Seq(Intent)
  /\ next \in Nat \ {0}
  /\ stopOK \in BOOLEAN

LEMMA TypeSplit == TypeOK <=> ThreadsOK /\ DataOK
  BY DEF TypeOK, ThreadsOK, DataOK

LEMMA ThreadFacts == /\ Caller \subseteq Thread
                     /\ Controller \in Thread
                     /\ Controller \notin Caller
                     /\ \A t \in Thread : t # Controller => t \in Caller
  BY ControllerAssumption DEF Thread

LEMMA TargetFacts ==
  ASSUME ThreadsOK, NEW t \in Thread, pc[t] \notin Between
  PROVE  target[t] \in Intent
  BY DEF ThreadsOK

LEMMA GotoOK ==
  ASSUME ThreadsOK, NEW t \in Thread, NEW p, NEW i,
         p \in ControlPC, t # Controller => p \in CallerPC,
         i \in Intent \cup {None}, i = None <=> p \in Between,
         Goto(t, p, i)
  PROVE  ThreadsOK'
<1>1. pc' = [pc EXCEPT ![t] = p] /\ target' = [target EXCEPT ![t] = i]
  BY DEF Goto
<1>2. pc' \in [Thread -> ControlPC] /\ target' \in [Thread -> Intent \cup {None}]
  BY <1>1 DEF ThreadsOK
<1>3. \A c \in Caller : pc'[c] \in CallerPC
  BY <1>1, ThreadFacts DEF ThreadsOK
<1>4. \A u \in Thread : target'[u] = None <=> pc'[u] \in Between
  BY <1>1 DEF ThreadsOK
<1>5. QED
  BY <1>2, <1>3, <1>4 DEF ThreadsOK

LEMMA ReturnedOK ==
  ASSUME ThreadsOK, NEW t \in Thread, NEW ok \in BOOLEAN,
         pc[t] \notin Between, Returned(t, ok)
  PROVE  ThreadsOK'
<1>1. CASE t # Controller
  <2>1. Goto(t, "idle", None)
    BY <1>1 DEF Returned
  <2>2. QED
    BY <2>1, GotoOK DEF CallerPC, ControlPC, Between
<1>2. CASE t = Controller /\ ok
  <2>1. Goto(t, "drain", None)
    BY <1>2 DEF Returned
  <2>2. QED
    BY <1>2, <2>1, GotoOK DEF ControlPC, Between
<1>3. CASE t = Controller /\ ~ok
  <2>1. Goto(t, "repause", target[t])
    BY <1>3 DEF Returned
  <2>2. target[t] \in Intent
    BY TargetFacts
  <2>3. QED
    BY <1>3, <2>1, <2>2, GotoOK, NoneAssumption DEF ControlPC, Between
<1>4. QED
  BY <1>1, <1>2, <1>3

\* No action takes a thread to a place it cannot be in.
LEMMA ThreadsStep == ThreadsOK /\ DataOK /\ [Next]_vars => ThreadsOK'
<1> SUFFICES ASSUME ThreadsOK, DataOK, [Next]_vars PROVE ThreadsOK'
  OBVIOUS
<1> USE NoneAssumption DEF CallerPC, ControlPC, Between
<1>a. UNCHANGED <<pc, target>> => ThreadsOK'
  BY DEF ThreadsOK
<1>b. Controller \in Thread /\ Caller \subseteq Thread /\ Controller \notin Caller
  BY ThreadFacts
<1>c. ASSUME pc[Controller] \notin {"idle", "drain", "cancel"}
      PROVE target[Controller] \in Intent
  BY <1>b, <1>c, TargetFacts
<1>d. ASSUME next <= Len(snapshot) PROVE snapshot[next] \in Intent
  BY <1>d DEF DataOK
<1>1. ASSUME NEW c \in Caller, NEW i \in Intent, Publish(c, i) PROVE ThreadsOK'
  <2>1. CASE Goto(c, "enter", i)
    BY <1>b, <2>1, GotoOK
  <2>2. QED
    BY <1>1, <1>a, <2>1 DEF Publish
<1>2. ASSUME NEW c \in Caller, NEW i \in Intent, Retry(c, i) PROVE ThreadsOK'
  <2>1. Goto(c, "enter", i)
    BY <1>2 DEF Retry
  <2>2. QED
    BY <1>b, <2>1, GotoOK
<1>3. ASSUME NEW t \in Thread, BeginCall(t) PROVE ThreadsOK'
  <2>1. pc[t] = "enter" /\ Goto(t, "calling", target[t])
    BY <1>3 DEF BeginCall
  <2>2. target[t] \in Intent
    BY <2>1, TargetFacts
  <2>3. QED
    BY <2>1, <2>2, GotoOK
<1>4. ASSUME NEW t \in Thread, SkipCall(t) PROVE ThreadsOK'
  <2>1. PICK ok \in BOOLEAN : pc[t] = "enter" /\ Returned(t, ok)
    BY <1>4 DEF SkipCall
  <2>2. QED
    BY <2>1, ReturnedOK
<1>5. ASSUME NEW t \in Thread, NEW ok \in BOOLEAN, EndCall(t, ok) PROVE ThreadsOK'
  <2>1. pc[t] = "calling" /\ Returned(t, ok)
    BY <1>5 DEF EndCall
  <2>2. QED
    BY <2>1, ReturnedOK
<1>6. ASSUME NEW i \in Intent, NEW r \in Outcome, Retire(i, r) PROVE ThreadsOK'
  BY <1>6, <1>a DEF Retire
<1>7. CASE Pause
  BY <1>7, <1>a DEF Pause
<1>8. CASE Resume
  <2>1. Goto(Controller, "drain", None)
    BY <1>8 DEF Resume
  <2>2. QED
    BY <1>b, <2>1, GotoOK
<1>9. CASE Stop
  <2>1. Goto(Controller, "cancel", None)
    BY <1>9 DEF Stop
  <2>2. QED
    BY <1>b, <2>1, GotoOK
<1>10. CASE Drain
  <2>1. CASE next <= Len(snapshot) /\ Goto(Controller, "enter", snapshot[next])
    BY <1>b, <1>d, <2>1, GotoOK
  <2>2. CASE Goto(Controller, "idle", None)
    BY <1>b, <2>2, GotoOK
  <2>3. QED
    BY <1>10, <2>1, <2>2 DEF Drain
<1>11. ASSUME \/ Repause
              \/ AwaitTimeout
              \/ EndStop
       PROVE ThreadsOK'
  <2>1. Goto(Controller, "idle", None)
    BY <1>11 DEF Repause, AwaitTimeout, EndStop
  <2>2. QED
    BY <1>b, <2>1, GotoOK
<1>12. CASE CancelNext
  <2>1. next <= Len(snapshot)
    BY <1>12 DEF CancelNext
  <2>2. CASE Goto(Controller, "await", snapshot[next])
    BY <1>b, <1>d, <2>1, <2>2, GotoOK
  <2>3. CASE Goto(Controller, "request", snapshot[next])
    BY <1>b, <1>d, <2>1, <2>3, GotoOK
  <2>4. QED
    BY <1>12, <1>a, <2>2, <2>3 DEF CancelNext
<1>13. CASE AwaitCall
  <2>1. target[Controller] \in Intent
    BY <1>13, <1>c DEF AwaitCall
  <2>2. CASE Goto(Controller, "request", target[Controller])
    BY <1>b, <2>1, <2>2, GotoOK
  <2>3. CASE Goto(Controller, "cancel", None)
    BY <1>b, <2>3, GotoOK
  <2>4. QED
    BY <1>13, <2>2, <2>3 DEF AwaitCall
<1>14. CASE RequestCancel
  <2>1. target[Controller] \in Intent
    BY <1>14, <1>c DEF RequestCancel
  <2>2. CASE Goto(Controller, "canceling", target[Controller])
    BY <1>b, <2>1, <2>2, GotoOK
  <2>3. CASE Goto(Controller, "cancel", None)
    BY <1>b, <2>3, GotoOK
  <2>4. QED
    BY <1>14, <2>2, <2>3 DEF RequestCancel
<1>15. ASSUME NEW ok \in BOOLEAN, EndCancel(ok) PROVE ThreadsOK'
  <2>1. CASE Goto(Controller, "cancel", None)
    BY <1>b, <2>1, GotoOK
  <2>2. CASE Goto(Controller, "idle", None)
    BY <1>b, <2>2, GotoOK
  <2>3. QED
    BY <1>15, <2>1, <2>2 DEF EndCancel
<1>16. CASE UNCHANGED vars
  BY <1>16, <1>a DEF vars
<1>17. QED
  BY <1>1, <1>2, <1>3, <1>4, <1>5, <1>6, <1>7, <1>8, <1>9, <1>10, <1>11, <1>12,
     <1>13, <1>14, <1>15, <1>16
     DEF Next, PublishStep, ControlStep, StopStep

\* No action stores a value of another shape in the planner's state.
LEMMA DataStep == ThreadsOK /\ DataOK /\ [Next]_vars => DataOK'
<1> SUFFICES ASSUME ThreadsOK, DataOK, [Next]_vars PROVE DataOK'
  OBVIOUS
<1> USE AttemptsAssumption DEF Mode, Status
<1>a. UNCHANGED <<planner, control>> => DataOK'
  BY DEF DataOK, planner, control
<1>1. ASSUME NEW c \in Caller, NEW i \in Intent, Publish(c, i) PROVE DataOK'
  BY <1>1 DEF Publish, DataOK, control
<1>2. ASSUME NEW c \in Caller, NEW i \in Intent, Retry(c, i) PROVE DataOK'
  BY <1>2, <1>a DEF Retry
<1>3. ASSUME NEW t \in Thread, BeginCall(t) PROVE DataOK'
  <2>1. target[t] \in Intent
    BY <1>3, TargetFacts DEF BeginCall, Between
  <2>2. attempts' \in [Intent -> 0 .. MaxAttempts]
    BY <1>3, <2>1 DEF BeginCall, DataOK
  <2>3. status' \in [Intent -> Status]
    BY <1>3, <2>1 DEF BeginCall, DataOK
  <2>4. QED
    BY <1>3, <2>2, <2>3 DEF BeginCall, DataOK, control
<1>4. ASSUME NEW t \in Thread, SkipCall(t) PROVE DataOK'
  BY <1>4, <1>a DEF SkipCall
<1>5. ASSUME NEW t \in Thread, NEW ok \in BOOLEAN, EndCall(t, ok) PROVE DataOK'
  <2>1. status' \in [Intent -> Status]
    BY <1>5 DEF EndCall, DataOK
  <2>2. QED
    BY <1>5, <2>1 DEF EndCall, DataOK, control
<1>6. ASSUME NEW i \in Intent, NEW r \in Outcome, Retire(i, r) PROVE DataOK'
  BY <1>6 DEF Retire, DataOK, control
<1>7. CASE Pause
  BY <1>7 DEF Pause, DataOK, control
<1>8. CASE Resume \/ Stop
  BY <1>8 DEF Resume, Stop, DataOK
<1>9. CASE Drain
  BY <1>9 DEF Drain, DataOK, planner
<1>10. CASE Repause
  BY <1>10 DEF Repause, DataOK, control
<1>11. CASE CancelNext
  BY <1>11 DEF CancelNext, DataOK, planner
<1>12. CASE AwaitCall \/ AwaitTimeout \/ RequestCancel
  BY <1>12, <1>a DEF AwaitCall, AwaitTimeout, RequestCancel
<1>13. ASSUME NEW ok \in BOOLEAN, EndCancel(ok) PROVE DataOK'
  <2>1. target[Controller] \in Intent
    BY <1>13, TargetFacts, ThreadFacts DEF EndCancel, Between
  <2>2. QED
    BY <1>13, <2>1 DEF EndCancel, DataOK, control
<1>14. CASE EndStop
  BY <1>14 DEF EndStop, DataOK, planner
<1>15. CASE UNCHANGED vars
  BY <1>15, <1>a DEF vars
<1>16. QED
  BY <1>1, <1>2, <1>3, <1>4, <1>5, <1>6, <1>7, <1>8, <1>9, <1>10, <1>11, <1>12,
     <1>13, <1>14, <1>15
     DEF Next, PublishStep, ControlStep, StopStep

LEMMA TypeStep == TypeOK /\ [Next]_vars => TypeOK'
<1>1. TypeOK => ThreadsOK /\ DataOK
  BY TypeSplit
<1>2. ThreadsOK' /\ DataOK' => TypeOK'
  BY DEF TypeOK, ThreadsOK, DataOK
<1>3. QED
  BY <1>1, <1>2, ThreadsStep, DataStep

LEMMA TypeInit == Init => TypeOK
<1> SUFFICES ASSUME Init PROVE TypeOK
  OBVIOUS
<1>1. << >> \in Seq(Intent)
  OBVIOUS
<1>2. 0 \in 0 .. MaxAttempts
  BY AttemptsAssumption
<1>3. DataOK
  <2>1. status \in [Intent -> Status]
    BY DEF Init, Status
  <2>2. attempts \in [Intent -> 0 .. MaxAttempts]
    BY <1>2 DEF Init
  <2>3. result \in [Intent -> Outcome \cup {None}]
    BY DEF Init
  <2>4. ordered \in Seq(Intent) /\ snapshot \in Seq(Intent)
    BY <1>1 DEF Init
  <2>5. mode \in Mode /\ cancelled \in SUBSET Intent /\ next \in Nat \ {0}
    BY DEF Init, Mode
  <2>6. stopOK \in BOOLEAN
    BY Zenon DEF Init
  <2>7. QED
    BY <2>1, <2>2, <2>3, <2>4, <2>5, <2>6 DEF DataOK
<1>4. ThreadsOK
  BY ThreadFacts DEF Init, ThreadsOK, CallerPC, ControlPC, Between
<1>5. QED
  BY <1>3, <1>4, TypeSplit

\* Every reachable state of the outbox has the declared shape.
THEOREM TypeCorrect == Spec => []TypeOK
  BY TypeInit, TypeStep, PTL DEF Spec

-----------------------------------------------------------------------------
(* At most one publisher call per intent.                                  *)

\* What a step that neither begins nor ends a publisher call leaves alone.
SameCalls ==
  \A t \in Thread : /\ pc'[t] = "calling" <=> pc[t] = "calling"
                    /\ pc[t] = "calling" => target'[t] = target[t]

LEMMA GotoSameCalls ==
  ASSUME ThreadsOK, NEW t \in Thread, NEW p, NEW i, Goto(t, p, i),
         p # "calling", pc[t] # "calling"
  PROVE  SameCalls
  BY DEF Goto, ThreadsOK, SameCalls

\* The steps of publish are the only ones that touch a call in flight.
LEMMA OnlyPublishCalls ==
  ASSUME TypeOK, [Next]_vars,
         \A t \in Thread : ~BeginCall(t) /\ \A ok \in BOOLEAN : ~EndCall(t, ok)
  PROVE  SameCalls /\ UNCHANGED attempts
<1> USE TypeSplit, ThreadFacts
<1>a. UNCHANGED <<pc, target>> => SameCalls
  BY DEF SameCalls
<1>1. ASSUME NEW c \in Caller, NEW i \in Intent, Publish(c, i) \/ Retry(c, i)
      PROVE  SameCalls /\ UNCHANGED attempts
  <2>1. pc[c] = "idle" /\ UNCHANGED attempts
    BY <1>1 DEF Publish, Retry, planner
  <2>2. UNCHANGED <<pc, target>> \/ Goto(c, "enter", i)
    BY <1>1 DEF Publish, Retry
  <2>3. QED
    BY <1>a, <2>1, <2>2, GotoSameCalls
<1>2. ASSUME NEW t \in Thread, SkipCall(t) PROVE SameCalls /\ UNCHANGED attempts
  <2>1. pc[t] = "enter" /\ UNCHANGED attempts
    BY <1>2 DEF SkipCall, planner
  <2>2. Goto(t, "idle", None) \/ Goto(t, "drain", None) \/ Goto(t, "repause", target[t])
    BY <1>2 DEF SkipCall, Returned
  <2>3. QED
    BY <2>1, <2>2, GotoSameCalls
<1>3. ASSUME NEW i \in Intent, NEW r \in Outcome, Retire(i, r)
      PROVE  SameCalls /\ UNCHANGED attempts
  BY <1>3, <1>a DEF Retire
<1>4. CASE Pause
  BY <1>4, <1>a DEF Pause
<1>5. CASE Resume \/ Stop
  <2>1. pc[Controller] = "idle" /\ UNCHANGED attempts
    BY <1>5 DEF Resume, Stop
  <2>2. Goto(Controller, "drain", None) \/ Goto(Controller, "cancel", None)
    BY <1>5 DEF Resume, Stop
  <2>3. QED
    BY <2>1, <2>2, GotoSameCalls
<1>6. CASE ControlStep \/ AwaitTimeout
  <2>1. pc[Controller] # "calling" /\ UNCHANGED attempts
    BY <1>6 DEF ControlStep, StopStep, Drain, Repause, CancelNext, AwaitCall, AwaitTimeout,
                RequestCancel, EndCancel, EndStop, planner
  <2>2. UNCHANGED <<pc, target>> \/ \E p, i : p # "calling" /\ Goto(Controller, p, i)
    <3>1. CASE Drain
      BY <3>1 DEF Drain
    <3>2. CASE Repause \/ AwaitTimeout \/ EndStop
      BY <3>2 DEF Repause, AwaitTimeout, EndStop
    <3>3. CASE CancelNext
      BY <3>3 DEF CancelNext
    <3>4. CASE AwaitCall \/ RequestCancel
      BY <3>4 DEF AwaitCall, RequestCancel
    <3>5. ASSUME NEW ok \in BOOLEAN, EndCancel(ok)
          PROVE  \E p, i : p # "calling" /\ Goto(Controller, p, i)
      BY <3>5 DEF EndCancel
    <3>6. QED
      BY <1>6, <3>1, <3>2, <3>3, <3>4, <3>5 DEF ControlStep, StopStep
  <2>3. QED
    BY <1>a, <2>1, <2>2, GotoSameCalls
<1>7. CASE UNCHANGED vars
  BY <1>7, <1>a DEF vars, planner
<1>8. QED
  BY <1>1, <1>2, <1>3, <1>4, <1>5, <1>6, <1>7 DEF Next, PublishStep

\* The status changes of the steps that are not steps of publish.
LEMMA OtherStatus ==
  ASSUME TypeOK, [Next]_vars,
         \A t \in Thread : ~BeginCall(t) /\ \A ok \in BOOLEAN : ~EndCall(t, ok),
         NEW i \in Intent
  PROVE  \/ status'[i] = status[i]
         \/ status[i] = "ABSENT" /\ status'[i] = "PENDING"
         \/ status[i] \in {"PUBLISHED", "PUBLISHING"} /\ status'[i] = "RETIRED"
<1>1. CASE UNCHANGED status
  BY <1>1
<1>2. CASE \E c \in Caller, j \in Intent : Publish(c, j)
  BY <1>2 DEF Publish, TypeOK
<1>3. CASE \E j \in Intent, r \in Outcome : Retire(j, r)
  BY <1>3 DEF Retire, TypeOK
<1>4. QED
  BY <1>1, <1>2, <1>3 DEF Next, PublishStep, Retry, SkipCall, Pause, Resume, Stop, ControlStep,
     StopStep, Drain, Repause, CancelNext, AwaitCall, AwaitTimeout, RequestCancel, EndCancel,
     EndStop, planner, vars

\* OneCallPerIntent, and that a call in flight has been counted as an attempt.
CallsInv ==
  /\ OneCallPerIntent
  /\ \A t \in Thread : pc[t] = "calling" => attempts[target[t]] > 0

LEMMA CallsStep == TypeOK /\ CallsInv /\ [Next]_vars => CallsInv'
<1> SUFFICES ASSUME TypeOK, CallsInv, [Next]_vars PROVE CallsInv'
  OBVIOUS
<1>t. /\ status \in [Intent -> Status] /\ attempts \in [Intent -> 0 .. MaxAttempts]
      /\ pc \in [Thread -> ControlPC] /\ target \in [Thread -> Intent \cup {None}]
  BY DEF TypeOK
<1>c. \A t \in Thread : pc[t] \in {"enter", "calling"} => target[t] \in Intent
  BY TypeSplit, TargetFacts DEF Between
<1>1. ASSUME \A t \in Thread : ~BeginCall(t) /\ \A ok \in BOOLEAN : ~EndCall(t, ok)
      PROVE  CallsInv'
  <2>1. SameCalls /\ UNCHANGED attempts
    BY <1>1, OnlyPublishCalls
  <2>2. \A i \in Intent : \/ status'[i] = status[i]
                          \/ status[i] = "ABSENT" /\ status'[i] = "PENDING"
                          \/ status[i] \in {"PUBLISHED", "PUBLISHING"} /\ status'[i] = "RETIRED"
    BY <1>1, OtherStatus
  <2>3. QED
    BY <1>c, <2>1, <2>2 DEF CallsInv, OneCallPerIntent, InCall, SameCalls
<1>2. ASSUME NEW t \in Thread, BeginCall(t) PROVE CallsInv'
  <2>1. /\ pc[t] = "enter" /\ status[target[t]] = "PENDING"
        /\ pc' = [pc EXCEPT ![t] = "calling"] /\ target' = [target EXCEPT ![t] = target[t]]
        /\ status' = [status EXCEPT ![target[t]] = "PUBLISHING"]
    BY <1>2 DEF BeginCall, Goto
  <2>2. attempts' = [attempts EXCEPT ![target[t]] = IF @ < MaxAttempts THEN @ + 1 ELSE @]
    BY <1>2 DEF BeginCall
  <2>3. target' = target /\ target[t] \in Intent
    BY <1>c, <1>t, <2>1
  <2>4. \A u \in Thread : pc[u] = "calling" => target[u] # target[t]
    BY <2>1 DEF CallsInv, OneCallPerIntent
  <2>5. attempts'[target[t]] > 0 /\ \A i \in Intent \ {target[t]} : attempts'[i] = attempts[i]
    BY <1>t, <2>2, <2>3, AttemptsAssumption
  <2>6. OneCallPerIntent'
    BY <1>t, <1>c, <2>1, <2>3, <2>4 DEF CallsInv, OneCallPerIntent, InCall
  <2>7. \A u \in Thread : pc'[u] = "calling" => attempts'[target'[u]] > 0
    BY <1>t, <1>c, <2>1, <2>3, <2>4, <2>5 DEF CallsInv
  <2>8. QED
    BY <2>6, <2>7 DEF CallsInv
<1>3. ASSUME NEW t \in Thread, NEW ok \in BOOLEAN, EndCall(t, ok) PROVE CallsInv'
  <2>1. /\ pc[t] = "calling" /\ UNCHANGED attempts
        /\ status' = [status EXCEPT ![target[t]] =
                        IF @ = "RETIRED" THEN @ ELSE IF ok THEN "PUBLISHED" ELSE "PENDING"]
    BY <1>3 DEF EndCall
  <2>2. PICK p, i : p # "calling" /\ Goto(t, p, i)
    BY <1>3 DEF EndCall, Returned
  <2>3. /\ pc' = [pc EXCEPT ![t] = p] /\ target' = [target EXCEPT ![t] = i]
    BY <2>2 DEF Goto
  <2>4. \A u \in Thread : pc'[u] = "calling" =>
                            u # t /\ pc[u] = "calling" /\ target'[u] = target[u]
    BY <1>t, <2>2, <2>3
  <2>5. target[t] \in Intent /\ status'[target[t]] # "PUBLISHING"
    BY <1>t, <1>c, <2>1
  <2>6. \A j \in Intent \ {target[t]} : status'[j] = status[j]
    BY <1>t, <2>1
  <2>7. \A u \in Thread \ {t} : pc'[u] = pc[u] /\ target'[u] = target[u]
    BY <1>t, <2>3
  <2>8. QED
    BY <1>c, <2>1, <2>4, <2>5, <2>6, <2>7 DEF CallsInv, OneCallPerIntent, InCall
<1>4. QED
  BY <1>1, <1>2, <1>3

LEMMA CallsInit == Init => CallsInv
  BY DEF Init, CallsInv, OneCallPerIntent

\* OneCallPerIntent for any number of callers: no interleaving of Publish, Retry,
\* Resume and results gets two publisher calls for one intent under way.
THEOREM OneCall == Spec => []OneCallPerIntent
<1>1. CallsInv => OneCallPerIntent
  BY DEF CallsInv
<1>2. QED
  BY <1>1, TypeInit, TypeStep, CallsInit, CallsStep, PTL DEF Spec

-----------------------------------------------------------------------------
(* The first terminal result is final.                                     *)

\* A result is stored exactly for the retired intents.
ResultsInv == \A i \in Intent : result[i] # None <=> status[i] = "RETIRED"

LEMMA ResultsStep == TypeOK /\ CallsInv /\ ResultsInv /\ [Next]_vars => ResultsInv'
<1> SUFFICES ASSUME TypeOK, CallsInv, ResultsInv, [Next]_vars, NEW i \in Intent
             PROVE  (result[i] # None <=> status[i] = "RETIRED")'
  BY DEF ResultsInv
<1>t. status \in [Intent -> Status] /\ result \in [Intent -> Outcome \cup {None}]
  BY DEF TypeOK
<1>1. CASE UNCHANGED <<status, result>>
  BY <1>1 DEF ResultsInv
<1>2. ASSUME NEW c \in Caller, NEW j \in Intent, Publish(c, j)
      PROVE  (result[i] # None <=> status[i] = "RETIRED")'
  BY <1>t, <1>2 DEF Publish, ResultsInv
<1>3. ASSUME NEW t \in Thread, BeginCall(t)
      PROVE  (result[i] # None <=> status[i] = "RETIRED")'
  BY <1>t, <1>3 DEF BeginCall, ResultsInv
<1>4. ASSUME NEW t \in Thread, NEW ok \in BOOLEAN, EndCall(t, ok)
      PROVE  (result[i] # None <=> status[i] = "RETIRED")'
  BY <1>t, <1>4 DEF EndCall, ResultsInv
<1>5. ASSUME NEW j \in Intent, NEW r \in Outcome, Retire(j, r)
      PROVE  (result[i] # None <=> status[i] = "RETIRED")'
  BY <1>t, <1>5, NoneAssumption DEF Retire, ResultsInv
<1>6. QED
  BY <1>1, <1>2, <1>3, <1>4, <1>5 DEF Next, PublishStep, Retry, SkipCall, Pause, Resume, Stop,
     ControlStep, StopStep, Drain, Repause, CancelNext, AwaitCall, AwaitTimeout, RequestCancel,
     EndCancel, EndStop, planner, vars

LEMMA ResultsInit == Init => ResultsInv
  BY DEF Init, ResultsInv

LEMMA RetiredStays ==
  ASSUME TypeOK, ResultsInv, [Next]_vars, NEW i \in Intent, result[i] # None
  PROVE  result'[i] = result[i] /\ status'[i] = "RETIRED"
<1>t. status \in [Intent -> Status] /\ result \in [Intent -> Outcome \cup {None}]
  BY DEF TypeOK
<1>r. status[i] = "RETIRED"
  BY DEF ResultsInv
<1>1. CASE UNCHANGED <<status, result>>
  BY <1>r, <1>1
<1>2. ASSUME NEW c \in Caller, NEW j \in Intent, Publish(c, j)
      PROVE  result'[i] = result[i] /\ status'[i] = "RETIRED"
  BY <1>t, <1>r, <1>2 DEF Publish
<1>3. ASSUME NEW t \in Thread, BeginCall(t)
      PROVE  result'[i] = result[i] /\ status'[i] = "RETIRED"
  BY <1>t, <1>r, <1>3 DEF BeginCall
<1>4. ASSUME NEW t \in Thread, NEW ok \in BOOLEAN, EndCall(t, ok)
      PROVE  result'[i] = result[i] /\ status'[i] = "RETIRED"
  BY <1>t, <1>r, <1>4 DEF EndCall
<1>5. ASSUME NEW j \in Intent, NEW r \in Outcome, Retire(j, r)
      PROVE  result'[i] = result[i] /\ status'[i] = "RETIRED"
  BY <1>t, <1>r, <1>5 DEF Retire
<1>6. QED
  BY <1>1, <1>2, <1>3, <1>4, <1>5 DEF Next, PublishStep, Retry, SkipCall, Pause, Resume, Stop,
     ControlStep, StopStep, Drain, Repause, CancelNext, AwaitCall, AwaitTimeout, RequestCancel,
     EndCancel, EndStop, planner, vars

\* FirstResultWins for any number of intents, results and callers.
THEOREM FirstResultIsFinal == Spec => FirstResultWins
<1>1. TypeOK /\ ResultsInv /\ [Next]_vars =>
        [\A i \in Intent : result[i] # None =>
            result'[i] = result[i] /\ status'[i] = "RETIRED"]_vars
  BY RetiredStays
<1>2. QED
  BY <1>1, TypeInit, TypeStep, CallsInit, CallsStep, ResultsInit, ResultsStep, PTL
     DEF Spec, FirstResultWins

-----------------------------------------------------------------------------
(* A Stop that returned nil left nothing running.                          *)

\* Every accepted intent is in the ordered list that Resume and Stop copy.
AcceptedInv ==
  \A i \in Intent : status[i] # "ABSENT" => \E n \in 1 .. Len(ordered) : ordered[n] = i

LEMMA AcceptedStep == TypeOK /\ CallsInv /\ AcceptedInv /\ [Next]_vars => AcceptedInv'
<1> SUFFICES ASSUME TypeOK, CallsInv, AcceptedInv, [Next]_vars PROVE AcceptedInv'
  OBVIOUS
<1>t. status \in [Intent -> Status] /\ ordered \in Seq(Intent)
  BY DEF TypeOK
<1>1. ASSUME NEW c \in Caller, NEW j \in Intent, Publish(c, j) PROVE AcceptedInv'
  <2>1. ordered' = Append(ordered, j) /\ status' = [status EXCEPT ![j] = "PENDING"]
    BY <1>1 DEF Publish
  <2>2. /\ Len(ordered') = Len(ordered) + 1 /\ Len(ordered) \in Nat
        /\ ordered'[Len(ordered) + 1] = j
        /\ \A n \in 1 .. Len(ordered) : ordered'[n] = ordered[n]
    BY <1>t, <2>1
  <2>3. QED
    BY <1>t, <2>1, <2>2 DEF AcceptedInv
<1>2. ASSUME UNCHANGED ordered,
             \A i \in Intent : status'[i] # "ABSENT" => status[i] # "ABSENT"
      PROVE  AcceptedInv'
  BY <1>2 DEF AcceptedInv
<1>3. ASSUME NEW t \in Thread, BeginCall(t) PROVE AcceptedInv'
  BY <1>t, <1>2, <1>3 DEF BeginCall
<1>4. ASSUME NEW t \in Thread, NEW ok \in BOOLEAN, EndCall(t, ok) PROVE AcceptedInv'
  BY <1>t, <1>2, <1>4 DEF EndCall, CallsInv, OneCallPerIntent
<1>5. ASSUME NEW j \in Intent, NEW r \in Outcome, Retire(j, r) PROVE AcceptedInv'
  BY <1>t, <1>2, <1>5 DEF Retire
<1>6. CASE UNCHANGED <<ordered, status>>
  BY <1>2, <1>6
<1>7. QED
  BY <1>1, <1>3, <1>4, <1>5, <1>6 DEF Next, PublishStep, Retry, SkipCall, Pause, Resume, Stop,
     ControlStep, StopStep, Drain, Repause, CancelNext, AwaitCall, AwaitTimeout, RequestCancel,
     EndCancel, EndStop, planner, vars

\* Nothing of intent i is left running.
Settled(i) == status[i] # "PUBLISHING" /\ (status[i] = "PUBLISHED" => i \in cancelled)

\* A stopped outbox stays stopped, accepts nothing and starts nothing.
LEMMA StoppedStable ==
  ASSUME TypeOK, CallsInv, [Next]_vars, mode = "STOPPED"
  PROVE  /\ mode' = "STOPPED"
         /\ \A i \in Intent : /\ Settled(i) => Settled(i)'
                              /\ status[i] # "PUBLISHING" => status'[i] # "PUBLISHING"
                              /\ status[i] = "ABSENT" => status'[i] = "ABSENT"
<1> DEFINE Stable == /\ mode' = "STOPPED"
                     /\ \A i \in Intent : /\ Settled(i) => Settled(i)'
                                          /\ status[i] # "PUBLISHING" => status'[i] # "PUBLISHING"
                                          /\ status[i] = "ABSENT" => status'[i] = "ABSENT"
<1>t. status \in [Intent -> Status] /\ mode \in Mode
  BY DEF TypeOK
<1>1. ASSUME mode' = mode, UNCHANGED status, cancelled \subseteq cancelled' PROVE Stable
  BY <1>1 DEF Settled
<1>2. ASSUME NEW t \in Thread, NEW ok \in BOOLEAN, EndCall(t, ok) PROVE Stable
  BY <1>t, <1>2 DEF EndCall, Settled, CallsInv, OneCallPerIntent
<1>3. ASSUME NEW j \in Intent, NEW r \in Outcome, Retire(j, r) PROVE Stable
  BY <1>t, <1>3 DEF Retire, Settled
<1>4. ASSUME NEW ok \in BOOLEAN, EndCancel(ok) PROVE Stable
  BY <1>1, <1>4 DEF EndCancel
<1>5. CASE Stop \/ Repause
  BY <1>1, <1>5 DEF Stop, Repause
<1>6. CASE UNCHANGED <<mode, status, cancelled>>
  BY <1>1, <1>6
<1>7. Stable
  BY <1>2, <1>3, <1>4, <1>5, <1>6 DEF Next, PublishStep, Publish, BeginCall, Retry, SkipCall, Pause,
     Resume, ControlStep, StopStep, Drain, CancelNext, AwaitCall, AwaitTimeout,
     RequestCancel, EndStop, planner, vars
<1>8. QED
  BY <1>7

\* The program points of Stop; those at which it is busy with its target.
Stopping == {"cancel", "await", "request", "canceling"}
Handling == {"await", "request", "canceling"}

\* Stop works through a copy that holds every accepted intent and leaves each
\* one settled behind it.
StopInv ==
  /\ stopOK => mode = "STOPPED"
  /\ pc[Controller] \in Stopping =>
       /\ mode = "STOPPED"
       /\ \A i \in Intent : status[i] # "ABSENT" => \E n \in 1 .. Len(snapshot) : snapshot[n] = i
       /\ \A n \in 1 .. Len(snapshot) :
            n < next => \/ Settled(snapshot[n])
                        \/ pc[Controller] \in Handling /\ target[Controller] = snapshot[n]
  /\ pc[Controller] \in {"request", "canceling"} => status[target[Controller]] # "PUBLISHING"
  /\ StopLeavesNothingRunning

LEMMA StopInit == Init => StopInv /\ AcceptedInv
  BY ThreadFacts DEF Init, StopInv, AcceptedInv, Stopping, StopLeavesNothingRunning

\* A step that leaves the Controller where it is.
LEMMA StopFrame ==
  ASSUME TypeOK, CallsInv, StopInv, [Next]_vars,
         pc'[Controller] = pc[Controller], target'[Controller] = target[Controller],
         UNCHANGED control
  PROVE  StopInv'
<1> USE DEF control
<1>t. snapshot \in Seq(Intent) /\ target \in [Thread -> Intent \cup {None}] /\ Controller \in Thread
      /\ next \in Nat
  BY ThreadFacts DEF TypeOK
<1>0. pc[Controller] \in Handling => target[Controller] \in Intent
  BY TypeSplit, TargetFacts, <1>t DEF Handling, Between
<1>n. \A n \in 1 .. Len(snapshot) : snapshot[n] \in Intent
  BY <1>t
<1>1. CASE mode = "STOPPED"
  <2>1. /\ mode' = "STOPPED"
        /\ \A i \in Intent : /\ Settled(i) => Settled(i)'
                             /\ status[i] # "PUBLISHING" => status'[i] # "PUBLISHING"
                             /\ status[i] = "ABSENT" => status'[i] = "ABSENT"
    BY <1>1, StoppedStable
  <2>2. StopLeavesNothingRunning'
    BY <2>1 DEF StopInv, StopLeavesNothingRunning, Settled
  <2>3. pc'[Controller] \in {"request", "canceling"} => status'[target'[Controller]] # "PUBLISHING"
    BY <1>0, <2>1 DEF StopInv, Handling
  <2>4. \A n \in 1 .. Len(snapshot) : Settled(snapshot[n]) => Settled(snapshot[n])'
    BY <1>n, <2>1 DEF Settled
  <2>5. QED
    BY <2>1, <2>2, <2>3, <2>4 DEF StopInv
<1>2. CASE mode # "STOPPED"
  BY <1>2 DEF StopInv, Stopping, StopLeavesNothingRunning
<1>3. QED
  BY <1>1, <1>2

LEMMA StopStepInv ==
  TypeOK /\ CallsInv /\ ResultsInv /\ AcceptedInv /\ StopInv /\ [Next]_vars => StopInv'
<1> SUFFICES ASSUME TypeOK, CallsInv, ResultsInv, AcceptedInv, StopInv, [Next]_vars
             PROVE  StopInv'
  OBVIOUS
<1> USE DEF Stopping, Handling
<1>t. /\ pc \in [Thread -> ControlPC] /\ target \in [Thread -> Intent \cup {None}]
      /\ snapshot \in Seq(Intent) /\ next \in Nat \ {0} /\ Controller \in Thread
      /\ Caller \subseteq Thread /\ Controller \notin Caller
  BY ThreadFacts DEF TypeOK
<1>c. pc[Controller] \notin {"idle", "drain", "cancel"} => target[Controller] \in Intent
  BY TypeSplit, TargetFacts, <1>t DEF Between
<1>g. ASSUME NEW p, NEW i, Goto(Controller, p, i)
      PROVE  pc'[Controller] = p /\ target'[Controller] = i
  BY <1>t, <1>g DEF Goto
<1>n. \A n \in 1 .. Len(snapshot) : snapshot[n] \in Intent
  BY <1>t
\* Leaving for a point outside Stop.
<1>q. ASSUME pc'[Controller] \notin Stopping, stopOK' = stopOK,
             stopOK => mode' = "STOPPED" /\ StopLeavesNothingRunning'
      PROVE  StopInv'
  BY <1>q DEF StopInv, StopLeavesNothingRunning
<1>s. stopOK => mode' = "STOPPED" /\ (stopOK' = stopOK => StopLeavesNothingRunning')
  BY StoppedStable DEF StopInv, StopLeavesNothingRunning, Settled
<1>1. ASSUME NEW t \in Thread \ {Controller}, NEW p, NEW i, Goto(t, p, i), UNCHANGED control
      PROVE  StopInv'
  <2>1. pc'[Controller] = pc[Controller] /\ target'[Controller] = target[Controller]
    BY <1>t, <1>1 DEF Goto
  <2>2. QED
    BY <1>1, <2>1, StopFrame
<1>2. ASSUME UNCHANGED <<pc, target, control>> PROVE StopInv'
  BY <1>2, StopFrame
<1>3. ASSUME NEW c \in Caller, NEW i \in Intent, Publish(c, i) \/ Retry(c, i) PROVE StopInv'
  BY <1>t, <1>1, <1>2, <1>3 DEF Publish, Retry
<1>4. ASSUME NEW t \in Thread, t # Controller, PublishStep(t) PROVE StopInv'
  BY <1>1, <1>4 DEF PublishStep, BeginCall, SkipCall, EndCall, Returned
<1>5. CASE PublishStep(Controller)
  <2>1. /\ pc[Controller] \in {"enter", "calling"} /\ UNCHANGED control
        /\ \E p \in {"calling", "drain", "repause"} : \E i : Goto(Controller, p, i)
    BY <1>5 DEF PublishStep, BeginCall, SkipCall, EndCall, Returned
  <2>2. pc'[Controller] \notin Stopping
    BY <2>1, <1>g
  <2>3. QED
    BY <1>q, <1>s, <2>1, <2>2 DEF control
<1>6. ASSUME NEW i \in Intent, NEW r \in Outcome, Retire(i, r) PROVE StopInv'
  BY <1>2, <1>6 DEF Retire
<1>7. CASE Pause
  BY <1>2, <1>7 DEF Pause
<1>8. CASE Resume \/ Drain \/ Repause \/ AwaitTimeout
  <2>1. /\ UNCHANGED stopOK
        /\ \E p \in {"drain", "enter", "idle"} : \E i : Goto(Controller, p, i)
    BY <1>8 DEF Resume, Drain, Repause, AwaitTimeout, control
  <2>2. pc'[Controller] \notin Stopping
    BY <2>1, <1>g
  <2>3. QED
    BY <1>q, <1>s, <2>1, <2>2
<1>9. CASE Stop
  <2>1. /\ pc'[Controller] = "cancel" /\ mode' = "STOPPED" /\ snapshot' = ordered /\ next' = 1
        /\ UNCHANGED <<ordered, status, cancelled, stopOK>>
    BY <1>9, <1>g DEF Stop
  <2>2. \A i \in Intent : status'[i] # "ABSENT" => \E n \in 1 .. Len(snapshot') : snapshot'[n] = i
    BY <2>1 DEF AcceptedInv
  <2>3. \A n \in 1 .. Len(snapshot') : ~(n < next')
    BY <2>1
  <2>4. StopLeavesNothingRunning'
    BY <2>1 DEF StopInv, StopLeavesNothingRunning
  <2>5. QED
    BY <2>1, <2>2, <2>3, <2>4 DEF StopInv
\* The steps within Stop: the copy stays, and so does what is settled.
<1>10. ASSUME pc[Controller] \in Stopping, pc'[Controller] \in Stopping, UNCHANGED <<snapshot, stopOK>>,
              pc'[Controller] \in {"request", "canceling"} => status'[target'[Controller]] # "PUBLISHING",
              \A n \in 1 .. Len(snapshot) :
                n < next' => \/ Settled(snapshot[n])'
                             \/ pc'[Controller] \in Handling /\ target'[Controller] = snapshot[n]
       PROVE  StopInv'
  <2>1. mode' = "STOPPED" /\ \A i \in Intent : status[i] = "ABSENT" => status'[i] = "ABSENT"
    BY <1>10, StoppedStable DEF StopInv
  <2>2. \A i \in Intent : status'[i] # "ABSENT" => \E n \in 1 .. Len(snapshot') : snapshot'[n] = i
    BY <1>10, <2>1 DEF StopInv
  <2>3. StopLeavesNothingRunning'
    BY <1>10, <1>s DEF StopLeavesNothingRunning
  <2>4. QED
    BY <1>10, <2>1, <2>2, <2>3 DEF StopInv
<1>d. ASSUME pc[Controller] \in Stopping, UNCHANGED snapshot
      PROVE  \A n \in 1 .. Len(snapshot) : Settled(snapshot[n]) => Settled(snapshot[n])'
  <2>1. mode = "STOPPED"
    BY <1>d DEF StopInv
  <2>2. \A i \in Intent : Settled(i) => Settled(i)'
    BY <2>1, StoppedStable
  <2>3. QED
    BY <1>d, <1>n, <2>2 DEF Settled
<1>11. CASE CancelNext
  <2> DEFINE i == snapshot[next]
  <2>1. /\ pc[Controller] = "cancel" /\ next \in 1 .. Len(snapshot) /\ i \in Intent
        /\ next' = next + 1 /\ UNCHANGED <<snapshot, stopOK, status, cancelled>>
    BY <1>t, <1>n, <1>11 DEF CancelNext, planner
  <2>2. \/ pc'[Controller] = "await" /\ target'[Controller] = i
        \/ pc'[Controller] = "request" /\ target'[Controller] = i /\ status[i] = "PUBLISHED"
        \/ pc'[Controller] = "cancel" /\ status[i] \notin {"PUBLISHING", "PUBLISHED"}
    BY <1>g, <1>11, <2>1 DEF CancelNext
  <2>3. \A n \in 1 .. Len(snapshot) : n < next' => n < next \/ n = next
    BY <1>t, <2>1
  <2>4. \A n \in 1 .. Len(snapshot) : n < next => Settled(snapshot[n])'
    BY <1>d, <2>1 DEF StopInv
  <2>5. QED
    BY <1>10, <2>1, <2>2, <2>3, <2>4 DEF Settled
<1>12. CASE AwaitCall
  <2>1. /\ pc[Controller] = "await" /\ ~InCall(target[Controller]) /\ target[Controller] \in Intent
        /\ UNCHANGED <<snapshot, stopOK, status, cancelled, next>>
    BY <1>c, <1>12 DEF AwaitCall, planner, control
  <2>2. status[target[Controller]] # "PUBLISHING"
    BY <2>1 DEF CallsInv, OneCallPerIntent
  <2>3. \/ /\ pc'[Controller] = "request" /\ target'[Controller] = target[Controller]
           /\ status[target[Controller]] = "PUBLISHED"
        \/ pc'[Controller] = "cancel" /\ status[target[Controller]] # "PUBLISHED"
    BY <1>g, <1>12 DEF AwaitCall
  <2>4. QED
    BY <1>10, <1>d, <2>1, <2>2, <2>3 DEF StopInv, Settled
<1>13. CASE RequestCancel
  <2>1. /\ pc[Controller] = "request" /\ target[Controller] \in Intent
        /\ UNCHANGED <<snapshot, stopOK, status, cancelled, next>>
    BY <1>c, <1>13 DEF RequestCancel, planner, control
  <2>2. \/ pc'[Controller] = "canceling" /\ target'[Controller] = target[Controller]
        \/ /\ pc'[Controller] = "cancel"
           /\ target[Controller] \in cancelled \/ result[target[Controller]] # None
    BY <1>g, <1>13 DEF RequestCancel
  <2>3. status[target[Controller]] # "PUBLISHING"
    BY <2>1 DEF StopInv
  <2>4. QED
    BY <1>10, <1>d, <2>1, <2>2, <2>3 DEF StopInv, Settled, ResultsInv
<1>14. ASSUME NEW ok \in BOOLEAN, EndCancel(ok) PROVE StopInv'
  <2>1. /\ pc[Controller] = "canceling" /\ target[Controller] \in Intent
        /\ UNCHANGED <<snapshot, stopOK, status, next>>
    BY <1>c, <1>14 DEF EndCancel, control
  <2>2. status[target[Controller]] # "PUBLISHING"
    BY <2>1 DEF StopInv
  <2>3. CASE ok
    <3>1. pc'[Controller] = "cancel" /\ cancelled' = cancelled \cup {target[Controller]}
      BY <1>g, <1>14, <2>3 DEF EndCancel
    <3>2. QED
      BY <1>10, <1>d, <2>1, <2>2, <3>1 DEF StopInv, Settled
  <2>4. CASE ~ok
    <3>1. pc'[Controller] = "idle"
      BY <1>g, <1>14, <2>4 DEF EndCancel
    <3>2. QED
      BY <1>q, <1>s, <2>1, <3>1
  <2>5. QED
    BY <2>3, <2>4
<1>15. CASE EndStop
  <2>1. /\ pc[Controller] = "cancel" /\ pc'[Controller] = "idle" /\ next > Len(snapshot)
        /\ UNCHANGED <<mode, status, cancelled, snapshot>>
    BY <1>g, <1>15 DEF EndStop, planner
  <2>2. \A n \in 1 .. Len(snapshot) : Settled(snapshot[n])
    BY <1>t, <2>1 DEF StopInv
  <2>3. \A i \in Intent : Settled(i)
    BY <2>1, <2>2 DEF StopInv, Settled
  <2>4. mode' = "STOPPED"
    BY <2>1 DEF StopInv
  <2>5. QED
    BY <2>1, <2>3, <2>4 DEF StopInv, Settled, StopLeavesNothingRunning
<1>16. CASE UNCHANGED vars
  BY <1>2, <1>16 DEF vars
<1>17. QED
  BY <1>3, <1>4, <1>5, <1>6, <1>7, <1>8, <1>9, <1>11, <1>12, <1>13, <1>14, <1>15, <1>16
     DEF Next, ControlStep, StopStep

\* StopLeavesNothingRunning for any number of intents and callers.
THEOREM StopSettles == Spec => []StopLeavesNothingRunning
<1>1. StopInv => StopLeavesNothingRunning
  BY DEF StopInv
<1>2. QED
  BY <1>1, TypeInit, TypeStep, CallsInit, CallsStep, ResultsInit, ResultsStep,
     StopInit, AcceptedStep, StopStepInv, PTL DEF Spec

-----------------------------------------------------------------------------
(* No accepted intent is forgotten.                                        *)

\* Some goroutine is about to publish i, or a Resume still has it to drain.
Cared(i) ==
  \/ \E t \in Thread : target[t] = i /\ pc[t] = "enter"
  \/ /\ pc[Controller] \in {"drain", "enter", "calling", "repause"}
     /\ \E n \in next .. Len(snapshot) : snapshot[n] = i

LEMMA StrandedStep ==
  TypeOK /\ CallsInv /\ AcceptedInv /\ StopInv /\ NoStrandedIntent /\ [Next]_vars
    => NoStrandedIntent'
<1> SUFFICES ASSUME TypeOK, CallsInv, AcceptedInv, StopInv, NoStrandedIntent, [Next]_vars,
                    NEW i \in Intent, mode' = "ACTIVE", status'[i] = "PENDING", attempts'[i] = 0
             PROVE  Cared(i)'
  BY DEF NoStrandedIntent, Cared
<1>t. /\ pc \in [Thread -> ControlPC] /\ target \in [Thread -> Intent \cup {None}]
      /\ status \in [Intent -> Status] /\ attempts \in [Intent -> 0 .. MaxAttempts]
      /\ snapshot \in Seq(Intent) /\ next \in Nat \ {0}
      /\ Controller \in Thread /\ Caller \subseteq Thread /\ Controller \notin Caller
  BY ThreadFacts DEF TypeOK
<1>c. ASSUME mode = "ACTIVE", status[i] = "PENDING", attempts[i] = 0 PROVE Cared(i)
  BY <1>c DEF NoStrandedIntent, Cared
\* Thread t moves, but not from the entry of publish with intent i, and the
\* Controller does not give up the drain.
<1>m. ASSUME Cared(i), NEW t \in Thread, NEW p, NEW j, Goto(t, p, j), UNCHANGED control,
             pc[t] = "enter" => target[t] # i,
             t = Controller /\ pc[t] \in {"drain", "enter", "calling", "repause"} =>
                p \in {"drain", "enter", "calling", "repause"}
      PROVE  Cared(i)'
  BY <1>m, <1>t DEF Cared, Goto, control
<1>u. ASSUME Cared(i), UNCHANGED <<pc, target, control>> PROVE Cared(i)'
  BY <1>u DEF Cared, control
<1>1. ASSUME NEW c \in Caller, NEW j \in Intent, Publish(c, j) PROVE Cared(i)'
  <2>1. /\ mode = "ACTIVE" /\ Goto(c, "enter", j) /\ pc[c] = "idle" /\ UNCHANGED <<attempts, control>>
        /\ status' = [status EXCEPT ![j] = "PENDING"]
    BY <1>1 DEF Publish
  <2>2. CASE i = j
    BY <2>1, <2>2, <1>t DEF Goto, Cared
  <2>3. CASE i # j
    <3>1. Cared(i)
      BY <1>t, <1>c, <2>1, <2>3
    <3>2. QED
      BY <1>m, <1>t, <2>1, <3>1
  <2>4. QED
    BY <2>2, <2>3
<1>2. ASSUME NEW c \in Caller, NEW j \in Intent, Retry(c, j) PROVE Cared(i)'
  BY <1>2, <1>m, <1>t, <1>c DEF Retry, planner
<1>3. ASSUME NEW t \in Thread, BeginCall(t) PROVE Cared(i)'
  <2>1. /\ mode = "ACTIVE" /\ pc[t] = "enter" /\ Goto(t, "calling", target[t]) /\ UNCHANGED control
        /\ target[t] \in Intent
        /\ status' = [status EXCEPT ![target[t]] = "PUBLISHING"]
        /\ attempts' = [attempts EXCEPT ![target[t]] = IF @ < MaxAttempts THEN @ + 1 ELSE @]
    BY <1>3, TypeSplit, TargetFacts DEF BeginCall, Between
  <2>2. i # target[t] /\ status[i] = "PENDING" /\ attempts[i] = 0
    BY <1>t, <2>1
  <2>3. Cared(i)
    BY <1>c, <2>1, <2>2
  <2>4. QED
    BY <1>m, <2>1, <2>2, <2>3
<1>4. ASSUME NEW t \in Thread, SkipCall(t) PROVE Cared(i)'
  <2>1. /\ UNCHANGED <<planner, control>> /\ pc[t] = "enter" /\ status[target[t]] # "PENDING"
        /\ Returned(t, TRUE)
    BY <1>4 DEF SkipCall, planner
  <2>2. Cared(i) /\ target[t] # i
    BY <1>c, <2>1 DEF planner
  <2>3. QED
    BY <1>m, <2>1, <2>2 DEF Returned
<1>5. ASSUME NEW t \in Thread, NEW ok \in BOOLEAN, EndCall(t, ok) PROVE Cared(i)'
  <2>1. /\ pc[t] = "calling" /\ UNCHANGED <<mode, attempts, control>> /\ Returned(t, ok)
        /\ status' = [status EXCEPT ![target[t]] =
                        IF @ = "RETIRED" THEN @ ELSE IF ok THEN "PUBLISHED" ELSE "PENDING"]
    BY <1>5 DEF EndCall
  <2>2. target[t] # i
    BY <2>1, <1>t DEF CallsInv
  <2>3. Cared(i)
    BY <1>t, <1>c, <2>1, <2>2
  <2>4. QED
    BY <1>m, <2>1, <2>2, <2>3 DEF Returned
<1>6. ASSUME NEW j \in Intent, NEW r \in Outcome, Retire(j, r) PROVE Cared(i)'
  BY <1>6, <1>u, <1>t, <1>c DEF Retire
<1>7. CASE Pause \/ Stop \/ Repause
  BY <1>7 DEF Pause, Stop, Repause
<1>8. CASE Resume
  <2>1. /\ pc' = [pc EXCEPT ![Controller] = "drain"] /\ snapshot' = ordered /\ next' = 1
        /\ UNCHANGED status
    BY <1>8 DEF Resume, Goto
  <2>2. \E n \in 1 .. Len(ordered) : ordered[n] = i
    BY <2>1 DEF AcceptedInv
  <2>3. QED
    BY <1>t, <2>1, <2>2 DEF Cared
<1>9. CASE Drain
  <2>1. Cared(i) /\ pc[Controller] = "drain" /\ UNCHANGED snapshot
    BY <1>9, <1>c DEF Drain, planner
  <2>2. CASE \E t \in Thread : target[t] = i /\ pc[t] = "enter"
    BY <1>9, <1>t, <2>1, <2>2 DEF Drain, Goto, Cared
  <2>3. CASE \E n \in next .. Len(snapshot) : snapshot[n] = i
    <3>1. PICK n \in next .. Len(snapshot) : snapshot[n] = i
      BY <2>3
    <3>2. next' = next + 1 /\ Goto(Controller, "enter", snapshot[next])
      BY <1>9, <1>t, <3>1 DEF Drain
    <3>3. pc'[Controller] = "enter" /\ target'[Controller] = snapshot[next]
      BY <1>t, <3>2 DEF Goto
    <3>4. n = next \/ n \in next' .. Len(snapshot)
      BY <1>t, <3>1, <3>2
    <3>5. QED
      BY <1>t, <2>1, <3>1, <3>3, <3>4 DEF Cared
  <2>4. QED
    BY <2>1, <2>2, <2>3 DEF Cared
<1>10. CASE StopStep \/ AwaitTimeout
  <2>1. mode = "STOPPED" /\ mode' = mode
    BY <1>10 DEF StopStep, CancelNext, AwaitCall, AwaitTimeout, RequestCancel, EndCancel, EndStop,
                 StopInv, Stopping, planner
  <2>2. QED
    BY <2>1
<1>11. CASE UNCHANGED vars
  BY <1>11, <1>u, <1>c DEF vars, planner
<1>12. QED
  BY <1>1, <1>2, <1>3, <1>4, <1>5, <1>6, <1>7, <1>8, <1>9, <1>10, <1>11
     DEF Next, PublishStep, ControlStep

LEMMA StrandedInit == Init => NoStrandedIntent
  BY DEF Init, NoStrandedIntent

\* NoStrandedIntent for any number of intents and callers: the PAUSED test that
\* Publish makes under the lock and the copy Resume takes under the lock leave no
\* gap through which an accepted intent is forgotten.
THEOREM NothingStranded == Spec => []NoStrandedIntent
  BY TypeInit, TypeStep, CallsInit, CallsStep, ResultsInit, ResultsStep,
     StopInit, AcceptedStep, StopStepInv, StrandedInit, StrandedStep, PTL DEF Spec

-----------------------------------------------------------------------------
(* Resume drains in the order of acceptance.                               *)

\* Intent i was offered to Workers at least once.
Offered(i) == attempts[i] > 0

\* The first half of what the comment of Resume says ("drains accepted pending
\* intents in their original order"): a Resume calls the publisher for an intent
\* only after every intent accepted before it was offered.
DrainsInOrder ==
  [][pc[Controller] = "enter" /\ pc'[Controller] = "calling" =>
       \E n \in 1 .. Len(ordered) :
         /\ target[Controller] = ordered[n]
         /\ \A m \in 1 .. n - 1 : Offered(ordered[m])]_vars

\* The list holds accepted intents only, and an intent leaves PENDING for the
\* first time by being offered.
OfferedInv ==
  /\ \A n \in 1 .. Len(ordered) : status[ordered[n]] # "ABSENT"
  /\ \A i \in Intent : status[i] \notin {"ABSENT", "PENDING"} => Offered(i)

LEMMA OfferedStays == ASSUME TypeOK, [Next]_vars, NEW i \in Intent, Offered(i) PROVE Offered(i)'
<1> USE AttemptsAssumption DEF Offered
<1>t. attempts \in [Intent -> 0 .. MaxAttempts]
  BY DEF TypeOK
<1>1. ASSUME NEW t \in Thread, BeginCall(t) PROVE Offered(i)'
  BY <1>t, <1>1 DEF BeginCall
<1>2. QED
  BY <1>1 DEF Next, PublishStep, Publish, Retry, SkipCall, EndCall, Retire, Pause, Resume, Stop,
     ControlStep, StopStep, Drain, Repause, CancelNext, AwaitCall, AwaitTimeout, RequestCancel,
     EndCancel, EndStop, planner, vars

LEMMA OfferedStep == TypeOK /\ CallsInv /\ OfferedInv /\ [Next]_vars => OfferedInv'
<1> SUFFICES ASSUME TypeOK, CallsInv, OfferedInv, [Next]_vars PROVE OfferedInv'
  OBVIOUS
<1>t. /\ status \in [Intent -> Status] /\ ordered \in Seq(Intent)
      /\ attempts \in [Intent -> 0 .. MaxAttempts]
  BY DEF TypeOK
<1>s. \A i \in Intent : Offered(i) => Offered(i)'
  BY OfferedStays
<1>1. ASSUME NEW c \in Caller, NEW j \in Intent, Publish(c, j) PROVE OfferedInv'
  <2>1. /\ ordered' = Append(ordered, j) /\ status' = [status EXCEPT ![j] = "PENDING"]
        /\ UNCHANGED attempts
    BY <1>1 DEF Publish
  <2>2. /\ Len(ordered') = Len(ordered) + 1 /\ Len(ordered) \in Nat
        /\ ordered'[Len(ordered) + 1] = j
        /\ \A n \in 1 .. Len(ordered) : ordered'[n] = ordered[n] /\ ordered[n] \in Intent
    BY <1>t, <2>1
  <2>3. \A n \in 1 .. Len(ordered') : status'[ordered'[n]] # "ABSENT"
    BY <1>t, <2>1, <2>2 DEF OfferedInv
  <2>4. QED
    BY <1>t, <2>1, <2>3 DEF OfferedInv, Offered
<1>2. ASSUME UNCHANGED ordered,
             \A i \in Intent : /\ status[i] # "ABSENT" => status'[i] # "ABSENT"
                               /\ status'[i] \notin {"ABSENT", "PENDING"} => Offered(i)'
      PROVE  OfferedInv'
  <2>1. \A n \in 1 .. Len(ordered) : ordered[n] \in Intent
    BY <1>t
  <2>2. QED
    BY <1>2, <2>1 DEF OfferedInv, Offered
<1>3. ASSUME NEW t \in Thread, BeginCall(t) PROVE OfferedInv'
  <2>1. /\ target[t] \in Intent /\ UNCHANGED ordered
        /\ status' = [status EXCEPT ![target[t]] = "PUBLISHING"]
        /\ attempts' = [attempts EXCEPT ![target[t]] = IF @ < MaxAttempts THEN @ + 1 ELSE @]
    BY <1>3, TypeSplit, TargetFacts DEF BeginCall, Between
  <2>2. \A i \in Intent : i = target[t] => Offered(i)'
    <3> SUFFICES ASSUME NEW i \in Intent, i = target[t] PROVE attempts'[i] > 0
      BY DEF Offered
    <3>1. /\ attempts'[i] = IF attempts[i] < MaxAttempts THEN attempts[i] + 1 ELSE attempts[i]
          /\ attempts[i] \in 0 .. MaxAttempts
      BY <1>t, <2>1
    <3>2. QED
      BY <3>1, AttemptsAssumption
  <2>3. QED
    BY <1>t, <1>s, <1>2, <2>1, <2>2 DEF OfferedInv
<1>4. ASSUME NEW t \in Thread, NEW ok \in BOOLEAN, EndCall(t, ok) PROVE OfferedInv'
  <2>1. /\ status[target[t]] \in {"PUBLISHING", "RETIRED"} /\ UNCHANGED ordered
        /\ status' = [status EXCEPT ![target[t]] =
                        IF @ = "RETIRED" THEN @ ELSE IF ok THEN "PUBLISHED" ELSE "PENDING"]
    BY <1>4 DEF EndCall, CallsInv, OneCallPerIntent
  <2>2. QED
    BY <1>t, <1>s, <1>2, <2>1 DEF OfferedInv
<1>5. ASSUME NEW j \in Intent, NEW r \in Outcome, Retire(j, r) PROVE OfferedInv'
  BY <1>t, <1>s, <1>2, <1>5 DEF Retire, OfferedInv
<1>6. CASE UNCHANGED <<ordered, status>>
  BY <1>s, <1>2, <1>6 DEF OfferedInv
<1>7. QED
  BY <1>1, <1>3, <1>4, <1>5, <1>6 DEF Next, PublishStep, Retry, SkipCall, Pause, Resume, Stop,
     ControlStep, StopStep, Drain, Repause, CancelNext, AwaitCall, AwaitTimeout, RequestCancel,
     EndCancel, EndStop, planner, vars

\* The program points of Resume.
Draining == {"drain", "enter", "calling", "repause"}

\* What Resume has behind it: everything before the record it is at.
Behind(n) == n < next /\ (pc[Controller] = "enter" => n < next - 1)

\* Resume works through a copy that stays a prefix of the list; what lies behind
\* it was offered, by it or by another goroutine.
DrainInv ==
  pc[Controller] \in Draining =>
    /\ mode = "ACTIVE"
    /\ Len(snapshot) <= Len(ordered)
    /\ \A n \in 1 .. Len(snapshot) : snapshot[n] = ordered[n]
    /\ next <= Len(snapshot) + 1
    /\ pc[Controller] # "drain" => next > 1 /\ target[Controller] = snapshot[next - 1]
    /\ \A n \in 1 .. Len(snapshot) : Behind(n) => Offered(snapshot[n])

\* A step that leaves the Controller where it is keeps the invariant.
LEMMA DrainFrame ==
  ASSUME TypeOK, [Next]_vars, DrainInv, mode' = mode, UNCHANGED control,
         pc'[Controller] = pc[Controller], target'[Controller] = target[Controller],
         UNCHANGED ordered \/ \E j \in Intent : ordered' = Append(ordered, j)
  PROVE  DrainInv'
<1> SUFFICES ASSUME pc[Controller] \in Draining PROVE DrainInv'
  BY DEF DrainInv
<1>t. snapshot \in Seq(Intent) /\ ordered \in Seq(Intent) /\ next \in Nat \ {0}
  BY DEF TypeOK
<1>1. \A i \in Intent : Offered(i) => Offered(i)'
  BY OfferedStays
<1>2. Len(ordered) <= Len(ordered') /\ \A n \in 1 .. Len(ordered) : ordered'[n] = ordered[n]
  BY <1>t
<1>3. /\ mode' = "ACTIVE" /\ Len(snapshot') <= Len(ordered')
      /\ \A n \in 1 .. Len(snapshot') : snapshot'[n] = ordered'[n]
      /\ next' <= Len(snapshot') + 1
      /\ pc'[Controller] # "drain" => next' > 1 /\ target'[Controller] = snapshot'[next' - 1]
  BY <1>t, <1>2 DEF DrainInv, control
<1>4. ASSUME NEW n \in 1 .. Len(snapshot), n < next, pc[Controller] = "enter" => n < next - 1
      PROVE  Offered(snapshot[n])'
  <2>1. snapshot[n] \in Intent /\ Offered(snapshot[n]) /\ snapshot'[n] = snapshot[n]
    BY <1>t, <1>4 DEF DrainInv, Behind, control
  <2>2. QED
    BY <1>1, <2>1 DEF Offered
<1>5. QED
  BY <1>3, <1>4 DEF DrainInv, Behind, control

LEMMA DrainStep == TypeOK /\ CallsInv /\ OfferedInv /\ DrainInv /\ [Next]_vars => DrainInv'
<1> SUFFICES ASSUME TypeOK, CallsInv, OfferedInv, DrainInv, [Next]_vars PROVE DrainInv'
  OBVIOUS
<1>t. /\ pc \in [Thread -> ControlPC] /\ target \in [Thread -> Intent \cup {None}]
      /\ snapshot \in Seq(Intent) /\ ordered \in Seq(Intent) /\ next \in Nat \ {0}
      /\ status \in [Intent -> Status]
      /\ Controller \in Thread /\ Caller \subseteq Thread /\ Controller \notin Caller
  BY ThreadFacts DEF TypeOK
<1>s. \A i \in Intent : Offered(i) => Offered(i)'
  BY OfferedStays
<1>p. \A t \in Thread : \A p, i : Goto(t, p, i) =>
        /\ pc'[t] = p /\ target'[t] = i
        /\ \A u \in Thread : u # t => pc'[u] = pc[u] /\ target'[u] = target[u]
  BY <1>t DEF Goto
<1>x. pc'[Controller] \notin Draining => DrainInv'
  BY DEF DrainInv
\* The Controller has dealt with the record it was at.
<1>d. ASSUME pc[Controller] \in {"enter", "calling"}, pc'[Controller] \in {"calling", "drain", "repause"},
             pc'[Controller] # "drain" => target'[Controller] = target[Controller],
             mode' = mode, UNCHANGED <<control, ordered>>,
             \A i \in Intent : i = target[Controller] => Offered(i)'
      PROVE  DrainInv'
  <2>1. /\ mode = "ACTIVE" /\ Len(snapshot) <= Len(ordered) /\ next <= Len(snapshot) + 1 /\ next > 1
        /\ \A n \in 1 .. Len(snapshot) : snapshot[n] = ordered[n]
        /\ target[Controller] = snapshot[next - 1]
    BY <1>d DEF DrainInv, Draining
  <2>2. UNCHANGED <<snapshot, next>>
    BY <1>d DEF control
  <2>3. ASSUME NEW n \in 1 .. Len(snapshot), n < next PROVE Offered(snapshot[n])'
    <3>1. snapshot[n] \in Intent /\ snapshot'[n] = snapshot[n]
      BY <1>t, <2>2
    <3>2. n = next - 1 \/ n < next - 1
      BY <1>t, <2>3
    <3>3. CASE n = next - 1
      BY <1>d, <2>1, <3>1, <3>3 DEF Offered
    <3>4. CASE n < next - 1
      <4>1. Offered(snapshot[n])
        BY <1>d, <2>3, <3>4 DEF DrainInv, Draining, Behind
      <4>2. QED
        BY <1>s, <3>1, <4>1 DEF Offered
    <3>5. QED
      BY <3>2, <3>3, <3>4
  <2>4. QED
    BY <1>d, <2>1, <2>2, <2>3 DEF DrainInv, Behind
<1>1. ASSUME NEW c \in Caller, NEW j \in Intent, Publish(c, j) PROVE DrainInv'
  <2>1. pc'[Controller] = pc[Controller] /\ target'[Controller] = target[Controller]
    BY <1>1, <1>p, <1>t DEF Publish
  <2>2. QED
    BY <1>1, <2>1, DrainFrame DEF Publish
<1>2. ASSUME NEW c \in Caller, NEW j \in Intent, Retry(c, j) PROVE DrainInv'
  <2>1. pc'[Controller] = pc[Controller] /\ target'[Controller] = target[Controller]
    BY <1>2, <1>p, <1>t DEF Retry
  <2>2. QED
    BY <1>2, <2>1, DrainFrame DEF Retry, planner
<1>3. ASSUME NEW t \in Thread, BeginCall(t) PROVE DrainInv'
  <2>1. /\ pc[t] = "enter" /\ UNCHANGED <<mode, ordered, control>> /\ target[t] \in Intent
        /\ Goto(t, "calling", target[t])
        /\ status' = [status EXCEPT ![target[t]] = "PUBLISHING"]
    BY <1>3, TypeSplit, TargetFacts DEF BeginCall, Between
  <2>2. CASE t = Controller
    <3>1. OfferedInv'
      BY OfferedStep
    <3>2. \A i \in Intent : i = target[Controller] => Offered(i)'
      BY <1>t, <2>1, <2>2, <3>1 DEF OfferedInv
    <3>3. QED
      BY <1>d, <1>p, <2>1, <2>2, <3>2
  <2>3. CASE t # Controller
    BY <1>t, <1>p, <2>1, <2>3, DrainFrame
  <2>4. QED
    BY <2>2, <2>3
<1>4. ASSUME NEW t \in Thread, SkipCall(t) PROVE DrainInv'
  <2>1. /\ pc[t] = "enter" /\ UNCHANGED <<mode, ordered, status, attempts, control>>
        /\ status[target[t]] # "PENDING" \/ mode # "ACTIVE"
        /\ Returned(t, status[target[t]] # "PENDING" \/ mode # "STOPPED")
    BY <1>4 DEF SkipCall, planner
  <2>2. CASE t = Controller
    <3>1. /\ mode = "ACTIVE" /\ next > 1 /\ next <= Len(snapshot) + 1 /\ Len(snapshot) <= Len(ordered)
          /\ target[t] = snapshot[next - 1] /\ \A n \in 1 .. Len(snapshot) : snapshot[n] = ordered[n]
      BY <2>1, <2>2 DEF DrainInv, Draining
    <3>2. next - 1 \in 1 .. Len(snapshot) /\ next - 1 \in 1 .. Len(ordered)
      BY <1>t, <3>1
    <3>3. target[t] = ordered[next - 1] /\ target[t] \in Intent
      BY <1>t, <3>1, <3>2
    <3>4. status[target[t]] \notin {"ABSENT", "PENDING"}
      BY <2>1, <3>1, <3>2, <3>3 DEF OfferedInv
    <3>5. \A i \in Intent : i = target[Controller] => Offered(i)'
      BY <1>s, <2>2, <3>4 DEF OfferedInv
    <3>6. Goto(Controller, "drain", None)
      BY <2>1, <2>2, <3>4 DEF Returned
    <3>7. QED
      BY <1>d, <1>p, <1>t, <2>1, <2>2, <3>5, <3>6
  <2>3. CASE t # Controller
    <3>1. Goto(t, "idle", None)
      BY <2>1, <2>3 DEF Returned
    <3>2. QED
      BY <1>t, <1>p, <2>1, <2>3, <3>1, DrainFrame
  <2>4. QED
    BY <2>2, <2>3
<1>5. ASSUME NEW t \in Thread, NEW ok \in BOOLEAN, EndCall(t, ok) PROVE DrainInv'
  <2>1. /\ pc[t] = "calling" /\ UNCHANGED <<mode, ordered, control>> /\ Returned(t, ok)
        /\ target[t] \in Intent /\ status[target[t]] \in {"PUBLISHING", "RETIRED"}
    BY <1>5, TypeSplit, TargetFacts DEF EndCall, Between, CallsInv, OneCallPerIntent
  <2>2. CASE t = Controller
    <3>1. \A i \in Intent : i = target[Controller] => Offered(i)'
      BY <1>s, <2>1, <2>2 DEF OfferedInv
    <3>2. Goto(t, "drain", None) \/ Goto(t, "repause", target[t])
      BY <2>1, <2>2 DEF Returned
    <3>3. QED
      BY <1>d, <1>p, <1>t, <2>1, <2>2, <3>1, <3>2
  <2>3. CASE t # Controller
    <3>1. Goto(t, "idle", None)
      BY <2>1, <2>3 DEF Returned
    <3>2. QED
      BY <1>t, <1>p, <2>1, <2>3, <3>1, DrainFrame
  <2>4. QED
    BY <2>2, <2>3
<1>6. ASSUME NEW j \in Intent, NEW r \in Outcome, Retire(j, r) PROVE DrainInv'
  BY <1>6, DrainFrame DEF Retire
<1>7. CASE Pause
  BY <1>7, <1>x DEF Pause, Draining
<1>8. CASE Resume
  <2>1. /\ pc'[Controller] = "drain" /\ mode' = "ACTIVE" /\ snapshot' = ordered /\ next' = 1
        /\ ordered' = ordered
    BY <1>8, <1>p, <1>t DEF Resume
  <2>2. \A n \in 1 .. Len(snapshot') : ~(n < next')
    BY <1>t, <2>1
  <2>3. Len(snapshot') <= Len(ordered') /\ next' <= Len(snapshot') + 1
    BY <1>t, <2>1
  <2>4. QED
    BY <2>1, <2>2, <2>3 DEF DrainInv, Behind
<1>9. CASE Drain
  <2>1. /\ pc[Controller] = "drain" /\ UNCHANGED <<mode, ordered, status, attempts, snapshot>>
        /\ mode = "ACTIVE" /\ Len(snapshot) <= Len(ordered)
        /\ \A n \in 1 .. Len(snapshot) : snapshot[n] = ordered[n]
        /\ \A n \in 1 .. Len(snapshot) : n < next => Offered(snapshot[n])
    BY <1>9 DEF Drain, planner, DrainInv, Draining, Behind
  <2>2. CASE next <= Len(snapshot)
    <3>1. next' = next + 1 /\ pc'[Controller] = "enter" /\ target'[Controller] = snapshot[next]
      BY <1>9, <1>p, <1>t, <2>2 DEF Drain
    <3>2. next' <= Len(snapshot) + 1 /\ next' > 1 /\ next' - 1 = next
      BY <1>t, <2>2, <3>1
    <3>3. ASSUME NEW n \in 1 .. Len(snapshot), n < next' - 1 PROVE Offered(snapshot[n])'
      BY <2>1, <3>2, <3>3 DEF Offered
    <3>4. QED
      BY <2>1, <3>1, <3>2, <3>3 DEF DrainInv, Behind
  <2>3. CASE ~(next <= Len(snapshot))
    <3>1. pc'[Controller] = "idle"
      BY <1>9, <1>p, <1>t, <2>3 DEF Drain
    <3>2. QED
      BY <1>x, <3>1 DEF Draining
  <2>4. QED
    BY <2>2, <2>3
<1>10. CASE Repause \/ Stop \/ StopStep \/ AwaitTimeout
  <2>1. pc'[Controller] \notin Draining
    BY <1>10, <1>p, <1>t DEF Repause, Stop, StopStep, CancelNext, AwaitCall, AwaitTimeout,
       RequestCancel, EndCancel, EndStop, Draining
  <2>2. QED
    BY <1>x, <2>1
<1>11. CASE UNCHANGED vars
  BY <1>11, DrainFrame DEF vars, planner
<1>12. QED
  BY <1>1, <1>2, <1>3, <1>4, <1>5, <1>6, <1>7, <1>8, <1>9, <1>10, <1>11
     DEF Next, PublishStep, ControlStep

LEMMA DrainInit == Init => OfferedInv /\ DrainInv
<1> SUFFICES ASSUME Init PROVE OfferedInv /\ DrainInv
  OBVIOUS
<1>1. pc[Controller] = "idle" /\ ordered = << >> /\ \A i \in Intent : status[i] = "ABSENT"
  BY ThreadFacts DEF Init
<1>2. QED
  BY <1>1 DEF OfferedInv, DrainInv, Draining

\* DrainsInOrder for any number of intents and callers: whoever else publishes or
\* retries meanwhile, and however often the outbox was paused before.
THEOREM ResumeDrainsInOrder == Spec => DrainsInOrder
<1>1. TypeOK /\ DrainInv /\ [Next]_vars =>
        [pc[Controller] = "enter" /\ pc'[Controller] = "calling" =>
           \E n \in 1 .. Len(ordered) :
             /\ target[Controller] = ordered[n]
             /\ \A m \in 1 .. n - 1 : Offered(ordered[m])]_vars
  <2> SUFFICES ASSUME TypeOK, DrainInv, pc[Controller] = "enter"
               PROVE  \E n \in 1 .. Len(ordered) : /\ target[Controller] = ordered[n]
                                                   /\ \A m \in 1 .. n - 1 : Offered(ordered[m])
    OBVIOUS
  <2>1. /\ next > 1 /\ next <= Len(snapshot) + 1 /\ Len(snapshot) <= Len(ordered)
        /\ target[Controller] = snapshot[next - 1]
        /\ \A n \in 1 .. Len(snapshot) : snapshot[n] = ordered[n]
        /\ \A n \in 1 .. Len(snapshot) : n < next - 1 => Offered(snapshot[n])
    <3>1. \A n \in 1 .. Len(snapshot) : n < next - 1 => n < next
      BY DEF TypeOK
    <3>2. QED
      BY <3>1 DEF DrainInv, Draining, Behind
  <2>2. snapshot \in Seq(Intent) /\ ordered \in Seq(Intent) /\ next \in Nat
    BY DEF TypeOK
  <2>3. next - 1 \in 1 .. Len(ordered) /\ next - 1 \in 1 .. Len(snapshot)
    BY <2>1, <2>2
  <2>4. \A m \in 1 .. (next - 1) - 1 : m \in 1 .. Len(snapshot) /\ m < next - 1
    BY <2>1, <2>2
  <2>5. \A m \in 1 .. (next - 1) - 1 : Offered(ordered[m])
    BY <2>1, <2>4
  <2>6. QED
    BY <2>1, <2>3, <2>5
<1>2. QED
  BY <1>1, TypeInit, TypeStep, CallsInit, CallsStep, DrainInit, OfferedStep, DrainStep, PTL
     DEF Spec, DrainsInOrder

-----------------------------------------------------------------------------
(* DispatchOutbox implements DispatchOnce.                                 *)

LEMMA OnceInit == Init => Once!Init
  BY DEF Init, Once!Init

LEMMA OnceStep ==
  TypeOK /\ CallsInv /\ ResultsInv /\ [Next]_vars => [Once!Next]_<<status, mode = "STOPPED">>
<1> SUFFICES ASSUME TypeOK, CallsInv, ResultsInv, [Next]_vars
             PROVE  Once!Next \/ UNCHANGED <<status, mode = "STOPPED">>
  OBVIOUS
<1>t. status \in [Intent -> Status] /\ mode \in Mode
  BY DEF TypeOK
<1>c. \A t \in Thread : pc[t] \in {"enter", "calling"} => target[t] \in Intent
  BY TypeSplit, TargetFacts DEF Between
<1>1. ASSUME NEW c \in Caller, NEW i \in Intent, Publish(c, i) PROVE Once!Accept(i)
  BY <1>1 DEF Publish, Once!Accept, Once!Move
<1>2. ASSUME NEW t \in Thread, BeginCall(t) PROVE Once!Offer(target[t]) /\ target[t] \in Intent
  BY <1>c, <1>2 DEF BeginCall, Once!Offer, Once!Move
<1>3. ASSUME NEW t \in Thread, NEW ok \in BOOLEAN, EndCall(t, ok)
      PROVE  Once!Next \/ UNCHANGED <<status, mode = "STOPPED">>
  <2>1. /\ target[t] \in Intent /\ status[target[t]] \in {"PUBLISHING", "RETIRED"} /\ mode' = mode
        /\ status' = [status EXCEPT ![target[t]] =
                        IF @ = "RETIRED" THEN @ ELSE IF ok THEN "PUBLISHED" ELSE "PENDING"]
    BY <1>c, <1>3 DEF EndCall, CallsInv, OneCallPerIntent
  <2>2. CASE status[target[t]] = "RETIRED"
    BY <1>t, <2>1, <2>2
  <2>3. CASE status[target[t]] = "PUBLISHING" /\ ok
    BY <2>1, <2>3 DEF Once!Next, Once!Deliver, Once!Move
  <2>4. CASE status[target[t]] = "PUBLISHING" /\ ~ok
    BY <2>1, <2>4 DEF Once!Next, Once!Withdraw, Once!Move
  <2>5. QED
    BY <2>1, <2>2, <2>3, <2>4
<1>4. ASSUME NEW i \in Intent, NEW r \in Outcome, Retire(i, r) PROVE Once!Finish(i)
  BY <1>4 DEF Retire, Once!Finish, Once!Move
<1>5. CASE Stop
  BY <1>5 DEF Stop, Once!Next, Once!Seal
<1>6. CASE Pause \/ Resume \/ Repause
  BY <1>t, <1>6 DEF Pause, Resume, Repause, Mode
<1>7. CASE UNCHANGED <<status, mode>>
  BY <1>7
<1>8. QED
  BY <1>1, <1>2, <1>3, <1>4, <1>5, <1>6, <1>7 DEF Next, PublishStep, Retry, SkipCall, ControlStep,
     StopStep, Drain, CancelNext, AwaitCall, AwaitTimeout, RequestCancel, EndCancel, EndStop,
     planner, vars, Once!Next

\* ImplementsDispatchOnce for any sets of intents, callers and outcomes.
THEOREM OutboxImplementsOnce == Spec => ImplementsDispatchOnce
  BY OnceInit, OnceStep, TypeInit, TypeStep, CallsInit, CallsStep, ResultsInit, ResultsStep, PTL
     DEF Spec, ImplementsDispatchOnce, Once!Spec
=============================================================================
