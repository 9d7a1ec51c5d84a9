-------------------------- MODULE EngineLoopProofs --------------------------
(***************************************************************************)
(* Proofs about EngineLoop, for any number of requests and submitters and  *)
(* any capacity of the result channel.                                     *)
(***************************************************************************)
EXTENDS EngineLoop, TLAPS

-----------------------------------------------------------------------------
(* Types.                                                                  *)

\* A submitter that has begun has a request.
Asking == \A s \in Submitter : spc[s] # "idle" => asked[s] \in Request

TypeInv == TypeOK /\ Asking

LEMMA InitType == Init => TypeInv
<1>1. ASSUME Init PROVE TypeOK
  <2>1. resultCh \in 0 .. ResultCap
    BY <1>1, CapAssumption DEF Init
  <2>2. queue \in Seq(Request)
    BY <1>1 DEF Init
  <2>3. work \in [Request -> State] /\ spc \in [Submitter -> SubmitPC]
          /\ asked \in [Submitter -> Request \cup {None}]
    BY <1>1 DEF Init, State, SubmitPC
  <2> QED BY <1>1, <2>1, <2>2, <2>3 DEF Init, TypeOK, RunPC
<1>2. ASSUME Init PROVE Asking
  BY <1>2 DEF Init, Asking
<1> QED BY <1>1, <1>2 DEF TypeInv

\* Draining the channels leaves each within its capacity.
LEMMA DrainType ==
  ASSUME TypeOK, Drain
  PROVE  submitSignal' \in BOOLEAN /\ resultCh' \in 0 .. ResultCap /\ waitCh' \in BOOLEAN
<1>1. submitSignal' \in BOOLEAN /\ waitCh' \in BOOLEAN
  BY DEF TypeOK, Drain
<1>2. resultCh' \in 0 .. ResultCap
  <2>1. CASE resultCh' \in 0 .. resultCh
    BY <2>1, CapAssumption DEF TypeOK
  <2>2. CASE resultCh' = 0
    BY <2>2, CapAssumption
  <2> QED BY <2>1, <2>2 DEF Drain
<1> QED BY <1>1, <1>2

LEMMA WakeType ==
  ASSUME TypeOK, Wake
  PROVE  submitSignal' \in BOOLEAN /\ resultCh' \in 0 .. ResultCap /\ waitCh' \in BOOLEAN
BY DEF TypeOK, Wake

\* Every step of a submitter keeps the types.
LEMMA SubmitType ==
  ASSUME TypeInv, NEW s \in Submitter, SubmitStep(s)
  PROVE  TypeInv'
<1> USE DEF TypeInv, TypeOK, Asking, SubmitPC, State, submission, signals, controls
<1>1. ASSUME NEW r \in Request, Submit(s, r) PROVE TypeInv'
  BY <1>1 DEF Submit
<1>2. CASE Enqueue(s)
  <2>1. asked[s] \in Request
    BY <1>2 DEF Enqueue
  <2>2. queue' \in Seq(Request) /\ accepted' \in SUBSET Request /\ waiters' \in SUBSET Request
    BY <1>2, <2>1 DEF Enqueue
  <2>3. spc' \in [Submitter -> SubmitPC] /\ \A t \in Submitter : spc'[t] # "idle" => asked'[t] \in Request
    BY <1>2, <2>1 DEF Enqueue
  <2> QED BY <1>2, <2>2, <2>3 DEF Enqueue
<1>3. CASE Decline(s)
  BY <1>3 DEF Decline
<1>4. CASE SendSignal(s)
  BY <1>4 DEF SendSignal
<1>5. CASE Projected(s)
  BY <1>5 DEF Projected
<1>6. CASE GiveUp(s)
  BY <1>6 DEF GiveUp
<1> QED BY <1>1, <1>2, <1>3, <1>4, <1>5, <1>6 DEF SubmitStep

\* Every step of a worker or an operator keeps the types.
LEMMA OtherType ==
  ASSUME TypeInv, (\E r \in Request : WorkerStep(r)) \/ OperatorStep
  PROVE  TypeInv'
<1> USE DEF TypeInv, TypeOK, Asking, State, InFlight, Marked, submission, signals, controls
<1>1. ASSUME NEW r \in Request, WriteResult(r) PROVE TypeInv'
  BY <1>1 DEF WriteResult
<1>2. ASSUME NEW r \in Request, Notify(r) PROVE TypeInv'
  <2>1. resultCh' \in 0 .. ResultCap
    BY <1>2, CapAssumption DEF Notify
  <2> QED BY <1>2, <2>1 DEF Notify
<1>3. CASE Pause
  BY <1>3 DEF Pause
<1>4. CASE Resume
  BY <1>4 DEF Resume
<1>5. CASE WakeResumed
  BY <1>5, WakeType DEF WakeResumed
<1>6. ASSUME NEW r \in Request, NEW state \in Marked, MoveWork(r, state) PROVE TypeInv'
  BY <1>6, WakeType DEF MoveWork
<1> QED BY <1>1, <1>2, <1>3, <1>4, <1>5, <1>6 DEF WorkerStep, OperatorStep

\* Every step of the engine keeps the types.
LEMMA EngineType ==
  ASSUME TypeInv, EngineStep \/ CancelRun
  PROVE  TypeInv'
<1> USE DEF TypeInv, TypeOK, Asking, RunPC, submission, signals, controls
<1>1. CASE Launch
  BY <1>1 DEF Launch
<1>2. CASE Run
  BY <1>2 DEF Run
<1>3. CASE InitialDrain
  BY <1>3, DrainType DEF InitialDrain
<1>4. CASE TickPaused
  BY <1>4 DEF TickPaused
<1>5. CASE TickRun
  <2>1. PICK after \in [Request -> State] :
          /\ work' = after
          /\ verdict' = Classify(after)
          /\ pc' = IF Classify(after) # None THEN "drain"
                   ELSE IF Queued # {} \/ after # work THEN "tick" ELSE "check"
    BY <1>5 DEF TickRun
  <2>2. verdict' \in Verdict \cup {None}
    BY <2>1 DEF Classify, Verdict
  <2>3. pc' \in RunPC
    BY <2>1
  <2>4. waiters' \in SUBSET Request /\ projected' \in SUBSET Request /\ queue' \in Seq(Request)
    BY <1>5 DEF TickRun, Project
  <2> QED BY <1>5, <2>1, <2>2, <2>3, <2>4 DEF TickRun
<1>6. CASE Check
  BY <1>6, WakeType DEF Check
<1>7. CASE Wait
  <2>1. resultCh' \in 0 .. ResultCap
    BY <1>7, CapAssumption DEF Wait
  <2>2. submitSignal' \in BOOLEAN /\ waitCh' \in BOOLEAN
    BY <1>7 DEF Wait
  <2> QED BY <1>7, <2>1, <2>2 DEF Wait
<1>8. CASE FinishDrain
  BY <1>8, DrainType DEF FinishDrain
<1>9. CASE Exit
  BY <1>9 DEF Exit
<1>10. CASE Reconcile
  BY <1>10 DEF Reconcile
<1>11. CASE Abandon
  BY <1>11 DEF Abandon
<1>12. CASE CancelRun
  BY <1>12 DEF CancelRun
<1> QED BY <1>1, <1>2, <1>3, <1>4, <1>5, <1>6, <1>7, <1>8, <1>9, <1>10, <1>11, <1>12 DEF EngineStep

LEMMA StutterType == TypeInv /\ UNCHANGED vars => TypeInv'
BY DEF TypeInv, TypeOK, Asking, vars, submission, signals, controls

LEMMA TypeInvariant == Spec => []TypeInv
<1>1. TypeInv /\ [Next]_vars => TypeInv'
  BY SubmitType, OtherType, EngineType, StutterType DEF Next
<1> QED BY InitType, <1>1, PTL DEF Spec

\* The types hold in every state, the result channel within its capacity.
THEOREM TypeCorrect == Spec => []TypeOK
<1>1. TypeInv => TypeOK
  BY DEF TypeInv
<1> QED BY <1>1, TypeInvariant, PTL

-----------------------------------------------------------------------------
(* A request is queued once.                                               *)

\* Only accepted requests have Work: the record of accepted requests is what
\* keeps one from being queued again after its tick.
WorkAccepted == \A r \in Request : work[r] # "absent" => r \in accepted

OnceInv == SubmittedOnce /\ WorkAccepted

\* Steps that leave the queue and the accepted requests alone and bring no Work
\* into being.
LEMMA OnceFrame ==
  ASSUME TypeInv, OnceInv, queue' = queue, accepted' = accepted,
         \A r \in Request : work'[r] # "absent" <=> work[r] # "absent"
  PROVE  OnceInv'
<1>1. Queued' = Queued
  BY DEF Queued
<1>2. \A r \in Queued : r \in Request
  BY DEF Queued, TypeInv, TypeOK
<1>3. SubmittedOnce'
  BY <1>1, <1>2 DEF OnceInv, SubmittedOnce
<1>4. WorkAccepted'
  BY DEF OnceInv, WorkAccepted
<1> QED BY <1>3, <1>4 DEF OnceInv

\* Routing results brings no Work into being.
LEMMA RoutedOld ==
  ASSUME TypeInv, NEW r \in Request, NEW state \in Routed(r)
  PROVE  state # "absent" <=> work[r] # "absent"
<1>1. CASE work[r] = "buffered"
  BY <1>1 DEF Routed, Marked
<1>2. CASE work[r] = "stuck" /\ In("buffered") # {}
  BY <1>2 DEF Routed
<1>3. CASE ~(work[r] = "buffered") /\ ~(work[r] = "stuck" /\ In("buffered") # {})
  BY <1>3 DEF Routed
<1> QED BY <1>1, <1>2, <1>3

\* Work a whole tick leaves was there before or was queued.
LEMMA TickedOld ==
  ASSUME TypeInv, NEW r \in Request, NEW state \in Ticked(r, Queued)
  PROVE  state # "absent" => r \in Queued \/ work[r] # "absent"
<1>1. CASE work[r] = "absent"
  BY <1>1 DEF Ticked
<1>2. CASE work[r] # "absent"
  BY <1>2
<1> QED BY <1>1, <1>2

LEMMA EnqueueOnce ==
  ASSUME TypeInv, OnceInv, NEW s \in Submitter, Enqueue(s)
  PROVE  OnceInv'
<1> DEFINE r == asked[s]
<1>1. r \in Request /\ r \notin accepted /\ queue' = Append(queue, r) /\ accepted' = accepted \cup {r}
        /\ work' = work /\ queue \in Seq(Request)
  BY DEF Enqueue, TypeInv, TypeOK, Asking
<1>2. r \notin Queued /\ work[r] = "absent"
  BY <1>1 DEF OnceInv, SubmittedOnce, WorkAccepted
<1>3. \A n \in 1 .. Len(queue) : queue[n] # r
  BY <1>2 DEF Queued
<1>4. Len(queue') = Len(queue) + 1 /\ queue'[Len(queue) + 1] = r
        /\ \A n \in 1 .. Len(queue) : queue'[n] = queue[n]
  BY <1>1
<1>5. \A m, n \in 1 .. Len(queue') : queue'[m] = queue'[n] => m = n
  <2> SUFFICES ASSUME NEW m \in 1 .. Len(queue'), NEW n \in 1 .. Len(queue'),
                      queue'[m] = queue'[n]
               PROVE  m = n
    OBVIOUS
  <2>1. CASE m \in 1 .. Len(queue) /\ n \in 1 .. Len(queue)
    BY <2>1, <1>4 DEF OnceInv, SubmittedOnce
  <2>2. CASE m = Len(queue) + 1 \/ n = Len(queue) + 1
    <3>1. Len(queue) \in Nat
      BY <1>1
    <3> QED BY <2>2, <3>1, <1>3, <1>4
  <2>3. Len(queue) \in Nat
    BY <1>1
  <2> QED BY <2>1, <2>2, <2>3, <1>4
<1>6. \A q \in Queued' : q \in Queued \/ q = r
  BY <1>1, <1>4 DEF Queued
<1>7. \A q \in Queued' : q \in accepted' /\ work'[q] = "absent"
  BY <1>1, <1>2, <1>6 DEF OnceInv, SubmittedOnce
<1>8. WorkAccepted'
  BY <1>1 DEF OnceInv, WorkAccepted
<1> QED BY <1>5, <1>7, <1>8 DEF OnceInv, SubmittedOnce

LEMMA TickOnce ==
  ASSUME TypeInv, OnceInv, TickRun
  PROVE  OnceInv'
<1>1. queue' = << >> /\ accepted' = accepted
  BY DEF TickRun
<1>2. SubmittedOnce'
  BY <1>1 DEF SubmittedOnce, Queued
<1>3. PICK after \in [Request -> State] :
        /\ \A r \in Request : after[r] \in Ticked(r, Queued)
        /\ work' = after
  BY DEF TickRun
<1>4. \A r \in Request : work'[r] # "absent" => r \in Queued \/ work[r] # "absent"
  BY <1>3, TickedOld
<1>5. WorkAccepted'
  BY <1>1, <1>4 DEF OnceInv, WorkAccepted, SubmittedOnce
<1> QED BY <1>2, <1>5 DEF OnceInv

LEMMA OnceStep == TypeInv /\ OnceInv /\ [Next]_vars => OnceInv'
<1> SUFFICES ASSUME TypeInv, OnceInv, [Next]_vars PROVE OnceInv'
  OBVIOUS
<1> USE DEF submission
<1>1. ASSUME NEW s \in Submitter, SubmitStep(s) PROVE OnceInv'
  <2>1. CASE Enqueue(s)
    BY <2>1, EnqueueOnce
  <2>2. CASE ~Enqueue(s)
    <3>1. queue' = queue /\ accepted' = accepted /\ work' = work
      BY <1>1, <2>2 DEF SubmitStep, Submit, Decline, SendSignal, Projected, GiveUp
    <3> QED BY <3>1, OnceFrame
  <2> QED BY <2>1, <2>2
<1>2. ASSUME NEW r \in Request, WorkerStep(r) PROVE OnceInv'
  <2>1. queue' = queue /\ accepted' = accepted
    BY <1>2 DEF WorkerStep, WriteResult, Notify
  <2>2. \A q \in Request : work'[q] # "absent" <=> work[q] # "absent"
    BY <1>2 DEF WorkerStep, WriteResult, Notify, TypeInv, TypeOK
  <2> QED BY <2>1, <2>2, OnceFrame
<1>3. CASE OperatorStep
  <2>1. queue' = queue /\ accepted' = accepted
    BY <1>3 DEF OperatorStep, Pause, Resume, WakeResumed, MoveWork
  <2>2. CASE work' = work
    BY <2>1, <2>2, OnceFrame
  <2>3. ASSUME NEW r \in Request, NEW state \in Marked, MoveWork(r, state)
        PROVE  \A q \in Request : work'[q] # "absent" <=> work[q] # "absent"
    BY <2>3 DEF MoveWork, Marked, TypeInv, TypeOK
  <2> QED BY <1>3, <2>1, <2>2, <2>3, OnceFrame DEF OperatorStep, Pause, Resume, WakeResumed
<1>4. CASE EngineStep \/ CancelRun
  <2>1. CASE TickRun
    BY <2>1, TickOnce
  <2>2. CASE TickPaused \/ Reconcile
    <3>1. queue' = queue /\ accepted' = accepted
      BY <2>2 DEF TickPaused, Reconcile
    <3>2. work' = work \/ \A r \in Request : work'[r] \in Routed(r)
      BY <2>2 DEF TickPaused, Reconcile
    <3>3. \A r \in Request : work'[r] # "absent" <=> work[r] # "absent"
      BY <3>2, RoutedOld
    <3> QED BY <3>1, <3>3, OnceFrame
  <2>3. CASE ~TickRun /\ ~TickPaused /\ ~Reconcile
    <3>1. queue' = queue /\ accepted' = accepted /\ work' = work
      BY <1>4, <2>3 DEF EngineStep, Launch, Run, InitialDrain, Check, Wait, FinishDrain, Exit,
                         Abandon, CancelRun
    <3> QED BY <3>1, OnceFrame
  <2> QED BY <2>1, <2>2, <2>3
<1>5. CASE UNCHANGED vars
  <2>1. queue' = queue /\ accepted' = accepted /\ work' = work
    BY <1>5 DEF vars
  <2> QED BY <2>1, OnceFrame
<1> QED BY <1>1, <1>2, <1>3, <1>4, <1>5 DEF Next

LEMMA OnceInvariant == Spec => []OnceInv
<1>1. Init => OnceInv
  BY DEF Init, OnceInv, SubmittedOnce, WorkAccepted, Queued
<1> QED BY <1>1, OnceStep, TypeInvariant, PTL DEF Spec

\* However often a request ID is submitted, it is in the queue at most once, and
\* never once its Work exists.
THEOREM QueuedOnce == Spec => []SubmittedOnce
<1>1. OnceInv => SubmittedOnce
  BY DEF OnceInv
<1> QED BY <1>1, OnceInvariant, PTL

-----------------------------------------------------------------------------
(* The engine does not fall asleep over work.                              *)

\* The two halves of EngineAwake, for results and for requests.
ResultsSignaled == In("buffered") \subseteq notifying \/ resultCh > 0 \/ waitCh

QueueSignaled ==
  queue = << >> \/ paused \/ waking \/ submitSignal
    \/ \E s \in Submitter : spc[s] \in {"signal", "signalAwait"}

LEMMA AwakeHalves ==
  EngineAwake <=> (pc \in {"check", "wait"} => ResultsSignaled /\ QueueSignaled)
BY Zenon DEF EngineAwake, ResultsSignaled, QueueSignaled

\* Results keep their signals while the engine is about to sleep or asleep.
LEMMA ResultsFrame ==
  ASSUME ResultsSignaled, work' = work, notifying' = notifying, resultCh' = resultCh,
         waitCh => waitCh'
  PROVE  ResultsSignaled'
BY DEF ResultsSignaled, In

\* Whoever queues a request is about to signal it, and whoever has signaled it has.
LEMMA SubmitAwake ==
  ASSUME TypeInv, EngineAwake, NEW s \in Submitter, SubmitStep(s)
  PROVE  EngineAwake'
<1> USE DEF submission, signals, controls
<1>1. pc' = pc /\ work' = work /\ notifying' = notifying /\ resultCh' = resultCh /\ waitCh' = waitCh
        /\ paused' = paused /\ waking' = waking
  BY DEF SubmitStep, Submit, Enqueue, Decline, SendSignal, Projected, GiveUp
<1>2. SUFFICES ASSUME pc \in {"check", "wait"}, ResultsSignaled, QueueSignaled
               PROVE  QueueSignaled'
  BY <1>1, ResultsFrame DEF EngineAwake, ResultsSignaled, QueueSignaled
<1>3. CASE Enqueue(s)
  <2>1. spc'[s] \in {"signal", "signalAwait"}
    BY <1>3 DEF Enqueue, TypeInv, TypeOK
  <2> QED BY <2>1 DEF QueueSignaled
<1>4. CASE SendSignal(s)
  BY <1>4 DEF SendSignal, QueueSignaled
<1>5. CASE ~Enqueue(s) /\ ~SendSignal(s)
  <2>1. queue' = queue /\ submitSignal' = submitSignal
    BY <1>5 DEF SubmitStep, Submit, Decline, Projected, GiveUp
  <2>2. \A t \in Submitter : spc[t] \in {"signal", "signalAwait"} => spc'[t] = spc[t]
    BY <1>5 DEF SubmitStep, Submit, Decline, Projected, GiveUp, TypeInv, TypeOK
  <2> QED BY <1>1, <1>2, <2>1, <2>2 DEF QueueSignaled
<1> QED BY <1>3, <1>4, <1>5

LEMMA WorkerAwake ==
  ASSUME TypeInv, EngineAwake, NEW r \in Request, WorkerStep(r)
  PROVE  EngineAwake'
<1> USE DEF submission, signals, controls
<1>1. pc' = pc /\ queue' = queue /\ paused' = paused /\ waking' = waking
        /\ submitSignal' = submitSignal /\ spc' = spc
  BY DEF WorkerStep, WriteResult, Notify
<1>2. SUFFICES ASSUME pc \in {"check", "wait"}, ResultsSignaled
               PROVE  ResultsSignaled'
  BY <1>1 DEF EngineAwake, ResultsSignaled
<1>3. CASE WriteResult(r)
  <2>1. resultCh' = resultCh /\ waitCh' = waitCh
    BY <1>3 DEF WriteResult
  <2>2. In("buffered")' \subseteq In("buffered") \cup {r} /\ notifying' = notifying \cup {r}
    BY <1>3 DEF WriteResult, In, TypeInv, TypeOK
  <2> QED BY <1>2, <2>1, <2>2 DEF ResultsSignaled
<1>4. CASE Notify(r)
  BY <1>4 DEF Notify, ResultsSignaled
<1> QED BY <1>3, <1>4 DEF WorkerStep

LEMMA OperatorAwake ==
  ASSUME TypeInv, EngineAwake, OperatorStep
  PROVE  EngineAwake'
<1> USE DEF submission, signals, controls
<1>1. pc' = pc /\ queue' = queue /\ notifying' = notifying /\ spc' = spc
  BY DEF OperatorStep, Pause, Resume, WakeResumed, MoveWork
<1>2. SUFFICES ASSUME pc \in {"check", "wait"}, ResultsSignaled, QueueSignaled
               PROVE  ResultsSignaled' /\ QueueSignaled'
  BY <1>1 DEF EngineAwake, ResultsSignaled, QueueSignaled
<1>3. CASE Pause \/ Resume
  <2>1. work' = work /\ resultCh' = resultCh /\ waitCh' = waitCh /\ submitSignal' = submitSignal
          /\ (paused' \/ waking')
    BY <1>3 DEF Pause, Resume
  <2> QED BY <1>1, <1>2, <2>1, ResultsFrame DEF QueueSignaled
<1>4. CASE WakeResumed \/ \E r \in Request, state \in Marked : MoveWork(r, state)
  <2>1. Wake
    BY <1>4 DEF WakeResumed, MoveWork
  <2>2. QueueSignaled'
    BY <2>1 DEF Wake, QueueSignaled
  <2>3. In("buffered")' \subseteq In("buffered")
    BY <1>4 DEF WakeResumed, MoveWork, In, Marked, TypeInv, TypeOK
  <2>4. ResultsSignaled'
    BY <1>1, <1>2, <2>1, <2>3 DEF Wake, ResultsSignaled
  <2> QED BY <2>2, <2>4
<1> QED BY <1>3, <1>4 DEF OperatorStep

\* A tick that changed nothing found no results and, unless paused, no requests.
LEMMA EngineAwakeStep ==
  ASSUME TypeInv, EngineAwake, EngineStep \/ CancelRun
  PROVE  EngineAwake'
<1> USE DEF submission, signals, controls
<1>1. CASE TickPaused
  <2>1. SUFFICES ASSUME pc' \in {"check", "wait"} PROVE ResultsSignaled' /\ QueueSignaled'
    BY DEF EngineAwake, ResultsSignaled, QueueSignaled
  <2>2. In("buffered") = {} /\ work' = work /\ paused'
    BY <1>1, <2>1 DEF TickPaused
  <2> QED BY <2>2 DEF ResultsSignaled, QueueSignaled, In
<1>2. CASE TickRun
  <2>1. PICK after \in [Request -> State] :
          /\ \A r \in Request : after[r] \in Ticked(r, Queued)
          /\ work' = after
          /\ pc' = IF Classify(after) # None THEN "drain"
                   ELSE IF Queued # {} \/ after # work THEN "tick" ELSE "check"
    BY <1>2 DEF TickRun
  <2>2. SUFFICES ASSUME pc' \in {"check", "wait"} PROVE ResultsSignaled' /\ QueueSignaled'
    BY DEF EngineAwake, ResultsSignaled, QueueSignaled
  <2>3. work' = work /\ Queued = {}
    BY <2>1, <2>2
  <2>4. In("buffered") = {}
    <3> SUFFICES ASSUME NEW r \in Request, work[r] = "buffered" PROVE FALSE
      BY DEF In
    <3>1. work[r] \in Ticked(r, {})
      BY <2>1, <2>3
    <3> QED BY <3>1 DEF Ticked, Marked
  <2>5. queue' = << >>
    BY <1>2 DEF TickRun
  <2> QED BY <2>3, <2>4, <2>5 DEF ResultsSignaled, QueueSignaled, In
<1>3. CASE Check
  <2>1. SUFFICES ASSUME pc' \in {"check", "wait"} PROVE ResultsSignaled' /\ QueueSignaled'
    BY DEF EngineAwake, ResultsSignaled, QueueSignaled
  <2>2. pc \in {"check", "wait"} /\ UNCHANGED <<submission, work, notifying, signals, controls>>
    BY <1>3, <2>1 DEF Check
  <2> QED BY <2>2, ResultsFrame DEF EngineAwake, ResultsSignaled, QueueSignaled
<1>4. CASE ~TickPaused /\ ~TickRun /\ ~Check
  <2>1. pc' \notin {"check", "wait"}
    BY <1>4 DEF EngineStep, Launch, Run, InitialDrain, Wait, FinishDrain, Exit, Reconcile,
                Abandon, CancelRun
  <2> QED BY <2>1 DEF EngineAwake
<1> QED BY <1>1, <1>2, <1>3, <1>4

\* The engine never goes to sleep over a result that was announced or a request
\* that was queued: whenever it is about to sleep, a signal is there or about to
\* be sent.
THEOREM NeverAsleepOverWork == Spec => []EngineAwake
<1>1. Init => EngineAwake
  BY DEF Init, EngineAwake
<1>2. TypeInv /\ EngineAwake /\ [Next]_vars => EngineAwake'
  <2>1. TypeInv /\ EngineAwake /\ UNCHANGED vars => EngineAwake'
    BY DEF vars, submission, signals, controls, EngineAwake, In
  <2> QED BY <2>1, SubmitAwake, WorkerAwake, OperatorAwake, EngineAwakeStep DEF Next
<1> QED BY <1>1, <1>2, TypeInvariant, PTL DEF Spec

-----------------------------------------------------------------------------
(* What a run reports is true.                                             *)

\* Nothing moves any more, and the verdict tells whether all Work is terminal.
Rests(v) ==
  /\ \A r \in Request : work[r] \notin InFlight \cup {"ready"}
  /\ v = "COMPLETE" <=> In("stuck") = {}

\* Between the tick that classified the run and its end, whatever disturbs the
\* verdict leaves a signal; after the end, nothing is accepted that could.
VerdictInv ==
  /\ pc = "drain" => Pending \/ (verdict \in Verdict /\ Rests(verdict))
  /\ pc \in {"exit", "stopped"} /\ outcome \in Verdict => ~accepting /\ Rests(outcome)

\* Steps that leave the engine and the Work where they are and take no signal.
LEMMA VerdictFrame ==
  ASSUME VerdictInv, pc' = pc, work' = work, verdict' = verdict, outcome' = outcome,
         accepting' = accepting, Pending => Pending'
  PROVE  VerdictInv'
<1>1. In("stuck")' = In("stuck")
  BY DEF In
<1> QED BY <1>1 DEF VerdictInv, Rests

LEMMA SubmitVerdict ==
  ASSUME TypeInv, VerdictInv, NEW s \in Submitter, SubmitStep(s)
  PROVE  VerdictInv'
<1>1. pc' = pc /\ work' = work /\ verdict' = verdict /\ outcome' = outcome /\ accepting' = accepting
  BY DEF SubmitStep, Submit, Enqueue, Decline, SendSignal, Projected, GiveUp
<1>2. Pending => Pending'
  BY DEF SubmitStep, Submit, Enqueue, Decline, SendSignal, Projected, GiveUp, Pending, signals
<1> QED BY <1>1, <1>2, VerdictFrame

\* No result is written where nothing runs, and a notification is a signal.
LEMMA WorkerVerdict ==
  ASSUME TypeInv, VerdictInv, NEW r \in Request, WorkerStep(r)
  PROVE  VerdictInv'
<1>1. pc' = pc /\ verdict' = verdict /\ outcome' = outcome /\ accepting' = accepting
  BY DEF WorkerStep, WriteResult, Notify
<1>2. CASE Notify(r)
  <2>1. work' = work /\ Pending'
    BY <1>2 DEF Notify, Pending
  <2> QED BY <1>1, <2>1, VerdictFrame
<1>3. CASE WriteResult(r)
  <2>1. ~Rests(verdict) /\ ~Rests(outcome)
    BY <1>3 DEF WriteResult, Rests, InFlight
  <2>2. Pending' <=> Pending
    BY <1>3 DEF WriteResult, Pending, signals
  <2> QED BY <1>1, <2>1, <2>2 DEF VerdictInv
<1> QED BY <1>2, <1>3 DEF WorkerStep

\* An operator's move before the end leaves a signal; after it, none is made.
LEMMA OperatorVerdict ==
  ASSUME TypeInv, VerdictInv, OperatorStep
  PROVE  VerdictInv'
<1>1. pc' = pc /\ verdict' = verdict /\ outcome' = outcome /\ accepting' = accepting
  BY DEF OperatorStep, Pause, Resume, WakeResumed, MoveWork
<1>2. CASE Pause \/ Resume \/ WakeResumed
  <2>1. work' = work /\ (Pending => Pending')
    BY <1>2 DEF Pause, Resume, WakeResumed, Wake, Pending, signals
  <2> QED BY <1>1, <2>1, VerdictFrame
<1>3. ASSUME NEW r \in Request, NEW state \in Marked, MoveWork(r, state) PROVE VerdictInv'
  <2>1. accepting /\ Pending'
    BY <1>3 DEF MoveWork, Wake, Pending
  <2> QED BY <1>1, <2>1 DEF VerdictInv
<1> QED BY <1>2, <1>3 DEF OperatorStep

\* The classification of a tick describes the Work the tick leaves.
LEMMA TickVerdict ==
  ASSUME TypeInv, TickRun
  PROVE  VerdictInv'
<1>1. PICK after \in [Request -> State] :
        /\ work' = after
        /\ verdict' = Classify(after)
        /\ pc' = IF Classify(after) # None THEN "drain"
                 ELSE IF Queued # {} \/ after # work THEN "tick" ELSE "check"
  BY DEF TickRun
<1>2. SUFFICES ASSUME pc' = "drain" PROVE verdict' \in Verdict /\ Rests(verdict)'
  BY <1>1 DEF VerdictInv
<1>3. Classify(after) # None
  BY <1>1, <1>2
<1>4. \A r \in Request : after[r] \notin InFlight \cup {"ready"}
  BY <1>3 DEF Classify
<1>5. Classify(after) = IF \E r \in Request : after[r] = "stuck" THEN "INCOMPLETE" ELSE "COMPLETE"
  BY <1>3 DEF Classify
<1>6. In("stuck")' = {} <=> ~ \E r \in Request : after[r] = "stuck"
  BY <1>1 DEF In
<1> QED BY <1>1, <1>4, <1>5, <1>6 DEF Rests, Verdict

LEMMA EngineVerdict ==
  ASSUME TypeInv, VerdictInv, EngineStep \/ CancelRun
  PROVE  VerdictInv'
<1>1. CASE TickRun
  BY <1>1, TickVerdict
<1>2. CASE FinishDrain
  <2>1. work' = work
    BY <1>2 DEF FinishDrain
  <2>2. CASE Pending
    BY <1>2, <2>2 DEF FinishDrain, VerdictInv
  <2>3. CASE ~Pending
    <3>1. pc' = "exit" /\ accepting' = FALSE /\ outcome' = verdict /\ Rests(verdict)
      BY <1>2, <2>3 DEF FinishDrain, VerdictInv
    <3>2. In("stuck")' = In("stuck")
      BY <2>1 DEF In
    <3> QED BY <2>1, <3>1, <3>2 DEF VerdictInv, Rests
  <2> QED BY <2>2, <2>3
<1>3. CASE Exit
  <2>1. pc = "exit" /\ pc' = "stopped" /\ work' = work /\ outcome' = outcome /\ accepting' = FALSE
    BY <1>3 DEF Exit
  <2>2. In("stuck")' = In("stuck")
    BY <2>1 DEF In
  <2> QED BY <2>1, <2>2 DEF VerdictInv, Rests
<1>4. CASE CancelRun
  BY <1>4 DEF CancelRun, VerdictInv, Verdict
<1>5. CASE EngineStep /\ ~TickRun /\ ~FinishDrain /\ ~Exit
  <2>1. pc' \notin {"drain", "exit", "stopped"}
    BY <1>5 DEF EngineStep, Launch, Run, InitialDrain, TickPaused, Check, Wait, Reconcile, Abandon
  <2> QED BY <2>1 DEF VerdictInv
<1> QED BY <1>1, <1>2, <1>3, <1>4, <1>5

LEMMA VerdictInvariant == Spec => []VerdictInv
<1>1. Init => VerdictInv
  BY DEF Init, VerdictInv
<1>2. TypeInv /\ VerdictInv /\ [Next]_vars => VerdictInv'
  <2>1. TypeInv /\ VerdictInv /\ UNCHANGED vars => VerdictInv'
    <3> SUFFICES ASSUME VerdictInv, UNCHANGED vars PROVE VerdictInv'
      OBVIOUS
    <3>1. pc' = pc /\ work' = work /\ verdict' = verdict /\ outcome' = outcome
            /\ accepting' = accepting /\ Pending' = Pending
      BY DEF vars, signals, Pending
    <3> QED BY <3>1, VerdictFrame
  <2> QED BY <2>1, SubmitVerdict, WorkerVerdict, OperatorVerdict, EngineVerdict DEF Next
<1> QED BY <1>1, <1>2, TypeInvariant, PTL DEF Spec

\* When a run has ended by itself, nothing is in flight or can start, and it is
\* COMPLETE exactly when no Work was left unfinished in the marking.
THEOREM VerdictIsTrue == Spec => []VerdictHolds
<1>1. VerdictInv => VerdictHolds
  BY DEF VerdictInv, VerdictHolds, Rests
<1> QED BY <1>1, VerdictInvariant, PTL

-----------------------------------------------------------------------------
(* What a run that ends may lose.                                          *)

\* A submitter of r has queued it and not signaled it yet.
Unsignaled(r) == \E s \in Submitter : asked[s] = r /\ spc[s] \in {"signal", "signalAwait"}

\* A run that ends COMPLETE has finished the Work of every request it accepted, except one
\* that was queued after its last tick and whose signal is still to be sent
\* (submitNormalizedWorkRequest, finishTerminationDrain).
LossIsUnsignaled ==
  [][pc = "drain" /\ pc' = "exit" /\ outcome' = "COMPLETE" =>
       \A r \in accepted : work[r] = "done" \/ (r \in Queued /\ Unsignaled(r))]_vars

\* Accepted requests are queued or have their Work; while the run is about to end, a queued
\* one is signaled or about to be.
AcceptedHeld == \A r \in accepted : r \in Queued \/ work[r] # "absent"
DrainSignaled == pc = "drain" => Pending \/ \A r \in Queued : Unsignaled(r)
LossInv == AcceptedHeld /\ DrainSignaled

\* Steps that leave the requests alone, and no Work becomes absent.
LEMMA HeldFrame ==
  ASSUME AcceptedHeld, accepted' = accepted, queue' = queue,
         \A r \in Request : work[r] # "absent" => work'[r] # "absent", TypeInv
  PROVE  AcceptedHeld'
<1>1. Queued' = Queued /\ accepted \subseteq Request
  BY DEF Queued, TypeInv, TypeOK
<1> QED BY <1>1 DEF AcceptedHeld

LEMMA DrainFrame ==
  ASSUME DrainSignaled, pc' = pc, queue' = queue, spc' = spc, asked' = asked, Pending => Pending'
  PROVE  DrainSignaled'
<1>1. Queued' = Queued /\ \A r : Unsignaled(r)' = Unsignaled(r)
  BY DEF Queued, Unsignaled
<1> QED BY <1>1 DEF DrainSignaled

\* Whoever queues a request owes its signal.
LEMMA SubmitLoss ==
  ASSUME TypeInv, LossInv, NEW s \in Submitter, SubmitStep(s)
  PROVE  LossInv'
<1> USE DEF submission, signals, controls
<1>1. pc' = pc /\ work' = work
  BY DEF SubmitStep, Submit, Enqueue, Decline, SendSignal, Projected, GiveUp
<1>2. CASE Enqueue(s)
  <2>1. /\ asked[s] \in Request /\ asked' = asked
        /\ queue' = Append(queue, asked[s]) /\ accepted' = accepted \cup {asked[s]}
        /\ spc'[s] \in {"signal", "signalAwait"}
        /\ \A t \in Submitter : t # s => spc'[t] = spc[t]
        /\ spc[s] = "normalized" /\ UNCHANGED signals
    BY <1>2 DEF Enqueue, TypeInv, TypeOK, Asking
  <2>2. Queued' = Queued \cup {asked[s]}
    <3>1. queue \in Seq(Request)
      BY DEF TypeInv, TypeOK
    <3> QED BY <2>1, <3>1 DEF Queued
  <2>3. \A r : Unsignaled(r) => Unsignaled(r)'
    BY <2>1 DEF Unsignaled
  <2>4. \A r : r = asked[s] => Unsignaled(r)'
    BY <2>1 DEF Unsignaled
  <2>5. AcceptedHeld'
    BY <1>1, <2>1, <2>2 DEF LossInv, AcceptedHeld
  <2>6. DrainSignaled'
    <3>1. Pending' = Pending
      BY <2>1 DEF Pending
    <3>2. ASSUME pc = "drain", ~Pending, NEW r \in Queued' PROVE Unsignaled(r)'
      <4>1. CASE r \in Queued
        <5>1. Unsignaled(r)
          BY <3>2, <4>1 DEF LossInv, DrainSignaled
        <5> QED BY <2>3, <5>1
      <4>2. CASE r = asked[s]
        BY <2>4, <4>2
      <4> QED BY <2>2, <4>1, <4>2
    <3> QED BY <1>1, <3>1, <3>2 DEF DrainSignaled
  <2> QED BY <2>5, <2>6 DEF LossInv
<1>3. CASE SendSignal(s)
  <2>1. accepted' = accepted /\ queue' = queue /\ Pending'
    BY <1>3 DEF SendSignal, Pending
  <2> QED BY <1>1, <2>1, HeldFrame DEF LossInv, DrainSignaled
<1>4. CASE ~Enqueue(s) /\ ~SendSignal(s)
  <2>1. accepted' = accepted /\ queue' = queue /\ UNCHANGED signals
    BY <1>4 DEF SubmitStep, Submit, Decline, Projected, GiveUp
  <2>2. \A t \in Submitter : spc[t] \in {"signal", "signalAwait"} =>
          spc'[t] = spc[t] /\ asked'[t] = asked[t]
    BY <1>4 DEF SubmitStep, Submit, Decline, Projected, GiveUp, TypeInv, TypeOK
  <2>3. \A r : Unsignaled(r) => Unsignaled(r)'
    BY <2>2 DEF Unsignaled
  <2>4. Queued' = Queued /\ Pending' = Pending
    BY <2>1 DEF Queued, Pending
  <2>5. DrainSignaled'
    BY <1>1, <2>3, <2>4 DEF LossInv, DrainSignaled
  <2> QED BY <1>1, <2>1, <2>5, HeldFrame DEF LossInv
<1> QED BY <1>2, <1>3, <1>4

LEMMA OthersLoss ==
  ASSUME TypeInv, LossInv, OperatorStep \/ \E r \in Request : WorkerStep(r)
  PROVE  LossInv'
<1> USE DEF submission, signals, controls
<1>1. pc' = pc /\ accepted' = accepted /\ queue' = queue /\ spc' = spc /\ asked' = asked
  BY DEF OperatorStep, Pause, Resume, WakeResumed, MoveWork, WorkerStep, WriteResult, Notify
<1>2. Pending => Pending'
  BY DEF OperatorStep, Pause, Resume, WakeResumed, MoveWork, WorkerStep, WriteResult, Notify, Wake,
         Pending
<1>3. \A r \in Request : work[r] # "absent" => work'[r] # "absent"
  BY DEF OperatorStep, Pause, Resume, WakeResumed, MoveWork, WorkerStep, WriteResult, Notify,
         TypeInv, TypeOK, Marked
<1> QED BY <1>1, <1>2, <1>3, HeldFrame, DrainFrame DEF LossInv

\* A tick makes Work of every queued request, and the engine drains after a tick only.
LEMMA EngineLoss ==
  ASSUME TypeInv, SubmittedOnce, LossInv, EngineStep \/ CancelRun
  PROVE  LossInv'
<1> USE DEF submission, signals, controls
<1>1. CASE TickRun
  <2>1. PICK after \in [Request -> State] :
          (\A r \in Request : after[r] \in Ticked(r, Queued)) /\ work' = after
    BY <1>1 DEF TickRun
  <2>2. accepted' = accepted /\ queue' = << >>
    BY <1>1 DEF TickRun
  <2>3. \A r \in Request : r \in Queued \/ work[r] # "absent" => after[r] # "absent"
    <3> SUFFICES ASSUME NEW r \in Request, r \in Queued \/ work[r] # "absent", after[r] = "absent"
                 PROVE  FALSE
      OBVIOUS
    <3>1. after[r] \in Ticked(r, Queued) /\ work[r] \in State
      BY <2>1 DEF TypeInv, TypeOK
    <3> QED BY <3>1 DEF Ticked, State, Marked, InFlight
  <2>4. Queued' = {}
    BY <2>2 DEF Queued
  <2> QED BY <2>1, <2>2, <2>3, <2>4 DEF LossInv, AcceptedHeld, DrainSignaled, TypeInv, TypeOK
<1>2. CASE ~TickRun
  <2>1. accepted' = accepted /\ queue' = queue /\ pc' # "drain"
    BY <1>2 DEF EngineStep, Launch, Run, InitialDrain, TickPaused, Check, Wait, FinishDrain, Exit,
                Reconcile, Abandon, CancelRun
  <2>2. ASSUME NEW r \in Request, work[r] # "absent" PROVE work'[r] # "absent"
    <3>1. CASE work' = work
      BY <2>2, <3>1
    <3>2. CASE TickPaused \/ Reconcile
      <4>1. work'[r] \in Routed(r) \/ work' = work
        BY <3>2 DEF TickPaused, Reconcile
      <4> QED BY <2>2, <4>1 DEF Routed, Marked
    <3>3. TickPaused \/ Reconcile \/ work' = work
      BY <1>2 DEF EngineStep, Launch, Run, InitialDrain, Check, Wait, FinishDrain, Exit, Abandon,
                  CancelRun
    <3> QED BY <3>1, <3>2, <3>3
  <2> QED BY <2>1, <2>2, HeldFrame DEF LossInv, DrainSignaled
<1> QED BY <1>1, <1>2

\* A finite run may end COMPLETE without the Work of a request it accepted, but only of one
\* that a submitter has queued since the last tick and has yet to signal.
THEOREM OnlyUnsignaledIsLost == Spec => LossIsUnsignaled
<1>1. Init => LossInv
  BY DEF Init, LossInv, AcceptedHeld, DrainSignaled
<1>2. TypeInv /\ SubmittedOnce /\ LossInv /\ [Next]_vars => LossInv'
  <2>1. TypeInv /\ LossInv /\ UNCHANGED vars => LossInv'
    BY HeldFrame, DrainFrame DEF vars, submission, signals, LossInv, Pending
  <2> QED BY <2>1, SubmitLoss, OthersLoss, EngineLoss DEF Next
<1>3. TypeInv /\ VerdictInv /\ LossInv /\ [Next]_vars =>
        [pc = "drain" /\ pc' = "exit" /\ outcome' = "COMPLETE" =>
           \A r \in accepted : work[r] = "done" \/ (r \in Queued /\ Unsignaled(r))]_vars
  <2> SUFFICES ASSUME TypeInv, VerdictInv, LossInv, [Next]_vars, vars' # vars,
                      pc = "drain", pc' = "exit", outcome' = "COMPLETE", NEW r \in accepted
               PROVE  work[r] = "done" \/ (r \in Queued /\ Unsignaled(r))
    BY Zenon
  <2>1. FinishDrain
    BY DEF Next, EngineStep, Launch, Run, InitialDrain, TickPaused, TickRun, Check, Wait, Exit,
           Reconcile, Abandon, CancelRun, SubmitStep, Submit, Enqueue, Decline, SendSignal,
           Projected, GiveUp, WorkerStep, WriteResult, Notify, OperatorStep, Pause, Resume,
           WakeResumed, MoveWork
  <2>2. ~Pending /\ verdict = "COMPLETE"
    BY <2>1 DEF FinishDrain
  <2>3. Rests("COMPLETE") /\ r \in Request /\ work[r] \in State
    BY <2>2 DEF VerdictInv, TypeInv, TypeOK
  <2>4. work[r] \in {"absent", "done"}
    BY <2>3 DEF Rests, In, State, Marked, InFlight
  <2>5. work[r] = "absent" => r \in Queued
    BY DEF LossInv, AcceptedHeld
  <2>6. \A q \in Queued : Unsignaled(q)
    BY <2>2 DEF LossInv, DrainSignaled
  <2> QED BY <2>4, <2>5, <2>6
<1> QED BY <1>1, <1>2, <1>3, TypeInvariant, VerdictInvariant, QueuedOnce, PTL
        DEF Spec, LossIsUnsignaled

-----------------------------------------------------------------------------
(* Waiting submitters.                                                     *)

Awaiting(s) == spc[s] \in {"signalAwait", "await"}

\* At most one submitter waits for a request: the one that queued it.
OneWaiter ==
  \A s, t \in Submitter : Awaiting(s) /\ Awaiting(t) /\ asked[s] = asked[t] => s = t

ServedInv == WaiterServed /\ OneWaiter

\* Steps in which no submitter moves and queued requests stay or become Work.
LEMMA ServedFrame ==
  ASSUME TypeInv, ServedInv, spc' = spc, asked' = asked,
         \A r \in Request : r \in waiters /\ r \in Queued =>
            \/ r \in waiters' /\ r \in Queued'
            \/ r \in projected' /\ work'[r] # "absent",
         \A r \in Request : r \in projected /\ work[r] # "absent" =>
            r \in projected' /\ work'[r] # "absent"
  PROVE  ServedInv'
<1>1. \A s \in Submitter : Awaiting(s) => asked[s] \in Request
  BY DEF Awaiting, TypeInv, Asking
<1>2. WaiterServed'
  BY <1>1 DEF ServedInv, WaiterServed, Awaiting
<1>3. OneWaiter'
  BY DEF ServedInv, OneWaiter, Awaiting
<1> QED BY <1>2, <1>3 DEF ServedInv

\* The submitter that queues a request is its only waiter.
LEMMA EnqueueServed ==
  ASSUME TypeInv, OnceInv, ServedInv, NEW s \in Submitter, Enqueue(s)
  PROVE  ServedInv'
<1> DEFINE r == asked[s]
<1>1. r \in Request /\ r \notin accepted /\ queue' = Append(queue, r) /\ asked' = asked
        /\ work' = work /\ projected' = projected /\ queue \in Seq(Request)
        /\ waiters \subseteq waiters'
  BY DEF Enqueue, TypeInv, TypeOK, Asking
<1>2. \A q \in Queued : q \in Queued'
  BY <1>1 DEF Queued
<1>3. r \in Queued'
  <2>1. Len(queue') = Len(queue) + 1 /\ queue'[Len(queue) + 1] = r /\ Len(queue) \in Nat
    BY <1>1
  <2> QED BY <2>1 DEF Queued
<1>4. Awaiting(s)' => r \in waiters'
  BY DEF Enqueue, Awaiting, TypeInv, TypeOK
<1>5. \A t \in Submitter : t # s => spc'[t] = spc[t]
  BY DEF Enqueue, TypeInv, TypeOK
<1>6. \A t \in Submitter : Awaiting(t) => asked[t] # r
  <2> SUFFICES ASSUME NEW t \in Submitter, Awaiting(t), asked[t] = r PROVE FALSE
    OBVIOUS
  <2>1. r \in Queued \/ work[r] # "absent"
    BY DEF ServedInv, WaiterServed, Awaiting
  <2> QED BY <1>1, <2>1 DEF OnceInv, SubmittedOnce, WorkAccepted
<1>7. WaiterServed'
  <2> SUFFICES ASSUME NEW t \in Submitter, Awaiting(t)'
               PROVE  \/ asked[t] \in waiters' /\ asked[t] \in Queued'
                      \/ asked[t] \in projected' /\ work'[asked[t]] # "absent"
    BY <1>1 DEF WaiterServed, Awaiting
  <2>1. CASE t = s
    BY <2>1, <1>3, <1>4
  <2>2. CASE t # s
    BY <2>2, <1>1, <1>2, <1>5 DEF ServedInv, WaiterServed, Awaiting
  <2> QED BY <2>1, <2>2
<1>8. OneWaiter'
  <2> SUFFICES ASSUME NEW t \in Submitter, NEW u \in Submitter,
                      Awaiting(t)', Awaiting(u)', asked[t] = asked[u]
               PROVE  t = u
    BY <1>1 DEF OneWaiter
  <2>1. CASE t = s \/ u = s
    BY <2>1, <1>5, <1>6 DEF Awaiting
  <2>2. CASE t # s /\ u # s
    BY <2>2, <1>5 DEF ServedInv, OneWaiter, Awaiting
  <2> QED BY <2>1, <2>2
<1> QED BY <1>7, <1>8 DEF ServedInv

\* A submitter that leaves takes at most its own registration with it.
LEMMA SubmitServed ==
  ASSUME TypeInv, OnceInv, ServedInv, NEW s \in Submitter, SubmitStep(s)
  PROVE  ServedInv'
<1> USE DEF submission
<1>1. CASE Enqueue(s)
  BY <1>1, EnqueueServed
<1>2. CASE ~Enqueue(s)
  <2>1. work' = work /\ queue' = queue
    BY <1>2 DEF SubmitStep, Submit, Decline, SendSignal, Projected, GiveUp
  <2>2. \A t \in Submitter : t # s => spc'[t] = spc[t] /\ asked'[t] = asked[t]
    BY <1>2 DEF SubmitStep, Submit, Decline, SendSignal, Projected, GiveUp, TypeInv, TypeOK
  <2>3. Awaiting(s)' => Awaiting(s) /\ asked'[s] = asked[s]
           /\ waiters' = waiters /\ projected' = projected
    BY <1>2 DEF SubmitStep, Submit, Decline, SendSignal, Projected, GiveUp, TypeInv, TypeOK, Awaiting
  <2>4. \/ waiters' = waiters /\ projected' = projected
        \/ Awaiting(s) /\ waiters \ {asked[s]} \subseteq waiters' /\ projected \ {asked[s]} \subseteq projected'
    BY <1>2 DEF SubmitStep, Submit, Decline, SendSignal, Projected, GiveUp, Awaiting
  <2>5. \A t \in Submitter : Awaiting(t)' =>
          /\ Awaiting(t) /\ asked'[t] = asked[t]
          /\ asked[t] \in waiters => asked[t] \in waiters'
          /\ asked[t] \in projected => asked[t] \in projected'
    <3> SUFFICES ASSUME NEW t \in Submitter, Awaiting(t)'
                 PROVE  /\ Awaiting(t) /\ asked'[t] = asked[t]
                        /\ asked[t] \in waiters => asked[t] \in waiters'
                        /\ asked[t] \in projected => asked[t] \in projected'
      BY Zenon
    <3>1. CASE t = s
      BY <3>1, <2>3
    <3>2. CASE t # s
      <4>1. Awaiting(t) /\ asked'[t] = asked[t]
        BY <3>2, <2>2 DEF Awaiting
      <4>2. Awaiting(s) => asked[t] # asked[s]
        BY <3>2, <4>1 DEF ServedInv, OneWaiter
      <4> QED BY <4>1, <4>2, <2>4
    <3> QED BY <3>1, <3>2
  <2>6. Queued' = Queued
    BY <2>1 DEF Queued
  <2>7. WaiterServed'
    BY <2>1, <2>5, <2>6 DEF ServedInv, WaiterServed, Awaiting
  <2>8. OneWaiter'
    BY <2>5 DEF ServedInv, OneWaiter
  <2> QED BY <2>7, <2>8 DEF ServedInv
<1> QED BY <1>1, <1>2

\* A tick tells every waiter whose request it takes.
LEMMA TickServed ==
  ASSUME TypeInv, OnceInv, ServedInv, TickRun
  PROVE  ServedInv'
<1>1. spc' = spc /\ asked' = asked
  BY DEF TickRun
<1>2. PICK after \in [Request -> State] :
        /\ \A r \in Request : after[r] \in Ticked(r, Queued)
        /\ work' = after
  BY DEF TickRun
<1>3. \A r \in Request : r \in waiters /\ r \in Queued => r \in projected' /\ work'[r] # "absent"
  <2> SUFFICES ASSUME NEW r \in Request, r \in waiters, r \in Queued
               PROVE  r \in projected' /\ after[r] # "absent"
    BY <1>2
  <2>1. r \in projected'
    BY DEF TickRun, Project
  <2>2. work[r] = "absent"
    BY DEF OnceInv, SubmittedOnce
  <2>3. after[r] \in {"running", "stuck", "done", "ready"}
    BY <1>2, <2>2 DEF Ticked
  <2> QED BY <2>1, <2>3
<1>4. \A r \in Request : work[r] # "absent" => work'[r] # "absent"
  <2> SUFFICES ASSUME NEW r \in Request, work[r] # "absent" PROVE after[r] # "absent"
    BY <1>2
  <2>1. CASE work[r] = "stuck"
    BY <2>1, <1>2 DEF Ticked
  <2>2. CASE work[r] # "stuck"
    BY <2>2, <1>2 DEF Ticked, Marked
  <2> QED BY <2>1, <2>2
<1>5. projected \subseteq projected'
  BY DEF TickRun, Project
<1> QED BY <1>1, <1>3, <1>4, <1>5, ServedFrame

LEMMA OtherServed ==
  ASSUME TypeInv, OnceInv, ServedInv,
         EngineStep \/ CancelRun \/ (\E r \in Request : WorkerStep(r)) \/ OperatorStep
  PROVE  ServedInv'
<1> USE DEF submission
<1>1. CASE TickRun
  BY <1>1, TickServed
<1>2. CASE ~TickRun
  <2>1. spc' = spc /\ asked' = asked /\ waiters' = waiters /\ projected' = projected /\ queue' = queue
    BY <1>2 DEF EngineStep, Launch, Run, InitialDrain, TickPaused, Check, Wait, FinishDrain, Exit,
       Reconcile, Abandon, CancelRun, WorkerStep, WriteResult, Notify, OperatorStep, Pause, Resume,
       WakeResumed, MoveWork
  <2>2. \A r \in Request : work[r] # "absent" => work'[r] # "absent"
    <3>1. CASE TickPaused \/ Reconcile
      <4>1. work' = work \/ \A r \in Request : work'[r] \in Routed(r)
        BY <3>1 DEF TickPaused, Reconcile
      <4> QED BY <4>1, RoutedOld
    <3>2. ASSUME NEW r \in Request, WorkerStep(r) PROVE \A q \in Request : work[q] # "absent" => work'[q] # "absent"
      BY <3>2 DEF WorkerStep, WriteResult, Notify, TypeInv, TypeOK
    <3>3. CASE OperatorStep
      BY <3>3 DEF OperatorStep, Pause, Resume, WakeResumed, MoveWork, Marked, TypeInv, TypeOK
    <3>4. CASE (EngineStep \/ CancelRun) /\ ~TickPaused /\ ~Reconcile
      BY <1>2, <3>4 DEF EngineStep, Launch, Run, InitialDrain, Check, Wait, FinishDrain, Exit,
         Abandon, CancelRun
    <3> QED BY <3>1, <3>2, <3>3, <3>4
  <2>3. Queued' = Queued
    BY <2>1 DEF Queued
  <2> QED BY <2>1, <2>2, <2>3, ServedFrame
<1> QED BY <1>1, <1>2

\* A waiting submitter is never forgotten: its request is still queued and it is
\* registered, or the Work exists and its signal is there.
THEOREM WaitersAreServed == Spec => []WaiterServed
<1>1. Init => ServedInv
  BY DEF Init, ServedInv, WaiterServed, OneWaiter, Awaiting
<1>2. TypeInv /\ OnceInv /\ ServedInv /\ [Next]_vars => ServedInv'
  <2>1. TypeInv /\ ServedInv /\ UNCHANGED vars => ServedInv'
    <3> SUFFICES ASSUME TypeInv, ServedInv, UNCHANGED vars PROVE ServedInv'
      OBVIOUS
    <3>1. spc' = spc /\ asked' = asked /\ waiters' = waiters /\ projected' = projected
            /\ queue' = queue /\ work' = work
      BY DEF vars, submission
    <3>2. Queued' = Queued
      BY <3>1 DEF Queued
    <3> QED BY <3>1, <3>2, ServedFrame
  <2> QED BY <2>1, SubmitServed, OtherServed DEF Next
<1>3. ServedInv => WaiterServed
  BY DEF ServedInv
<1> QED BY <1>1, <1>2, <1>3, OnceInvariant, TypeInvariant, PTL DEF Spec
=============================================================================
