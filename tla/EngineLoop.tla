----------------------------- MODULE EngineLoop -----------------------------
(***************************************************************************)
(* The run loop of FactoryEngine: how submissions, worker results and      *)
(* operator controls wake it, and how a finite run ends.  The engine       *)
(* goroutine ticks until nothing changes any more, then sleeps until a     *)
(* signal arrives on one of three channels.  A tick runs under e.mu and    *)
(* the admission gate from beginning to end, so it is one action; so is    *)
(* every other critical section of e.mu.                                   *)
(*                                                                         *)
(* The petri net is abstracted to the state of the single Work item each   *)
(* request brings: "ready" when some transition is enabled for it, "stuck" *)
(* when none is.  Which of the two, and what a result does to its Work, is *)
(* the factory's definition and left open.                                 *)
(***************************************************************************)
EXTENDS Integers, Sequences, FiniteSets

CONSTANTS
  Request,    \* work requests, by request ID
  Submitter,  \* goroutines that submit one request each
  None,       \* no request, no verdict
  ResultCap   \* capacity of resultCh (64 in the code)

ASSUME NoneAssumption  == None \notin Request \cup {"COMPLETE", "INCOMPLETE", "CANCELED"}
ASSUME CapAssumption   == ResultCap \in Nat \ {0}

VARIABLES
  mode,          \* runtimeMode of the termination check
  pc,            \* where the engine goroutine is in Run
  accepting,     \* acceptingSubmits
  accepted,      \* workRequests: the requests recorded as accepted
  queue,         \* submissionHook.batches
  waiters,       \* projectionWaiters
  projected,     \* requests whose projection channel holds a signal
  work,          \* the Work of each request in the marking and the dispatch table
  notifying,     \* requests whose worker still has to announce its result
  submitSignal,  \* submitSignal holds a signal
  resultCh,      \* number of signals in resultCh
  waitCh,        \* waitCh of the dispatch result hook holds a signal
  paused,        \* factoryImpl.state is PAUSED
  waking,        \* Resume has unpaused the factory, its wake is still to come
  verdict,       \* terminationResult
  outcome,       \* what Run ended with
  spc,           \* where each submitter is in SubmitWorkRequest
  asked          \* the request each submitter submits

signals    == <<submitSignal, resultCh, waitCh>>
submission == <<accepted, queue, waiters, projected, spc, asked>>
controls   == <<mode, paused, waking>>
vars       == <<pc, accepting, submission, work, notifying, signals, controls,
                verdict, outcome>>

RunPC    == {"off", "launch", "start", "tick", "check", "drain", "wait", "exit",
             "stopped", "ended"}
SubmitPC == {"idle", "normalized", "signal", "signalAwait", "await", "returned", "failed"}
Marked   == {"ready", "stuck", "done"}       \* a token in the marking
InFlight == {"running", "buffered"}          \* an entry of Dispatches
State    == {"absent"} \cup Marked \cup InFlight
Verdict  == {"COMPLETE", "INCOMPLETE"}

In(state) == {r \in Request : work[r] = state}
Queued    == {queue[n] : n \in 1 .. Len(queue)}
Active    == pc \notin {"off", "launch", "stopped", "ended"}    \* runLoopActive
Pending   == submitSignal \/ resultCh > 0 \/ waitCh

-----------------------------------------------------------------------------

Init ==
  /\ mode \in {"BATCH", "SERVICE"}
  /\ pc = "off"
  /\ accepting = TRUE
  /\ accepted = {}
  /\ queue = << >>
  /\ waiters = {}
  /\ projected = {}
  /\ work = [r \in Request |-> "absent"]
  /\ notifying = {}
  /\ submitSignal = FALSE
  /\ resultCh = 0
  /\ waitCh = FALSE
  /\ paused = FALSE
  /\ waking = FALSE
  /\ verdict = None
  /\ outcome = None
  /\ spc = [s \in Submitter |-> "idle"]
  /\ asked = [s \in Submitter |-> None]

\* Mutation: nobody is signaled.
WakeNobody == UNCHANGED signals

\* WakeForOperatorControl: a signal that does not depend on buffered inputs, and
\* one on the hook's channel when results are buffered.
Wake ==
  /\ submitSignal' = TRUE
  /\ waitCh' = (waitCh \/ In("buffered") # {})
  /\ UNCHANGED resultCh

-----------------------------------------------------------------------------
(* SubmitWorkRequest.                                                      *)

\* The first critical section: an accepted request ID returns at once.
Submit(s, r) ==
  /\ spc[s] = "idle"
  /\ asked' = [asked EXCEPT ![s] = r]
  /\ spc' = [spc EXCEPT ![s] = IF r \in accepted THEN "returned" ELSE "normalized"]
  /\ UNCHANGED <<pc, accepting, accepted, queue, waiters, projected, work, notifying,
                 signals, controls, verdict, outcome>>

\* Mutation: the request ID is not looked up again in the second critical section.
EnqueueUnchecked(s) ==
  /\ spc[s] = "normalized"
  /\ LET r == asked[s]
         awaits == Active /\ ~paused
     IN /\ accepted' = accepted \cup {r}
        /\ queue' = Append(queue, r)
        /\ waiters' = IF awaits THEN waiters \cup {r} ELSE waiters
        /\ spc' = [spc EXCEPT ![s] = IF awaits THEN "signalAwait" ELSE "signal"]
  /\ accepting
  /\ UNCHANGED <<pc, accepting, projected, asked, work, notifying, signals, controls,
                 verdict, outcome>>

\* The second critical section: the request is recorded and queued, and its
\* projection awaited when the run loop is there to make it.
Enqueue(s) ==
  /\ spc[s] = "normalized"
  /\ accepting
  /\ asked[s] \notin accepted
  /\ LET r == asked[s]
         awaits == Active /\ ~paused
     IN /\ accepted' = accepted \cup {r}
        /\ queue' = Append(queue, r)
        /\ waiters' = IF awaits THEN waiters \cup {r} ELSE waiters
        /\ spc' = [spc EXCEPT ![s] = IF awaits THEN "signalAwait" ELSE "signal"]
  /\ UNCHANGED <<pc, accepting, projected, asked, work, notifying, signals, controls,
                 verdict, outcome>>

\* The same critical section when the engine has terminated or another submitter
\* was faster.
Decline(s) ==
  /\ spc[s] = "normalized"
  /\ ~accepting \/ asked[s] \in accepted
  /\ spc' = [spc EXCEPT ![s] = IF accepting THEN "returned" ELSE "failed"]
  /\ UNCHANGED <<pc, accepting, accepted, queue, waiters, projected, asked, work,
                 notifying, signals, controls, verdict, outcome>>

\* The signal is sent after the lock is released.
SendSignal(s) ==
  /\ spc[s] \in {"signal", "signalAwait"}
  /\ submitSignal' = TRUE
  /\ spc' = [spc EXCEPT ![s] = IF @ = "signalAwait" THEN "await" ELSE "returned"]
  /\ UNCHANGED <<pc, accepting, accepted, queue, waiters, projected, asked, work,
                 notifying, resultCh, waitCh, controls, verdict, outcome>>

\* awaitObservableProjection returns.
Projected(s) ==
  /\ spc[s] = "await"
  /\ asked[s] \in projected
  /\ projected' = projected \ {asked[s]}
  /\ spc' = [spc EXCEPT ![s] = "returned"]
  /\ UNCHANGED <<pc, accepting, accepted, queue, waiters, asked, work, notifying,
                 signals, controls, verdict, outcome>>

\* The context of the submitter ends while it waits; the request stays accepted.
GiveUp(s) ==
  /\ spc[s] = "await"
  /\ waiters' = waiters \ {asked[s]}
  /\ spc' = [spc EXCEPT ![s] = "failed"]
  /\ UNCHANGED <<pc, accepting, accepted, queue, projected, asked, work, notifying,
                 signals, controls, verdict, outcome>>

-----------------------------------------------------------------------------
(* Workers and operators.                                                  *)

\* A worker's result is retired by the outbox and written to the result buffer.
WriteResult(r) ==
  /\ work[r] = "running"
  /\ work' = [work EXCEPT ![r] = "buffered"]
  /\ notifying' = notifying \cup {r}
  /\ UNCHANGED <<pc, accepting, submission, signals, controls, verdict, outcome>>

\* Then the engine is notified, on both channels results have; a signal that does
\* not fit is dropped.
Notify(r) ==
  /\ r \in notifying
  /\ notifying' = notifying \ {r}
  /\ resultCh' = IF resultCh < ResultCap THEN resultCh + 1 ELSE resultCh
  /\ waitCh' = TRUE
  /\ UNCHANGED <<pc, accepting, submission, work, submitSignal, controls, verdict, outcome>>

Pause ==
  /\ ~paused
  /\ ~waking
  /\ pc # "ended"
  /\ paused' = TRUE
  /\ UNCHANGED <<pc, accepting, submission, work, notifying, signals, mode, waking, verdict, outcome>>

Resume ==
  /\ paused
  /\ pc # "ended"
  /\ paused' = FALSE
  /\ waking' = TRUE
  /\ UNCHANGED <<pc, accepting, submission, work, notifying, signals, mode, verdict, outcome>>

\* Resume wakes the engine after the factory left PAUSED.
WakeResumed ==
  /\ waking
  /\ waking' = FALSE
  /\ Wake
  /\ UNCHANGED <<pc, accepting, submission, work, notifying, mode, paused, verdict, outcome>>

\* MoveWork relocates Work that is in the marking and wakes the engine under the
\* same lock.
MoveWork(r, state) ==
  /\ accepting
  /\ work[r] \in Marked
  /\ work' = [work EXCEPT ![r] = state]
  /\ Wake
  /\ UNCHANGED <<pc, accepting, submission, notifying, controls, verdict, outcome>>

-----------------------------------------------------------------------------
(* The engine goroutine.                                                   *)

\* factoryImpl.Run: the factory is RUNNING, even when it was paused before.
Launch ==
  /\ pc = "off"
  /\ pc' = "launch"
  /\ paused' = FALSE
  /\ UNCHANGED <<accepting, submission, work, notifying, signals, mode, waking,
                 verdict, outcome>>

\* FactoryEngine.Run begins.
Run ==
  /\ pc = "launch"
  /\ pc' = "start"
  /\ verdict' = None
  /\ UNCHANGED <<accepting, submission, work, notifying, signals, controls, outcome>>

\* drainChannels: a signal of the hook ends the draining, whatever is left of the
\* others; submitSignal is looked at only once the others are empty, which a
\* worker may change in between.
Drain ==
  \/ /\ waitCh
     /\ waitCh' = FALSE
     /\ resultCh' \in 0 .. resultCh
     /\ submitSignal' \in {FALSE, submitSignal}
  \/ /\ ~waitCh
     /\ resultCh' = 0
     /\ submitSignal' = FALSE
     /\ UNCHANGED waitCh

InitialDrain ==
  /\ pc = "start"
  /\ Drain
  /\ pc' = "tick"
  /\ UNCHANGED <<accepting, submission, work, notifying, controls, verdict, outcome>>

\* What the result phases alone may make of the Work of a request: a result moves
\* its Work on, and may so enable Work that waited for it.
Routed(r) ==
  CASE work[r] = "buffered"                       -> Marked
    [] work[r] = "stuck" /\ In("buffered") # {}   -> {"stuck", "ready"}
    [] OTHER                                      -> {work[r]}

\* What all phases may make of it: the Dispatcher starts enabled Work, unless other
\* Work took its resource; then results are routed, which may free what it waits for,
\* and failures cascade.
Ticked(r, new) ==
  LET freed == IF In("buffered") # {} THEN {"ready"} ELSE {}
  IN CASE work[r] = "absent"   -> IF r \in new THEN {"running", "stuck", "done"} \cup freed
                                               ELSE {"absent"}
       [] work[r] = "ready"    -> {"running", "stuck"} \cup freed
       [] work[r] = "stuck"    -> {"stuck"} \cup freed
            \cup (IF new \cup In("ready") # {} THEN {"running"} ELSE {})
            \cup (IF In("buffered") # {} THEN {"done"} ELSE {})
       [] work[r] = "buffered" -> Marked
       [] OTHER                -> {work[r]}

\* Mutation: a paused factory leaves results where they are.
TickPausedIdle ==
  /\ pc = "tick"
  /\ paused
  /\ pc' = "check"
  /\ UNCHANGED <<accepting, submission, work, notifying, signals, controls, verdict, outcome>>

\* A tick while the factory is paused runs the result phases only, and is no tick
\* at all when there are no results.
TickPaused ==
  /\ pc = "tick"
  /\ paused
  /\ IF In("buffered") = {}
       THEN pc' = "check" /\ UNCHANGED <<work, verdict>>
       ELSE /\ \E after \in [Request -> State] :
                 /\ \A r \in Request : after[r] \in Routed(r)
                 /\ work' = after
            /\ verdict' = None
            /\ UNCHANGED pc
  /\ UNCHANGED <<accepting, submission, notifying, signals, controls, outcome>>

\* Mutation: whoever waits for the projection is forgotten.
ProjectNobody(new) == waiters' = waiters \ new /\ UNCHANGED projected

\* signalPendingObservableProjections.
Project(new) ==
  /\ waiters' = waiters \ new
  /\ projected' = projected \cup (waiters \cap new)

\* The termination check: in BATCH mode, when nothing was in flight at any time of
\* the tick and nothing can start.
Classify(after) ==
  IF \/ mode # "BATCH"
     \/ \E r \in Request : work[r] \in InFlight \/ after[r] \in InFlight \cup {"ready"}
    THEN None
    ELSE IF \E r \in Request : after[r] = "stuck" THEN "INCOMPLETE" ELSE "COMPLETE"

\* A whole tick: all queued requests and buffered results are taken, enabled Work
\* is started, results are routed, the run is classified and the waiting
\* submitters are told.  A tick that changed something is followed by another.
TickRun ==
  /\ pc = "tick"
  /\ ~paused
  /\ \E after \in [Request -> State] :
       /\ \A r \in Request : after[r] \in Ticked(r, Queued)
       /\ In("ready") # {} => \E r \in Request \ In("running") : after[r] = "running"
       /\ work' = after
       /\ verdict' = Classify(after)
       /\ pc' = IF Classify(after) # None THEN "drain"
                ELSE IF Queued # {} \/ after # work THEN "tick" ELSE "check"
  /\ queue' = << >>
  /\ Project(Queued)
  /\ UNCHANGED <<accepting, accepted, spc, asked, notifying, signals, controls, outcome>>

\* After a tick without effect: inputs that arrived meanwhile are processed at
\* once.
Check ==
  /\ pc = "check"
  /\ IF ~paused /\ (queue # << >> \/ In("buffered") # {})
       THEN pc' = "tick" /\ Wake
       ELSE pc' = "wait" /\ UNCHANGED signals
  /\ UNCHANGED <<accepting, submission, work, notifying, controls, verdict, outcome>>

\* waitForEngineSignal takes one signal, of whichever channel.
Wait ==
  /\ pc = "wait"
  /\ pc' = "tick"
  /\ \/ resultCh > 0 /\ resultCh' = resultCh - 1 /\ UNCHANGED <<submitSignal, waitCh>>
     \/ submitSignal /\ submitSignal' = FALSE /\ UNCHANGED <<resultCh, waitCh>>
     \/ waitCh /\ waitCh' = FALSE /\ UNCHANGED <<submitSignal, resultCh>>
  /\ UNCHANGED <<accepting, submission, work, notifying, controls, verdict, outcome>>

\* Mutation: the run ends without a look at the channels.
FinishDrainBlind ==
  /\ pc = "drain"
  /\ pc' = "exit"
  /\ accepting' = FALSE
  /\ outcome' = verdict
  /\ UNCHANGED <<submission, work, notifying, signals, controls, verdict>>

\* finishTerminationDrain: a run that was about to end goes on when a wake-up
\* arrived after the tick.
FinishDrain ==
  /\ pc = "drain"
  /\ \/ /\ Pending
        /\ Drain
        /\ pc' = "tick"
        /\ UNCHANGED <<accepting, outcome>>
     \/ /\ ~Pending
        /\ pc' = "exit"
        /\ accepting' = FALSE
        /\ outcome' = verdict
        /\ UNCHANGED signals
  /\ UNCHANGED <<submission, work, notifying, controls, verdict>>

\* The context of the run ends, or a tick fails.
CancelRun ==
  /\ pc \in {"tick", "wait"}
  /\ pc' = "exit"
  /\ outcome' = "CANCELED"
  /\ UNCHANGED <<accepting, submission, work, notifying, signals, controls, verdict>>

\* The deferred function of Run.
Exit ==
  /\ pc = "exit"
  /\ pc' = "stopped"
  /\ accepting' = FALSE
  /\ UNCHANGED <<submission, work, notifying, signals, controls, verdict, outcome>>

\* ReconcileJoinedResults: once every attempt has joined, the results they left are
\* routed as in a paused tick.
Reconcile ==
  /\ pc = "stopped"
  /\ notifying = {}
  /\ \E after \in [Request -> State] :
       /\ \A r \in Request : after[r] \in Routed(r)
       /\ work' = after
  /\ verdict' = IF In("buffered") = {} THEN verdict ELSE None
  /\ pc' = "ended"
  /\ UNCHANGED <<accepting, submission, notifying, signals, controls, outcome>>

\* Stopping the attempts failed or took longer than its deadline.
Abandon ==
  /\ pc = "stopped"
  /\ pc' = "ended"
  /\ UNCHANGED <<accepting, submission, work, notifying, signals, controls, verdict, outcome>>

-----------------------------------------------------------------------------

EngineStep ==
  \/ Launch \/ Run \/ InitialDrain \/ TickPaused \/ TickRun \/ Check \/ Wait
  \/ FinishDrain \/ Exit \/ Reconcile \/ Abandon

SubmitStep(s) ==
  \/ \E r \in Request : Submit(s, r)
  \/ Enqueue(s) \/ Decline(s) \/ SendSignal(s) \/ Projected(s) \/ GiveUp(s)

WorkerStep(r) == WriteResult(r) \/ Notify(r)

OperatorStep ==
  \/ Pause \/ Resume \/ WakeResumed
  \/ \E r \in Request, state \in Marked : MoveWork(r, state)

Next ==
  \/ EngineStep
  \/ CancelRun
  \/ \E s \in Submitter : SubmitStep(s)
  \/ \E r \in Request : WorkerStep(r)
  \/ OperatorStep

Spec == Init /\ [][Next]_vars

\* Goroutines that can run do run.  Nothing is assumed of operators, of contexts
\* that may end, of workers still working or of new submissions.
Fairness ==
  /\ WF_vars(EngineStep)
  /\ WF_vars(WakeResumed)
  /\ \A s \in Submitter : WF_vars(SendSignal(s)) /\ WF_vars(Projected(s))
  /\ \A r \in Request : WF_vars(Notify(r))

FairSpec == Spec /\ Fairness

-----------------------------------------------------------------------------
(* Properties.                                                             *)

\* The type of the state, with the channel of results within its capacity.
TypeOK ==
  /\ mode \in {"BATCH", "SERVICE"}
  /\ pc \in RunPC
  /\ accepting \in BOOLEAN
  /\ accepted \in SUBSET Request
  /\ queue \in Seq(Request)
  /\ waiters \in SUBSET Request
  /\ projected \in SUBSET Request
  /\ work \in [Request -> State]
  /\ notifying \in SUBSET Request
  /\ submitSignal \in BOOLEAN
  /\ resultCh \in 0 .. ResultCap
  /\ waitCh \in BOOLEAN
  /\ paused \in BOOLEAN
  /\ waking \in BOOLEAN
  /\ verdict \in Verdict \cup {None}
  /\ outcome \in Verdict \cup {"CANCELED", None}
  /\ spc \in [Submitter -> SubmitPC]
  /\ asked \in [Submitter -> Request \cup {None}]

\* The engine never falls asleep over work: when it is about to sleep or sleeps,
\* every announced result has left a signal in a channel, and requests queued in a
\* factory that is not paused have one too or somebody who is about to send it.
EngineAwake ==
  pc \in {"check", "wait"} =>
    /\ In("buffered") \subseteq notifying \/ resultCh > 0 \/ waitCh
    /\ queue = << >> \/ paused \/ waking \/ submitSignal
         \/ \E s \in Submitter : spc[s] \in {"signal", "signalAwait"}

\* However often and by whomever a request ID is submitted, it is queued once, and
\* never again once its Work exists.
SubmittedOnce ==
  /\ \A m, n \in 1 .. Len(queue) : queue[m] = queue[n] => m = n
  /\ \A r \in Queued : r \in accepted /\ work[r] = "absent"

\* A submitter that waits for the projection of its request either is registered
\* with the request still queued, or has its signal and finds the Work there.
WaiterServed ==
  \A s \in Submitter : spc[s] \in {"signalAwait", "await"} =>
    \/ asked[s] \in waiters /\ asked[s] \in Queued
    \/ asked[s] \in projected /\ work[asked[s]] # "absent"

\* What a run reports when it ends is true when it ends, operators' moves since
\* the last tick included: nothing is in flight or can start, and all Work is
\* terminal exactly when the run is COMPLETE.
VerdictHolds ==
  pc \in {"exit", "stopped"} /\ outcome \in Verdict =>
    /\ \A r \in Request : work[r] \notin InFlight \cup {"ready"}
    /\ outcome = "COMPLETE" <=> In("stuck") = {}

\* A queued request becomes Work, unless the factory is paused or the run ends; a
\* buffered result is routed, in a paused factory too and after the run has ended,
\* and only a shutdown that fails may leave it.
InputsProcessed ==
  \A r \in Request :
    /\ r \in Queued ~> r \notin Queued \/ paused \/ pc = "ended"
    /\ work[r] = "buffered" ~> work[r] # "buffered" \/ pc = "ended"

\* A submitter that waits for the projection returns, unless the factory is paused
\* meanwhile or the run ends.
SubmitterReturns ==
  \A s \in Submitter : spc[s] = "await" ~> spc[s] # "await" \/ paused \/ ~Active

\* A finite run that completes has finished the Work of every request it accepted:
\* "A finite runtime completes when all customer Work is terminal".
CompletedMeansAllAccepted ==
  outcome = "COMPLETE" /\ pc = "exit" => \A r \in accepted : work[r] = "done"
=============================================================================
