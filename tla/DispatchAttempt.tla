-------------------------- MODULE DispatchAttempt --------------------------
(***************************************************************************)
(* From a published intent to its routed result: the publisher call that   *)
(* starts an attempt (runtime/invoke_worker.go), the attemptLifecycle that *)
(* admits, runs, cancels and joins it (runtime/worker_pool.go), the        *)
(* acceptance of its terminal result, in which the attempt's callback and  *)
(* public AcceptDispatchResult calls compete                               *)
(* (runtime/dispatch_result_hook.go), and stopDispatchRuntime, which seals *)
(* and joins all of it.                                                    *)
(*                                                                         *)
(* The outbox appears as far as these parts read or write it: one status   *)
(* and one result per intent.  Its modes, order and locks are the subject  *)
(* of DispatchOutbox; pausing only delays the offers made here, and an     *)
(* intent whose publication failed may be offered again because any later  *)
(* Resume drains it.  Attempts run asynchronously, as in production; the   *)
(* recorded results of a replay and InvokeWorker are left out.             *)
(***************************************************************************)
EXTENDS Integers, Sequences, FiniteSets

CONSTANTS
  Dispatch,   \* dispatch intents; each is also the name of its attempt
  Caller,     \* goroutines that call AcceptDispatchResult
  WorkID,     \* Work IDs a caller may name
  Lineage,    \* the Work IDs of a dispatch
  First,      \* the Work ID an attempt's own result names (workIDs[0])
  Answer,     \* the results callers submit for a dispatch
  None,       \* no result, no claim
  Capacity    \* attemptLifecycle.capacity

ASSUME CallerAssumption   == Dispatch \cap Caller = {}
ASSUME LineageAssumption  == First \in Lineage /\ Lineage \subseteq WorkID
ASSUME CapacityAssumption == Capacity \in Nat \ {0}

Outcome == {"COMPLETED", "FAILED", "CANCELED"}

Terminal == [work : WorkID, outcome : Outcome]
Claim    == [dispatch : Dispatch, work : WorkID, outcome : Outcome]

ASSUME AnswerAssumption == Answer \subseteq Terminal
ASSUME NoneAssumption   == None \notin Terminal \cup Claim

VARIABLES
  mode,         \* Planner.mode: "STOPPED", or "OPEN" for ACTIVE and PAUSED
  status,       \* intentRecord.status, "ABSENT" before acceptance
  result,       \* intentRecord.result
  offer,        \* where the publisher call of each intent is
  sealed,       \* attemptLifecycle.stopped
  attempt,      \* where the attempt of each dispatch is
  terminal,     \* the keys of attemptLifecycle.terminal
  canceled,     \* the active attempts whose activeAttempt.canceled is set
  gone,         \* the active attempts whose activeAttempt.processGone is set
  unprepared,   \* dispatches whose preparation failed with an error (history)
  acceptor,     \* where each acceptance is: an attempt's callback or a caller
  claim,        \* the result it is about to submit
  shared,       \* dispatchAcceptanceState: "open", "materializing" or an outcome
  routed,       \* the results written to the buffer for the engine
  asyncErr,     \* dispatchPlanningResultHook.asyncErr was set
  ctl,          \* where stopDispatchRuntimeLocked is
  stopErr,      \* its stopErr
  expired       \* the five seconds of its context are over

intent   == <<mode, status, result>>
attempts == <<sealed, attempt, terminal, canceled, gone, unprepared>>
accepts  == <<acceptor, claim, shared, routed, asyncErr>>
stop     == <<ctl, stopErr, expired>>
vars     == <<intent, offer, attempts, accepts, stop>>

Acceptor == Dispatch \cup Caller
Status      == {"ABSENT", "PENDING", "PUBLISHING", "PUBLISHED", "RETIRED"}
Offer       == {"none", "calling", "preparing", "accepting", "offered", "failed"}
AttemptPC   == {"none", "preparing", "executing", "answering", "done"}
AcceptorPC  == {"idle", "looking", "claiming", "materializing", "waiting", "retiring", "routing"}
StopPC      == {"idle", "sealing", "closing", "canceling", "stopping", "joining", "stopped", "failed"}

\* attemptLifecycle.active.
Active == {d \in Dispatch : attempt[d] \in {"preparing", "executing"}}

-----------------------------------------------------------------------------

Init ==
  /\ mode = "OPEN"
  /\ status = [d \in Dispatch |-> "ABSENT"]
  /\ result = [d \in Dispatch |-> None]
  /\ offer = [d \in Dispatch |-> "none"]
  /\ sealed = FALSE
  /\ attempt = [d \in Dispatch |-> "none"]
  /\ terminal = {}
  /\ canceled = {}
  /\ gone = {}
  /\ unprepared = {}
  /\ acceptor = [a \in Acceptor |-> "idle"]
  /\ claim = [a \in Acceptor |-> None]
  /\ shared = [d \in Dispatch |-> "open"]
  /\ routed = [d \in Dispatch |-> << >>]
  /\ asyncErr = FALSE
  /\ ctl = "idle"
  /\ stopErr = FALSE
  /\ expired = FALSE

\* The callback of the attempt of d (or the publisher of d in its place)
\* starts to deliver outcome o.
Deliver(d, o) ==
  /\ acceptor' = [acceptor EXCEPT ![d] = "looking"]
  /\ claim' = [claim EXCEPT ![d] = [dispatch |-> d, work |-> First, outcome |-> o]]

\* Acceptance a is over.  The end of an attempt's callback closes attempt.done
\* and is counted by pending; the publisher goes on to return nil.
Answered(a) ==
  /\ acceptor' = [acceptor EXCEPT ![a] = "idle"]
  /\ claim' = [claim EXCEPT ![a] = None]
  /\ attempt' = [d \in Dispatch |->
                   IF d = a /\ attempt[d] = "answering" THEN "done" ELSE attempt[d]]
  /\ offer' = [d \in Dispatch |->
                   IF d = a /\ offer[d] = "accepting" THEN "offered" ELSE offer[d]]

-----------------------------------------------------------------------------
(* Publication: Planner.publish and startThroughStatelessWorkers.          *)

Accept(d) ==
  /\ status[d] = "ABSENT"
  /\ mode = "OPEN"
  /\ status' = [status EXCEPT ![d] = "PENDING"]
  /\ UNCHANGED <<mode, result, offer, attempts, accepts, stop>>

\* First critical section of publish, by the goroutine that accepted the intent
\* or by a Resume that drains it.
BeginOffer(d) ==
  /\ status[d] = "PENDING"
  /\ mode = "OPEN"
  /\ status' = [status EXCEPT ![d] = "PUBLISHING"]
  /\ offer' = [offer EXCEPT ![d] = "calling"]
  /\ UNCHANGED <<mode, result, attempts, accepts, stop>>

\* The publisher fails before it has admitted an attempt: the request cannot be
\* built, admission is closed, or the lifecycle is full.
StartFails(d) ==
  /\ offer[d] = "calling"
  /\ offer' = [offer EXCEPT ![d] = "failed"]
  /\ UNCHANGED <<intent, attempts, accepts, stop>>

\* The publisher answers without an attempt: a logical workstation completes,
\* a prompt that cannot be rendered fails.
AnswerInline(d, o) ==
  /\ offer[d] = "calling"
  /\ offer' = [offer EXCEPT ![d] = "accepting"]
  /\ Deliver(d, o)
  /\ UNCHANGED <<intent, attempts, shared, routed, asyncErr, stop>>

\* admitAttempt finds the dispatch active or already terminal: start returns nil.
StartAgain(d) ==
  /\ offer[d] = "calling"
  /\ ~sealed
  /\ d \in Active \cup terminal
  /\ offer' = [offer EXCEPT ![d] = "offered"]
  /\ UNCHANGED <<intent, attempts, accepts, stop>>

\* admitAttempt: the attempt is active, counted by pending and by opening.
Admit(d) ==
  /\ offer[d] = "calling"
  /\ ~sealed
  /\ d \notin Active \cup terminal
  /\ Cardinality(Active) < Capacity
  /\ offer' = [offer EXCEPT ![d] = "preparing"]
  /\ attempt' = [attempt EXCEPT ![d] = "preparing"]
  /\ UNCHANGED <<intent, sealed, terminal, canceled, gone, unprepared, accepts, stop>>

\* The preparation succeeded: opening.Done, and the attempt runs on its own.
Prepared(d) ==
  /\ offer[d] = "preparing"
  /\ offer' = [offer EXCEPT ![d] = "offered"]
  /\ attempt' = [attempt EXCEPT ![d] = "executing"]
  /\ UNCHANGED <<intent, sealed, terminal, canceled, gone, unprepared, accepts, stop>>

\* The preparation failed: finish makes the dispatch terminal, no callback is
\* made, and the publisher returns the error.
PrepareFails(d) ==
  /\ offer[d] = "preparing"
  /\ offer' = [offer EXCEPT ![d] = "failed"]
  /\ attempt' = [attempt EXCEPT ![d] = "none"]
  /\ terminal' = terminal \cup {d}
  /\ unprepared' = unprepared \cup {d}
  /\ canceled' = canceled \ {d}
  /\ UNCHANGED <<intent, sealed, gone, accepts, stop>>

\* The preparation failed with ErrStartOpeningPublication or ErrCallerInvalid:
\* the publisher accepts a failed result in place of the attempt.
PrepareRefused(d) ==
  /\ offer[d] = "preparing"
  /\ offer' = [offer EXCEPT ![d] = "accepting"]
  /\ attempt' = [attempt EXCEPT ![d] = "none"]
  /\ terminal' = terminal \cup {d}
  /\ canceled' = canceled \ {d}
  /\ Deliver(d, "FAILED")
  /\ UNCHANGED <<intent, sealed, gone, unprepared, shared, routed, asyncErr, stop>>

\* Mutation: the return of the publisher reopens an intent that was retired.
EndOfferReopens(d) ==
  /\ offer[d] \in {"offered", "failed"}
  /\ status' = [status EXCEPT ![d] = IF offer[d] = "offered" THEN "PUBLISHED" ELSE "PENDING"]
  /\ offer' = [offer EXCEPT ![d] = "none"]
  /\ UNCHANGED <<mode, result, attempts, accepts, stop>>

\* Second critical section of publish.
EndOffer(d) ==
  /\ offer[d] \in {"offered", "failed"}
  /\ status' = [status EXCEPT ![d] =
                  IF @ = "RETIRED" THEN @
                  ELSE IF offer[d] = "offered" THEN "PUBLISHED" ELSE "PENDING"]
  /\ offer' = [offer EXCEPT ![d] = "none"]
  /\ UNCHANGED <<mode, result, attempts, accepts, stop>>

-----------------------------------------------------------------------------
(* The attempt.                                                            *)

\* cancel, by Worker Sessions or an operator, finds the attempt active.
Cancel(d) ==
  /\ d \in Active \ canceled
  /\ canceled' = canceled \cup {d}
  /\ UNCHANGED <<intent, offer, sealed, attempt, terminal, gone, unprepared, accepts, stop>>

\* reconcileProcessGone: the process of the attempt vanished before any cancel.
ProcessGone(d) ==
  /\ attempt[d] = "executing"
  /\ d \notin canceled
  /\ canceled' = canceled \cup {d}
  /\ gone' = gone \cup {d}
  /\ UNCHANGED <<intent, offer, sealed, attempt, terminal, unprepared, accepts, stop>>

\* The outcomes the terminal callback of the attempt of d may deliver, whatever
\* Execute returned: a canceled attempt was canceled, one whose process is gone
\* failed unless the Worker Session was forced to an end.
Deliverable(d) == IF d \in gone THEN {"FAILED", "CANCELED"}
                  ELSE IF d \in canceled THEN {"CANCELED"}
                  ELSE Outcome

\* Execute returned: finish frees the place of the attempt before its callback.
Finish(d, o) ==
  /\ attempt[d] = "executing"
  /\ o \in Deliverable(d)
  /\ attempt' = [attempt EXCEPT ![d] = "answering"]
  /\ terminal' = terminal \cup {d}
  /\ canceled' = canceled \ {d}
  /\ gone' = gone \ {d}
  /\ Deliver(d, o)
  /\ UNCHANGED <<intent, offer, sealed, unprepared, shared, routed, asyncErr, stop>>

-----------------------------------------------------------------------------
(* Acceptance of a terminal result.                                        *)

\* acceptLiveWorkersResult reads the intent: one that has its result only gets
\* it once more, which Retire classifies as a duplicate.
Look(d) ==
  /\ acceptor[d] = "looking"
  /\ IF result[d] # None
     THEN Answered(d)
     ELSE acceptor' = [acceptor EXCEPT ![d] = "claiming"] /\ UNCHANGED <<claim, attempt, offer>>
  /\ UNCHANGED <<intent, sealed, terminal, canceled, gone, unprepared, shared, routed, asyncErr, stop>>

\* AcceptDispatchResult finds the intent and builds the result it was given.
CallAccept(c, d, r) ==
  /\ acceptor[c] = "idle"
  /\ status[d] # "ABSENT"
  /\ acceptor' = [acceptor EXCEPT ![c] = "claiming"]
  /\ claim' = [claim EXCEPT ![c] = [dispatch |-> d, work |-> r.work, outcome |-> r.outcome]]
  /\ UNCHANGED <<intent, offer, attempts, shared, routed, asyncErr, stop>>

\* The shared result of the dispatch is submitted in place of the own one.
TakeShared(a) ==
  /\ acceptor' = [acceptor EXCEPT ![a] = "retiring"]
  /\ claim' = [claim EXCEPT ![a].outcome = shared[claim[a].dispatch]]

\* Mutation: the callback of the attempt submits its own result all the same.
ClaimWorkerOwn(d) ==
  /\ acceptor[d] = "claiming"
  /\ IF shared[d] = "open"
     THEN /\ shared' = [shared EXCEPT ![d] = "materializing"]
          /\ acceptor' = [acceptor EXCEPT ![d] = "materializing"]
     ELSE /\ shared' = shared
          /\ acceptor' = [acceptor EXCEPT ![d] = "retiring"]
  /\ claim' = claim
  /\ UNCHANGED <<intent, offer, attempts, routed, asyncErr, stop>>

\* claimWorker: the first contender materializes the output of the attempt.
ClaimWorker(d) ==
  /\ acceptor[d] = "claiming"
  /\ IF shared[d] = "open"
     THEN /\ shared' = [shared EXCEPT ![d] = "materializing"]
          /\ acceptor' = [acceptor EXCEPT ![d] = "materializing"]
          /\ claim' = claim
     ELSE shared' = shared /\ TakeShared(d)
  /\ UNCHANGED <<intent, offer, attempts, routed, asyncErr, stop>>

\* claimRoot: a contender that finds a materialization under way waits for it.
ClaimRoot(c) ==
  /\ acceptor[c] = "claiming"
  /\ LET d == claim[c].dispatch IN
       CASE shared[d] = "open" ->
              /\ shared' = [shared EXCEPT ![d] = claim[c].outcome]
              /\ acceptor' = [acceptor EXCEPT ![c] = "retiring"]
              /\ claim' = claim
         [] shared[d] = "materializing" ->
              acceptor' = [acceptor EXCEPT ![c] = "waiting"] /\ UNCHANGED <<claim, shared>>
         [] OTHER -> shared' = shared /\ TakeShared(c)
  /\ UNCHANGED <<intent, offer, attempts, routed, asyncErr, stop>>

\* Mutation: ready is not closed when the materialization fails.
MaterializeSilent(d, o) ==
  /\ acceptor[d] = "materializing"
  /\ o = claim[d].outcome \/ (o = "FAILED" /\ claim[d].outcome = "COMPLETED")
  /\ shared' = [shared EXCEPT ![d] = IF o = claim[d].outcome THEN o ELSE @]
  /\ acceptor' = [acceptor EXCEPT ![d] = "retiring"]
  /\ claim' = [claim EXCEPT ![d].outcome = o]
  /\ UNCHANGED <<intent, offer, attempts, routed, asyncErr, stop>>

\* Work materialized the output, or refused it and the result is a failure;
\* finishWorker publishes it to the waiting contenders.
Materialize(d, o) ==
  /\ acceptor[d] = "materializing"
  /\ o = claim[d].outcome \/ (o = "FAILED" /\ claim[d].outcome = "COMPLETED")
  /\ shared' = [shared EXCEPT ![d] = o]
  /\ acceptor' = [acceptor EXCEPT ![d] = "retiring"]
  /\ claim' = [claim EXCEPT ![d].outcome = o]
  /\ UNCHANGED <<intent, offer, attempts, routed, asyncErr, stop>>

\* dispatchAcceptanceState.wait.
Ready(c) ==
  /\ acceptor[c] = "waiting"
  /\ shared[claim[c].dispatch] \in Outcome
  /\ TakeShared(c)
  /\ UNCHANGED <<intent, offer, attempts, shared, routed, asyncErr, stop>>

\* What Planner.Retire makes of the claim of a: the first result of a visible
\* intent retires it, the same one again is a duplicate, the rest is refused.
Submitted(a)  == [work |-> claim[a].work, outcome |-> claim[a].outcome]
Retires(a)    == LET d == claim[a].dispatch IN
                   /\ claim[a].work \in Lineage
                   /\ result[d] = None
                   /\ status[d] \in {"PUBLISHED", "PUBLISHING"}
Duplicates(a) == claim[a].work \in Lineage /\ result[claim[a].dispatch] = Submitted(a)

\* acceptCanonicalResult, when Retire returns RETIRED.
Retire(a) ==
  /\ acceptor[a] = "retiring"
  /\ Retires(a)
  /\ status' = [status EXCEPT ![claim[a].dispatch] = "RETIRED"]
  /\ result' = [result EXCEPT ![claim[a].dispatch] = Submitted(a)]
  /\ acceptor' = [acceptor EXCEPT ![a] = "routing"]
  /\ UNCHANGED <<mode, offer, attempts, claim, shared, routed, asyncErr, stop>>

\* Mutation: a duplicate is routed like the first result.
RefuseRoutes(a) ==
  /\ acceptor[a] = "retiring"
  /\ ~Retires(a)
  /\ routed' = [routed EXCEPT ![claim[a].dispatch] =
                  IF Duplicates(a) THEN Append(@, claim[a].outcome) ELSE @]
  /\ Answered(a)
  /\ asyncErr' = (asyncErr \/ (a \in Dispatch /\ ~Duplicates(a)))
  /\ UNCHANGED <<intent, sealed, terminal, canceled, gone, unprepared, shared, stop>>

\* acceptCanonicalResult, when it does not.  A caller gets the duplicate or the
\* error as its answer; the callback of an attempt can only record the error,
\* with which the next tick fails.
Refuse(a) ==
  /\ acceptor[a] = "retiring"
  /\ ~Retires(a)
  /\ Answered(a)
  /\ asyncErr' = (asyncErr \/ (a \in Dispatch /\ ~Duplicates(a)))
  /\ UNCHANGED <<intent, sealed, terminal, canceled, gone, unprepared, shared, routed, stop>>

\* The retired result is written to the buffer and signaled to the engine.
Route(a) ==
  /\ acceptor[a] = "routing"
  /\ routed' = [routed EXCEPT ![claim[a].dispatch] = Append(@, claim[a].outcome)]
  /\ Answered(a)
  /\ UNCHANGED <<intent, sealed, terminal, canceled, gone, unprepared, shared, asyncErr, stop>>

-----------------------------------------------------------------------------
(* stopDispatchRuntimeLocked.                                              *)

\* The stop moves on to program point p.
StopAt(p) == ctl' = p /\ UNCHANGED <<stopErr, expired>>

\* The context of the stop is over while its step waits: the step returns the
\* error, and the stop moves on to p.
GiveUp(p) ==
  /\ expired
  /\ ctl' = p
  /\ stopErr' = TRUE
  /\ UNCHANGED <<intent, offer, attempts, accepts, expired>>

\* sealAdmission closes admission, and then waits for the preparations.
Seal ==
  /\ ctl \in {"idle", "stopped", "failed"}
  /\ sealed' = TRUE
  /\ ctl' = "sealing"
  /\ stopErr' = FALSE
  /\ expired' = FALSE
  /\ UNCHANGED <<intent, offer, attempt, terminal, canceled, gone, unprepared, accepts>>

\* opening.Wait returned.
OpeningsJoined ==
  /\ ctl = "sealing"
  /\ \A d \in Dispatch : attempt[d] # "preparing"
  /\ StopAt("closing")
  /\ UNCHANGED <<intent, offer, attempts, accepts>>

\* CloseRuntimeAttempts returned, with or without an error, after cancels of
\* its own (Cancel); Planner.Stop seals the outbox.
StopOutbox(ok) ==
  /\ ctl = "closing"
  /\ ~expired
  /\ mode' = "STOPPED"
  /\ ctl' = "canceling"
  /\ stopErr' = (stopErr \/ ~ok)
  /\ UNCHANGED <<status, result, offer, attempts, accepts, expired>>

\* Planner.Stop goes through the intents: it waits for publisher calls in
\* flight and cancels what Workers has.
CancelPublished ==
  /\ ctl = "canceling"
  /\ \A d \in Dispatch : status[d] # "PUBLISHING"
  /\ canceled' = canceled \cup {d \in Active : status[d] = "PUBLISHED"}
  /\ StopAt("stopping")
  /\ UNCHANGED <<intent, offer, sealed, attempt, terminal, gone, unprepared, accepts>>

\* Mutation: stop relies on the outbox to have canceled what it published.
StopAttemptsForgets ==
  /\ ctl = "stopping"
  /\ StopAt("joining")
  /\ UNCHANGED <<intent, offer, attempts, accepts>>

\* attemptLifecycle.stop cancels every active attempt.
StopAttempts ==
  /\ ctl = "stopping"
  /\ canceled' = canceled \cup Active
  /\ StopAt("joining")
  /\ UNCHANGED <<intent, offer, sealed, attempt, terminal, gone, unprepared, accepts>>

\* Mutation: stop waits for the active attempts only, not for their callbacks.
AttemptsJoinedActive ==
  /\ ctl = "joining"
  /\ Active = {}
  /\ StopAt(IF stopErr THEN "failed" ELSE "stopped")
  /\ UNCHANGED <<intent, offer, attempts, accepts>>

\* pending.Wait returned: every admitted callback has been made.
AttemptsJoined ==
  /\ ctl = "joining"
  /\ \A d \in Dispatch : attempt[d] \in {"none", "done"}
  /\ StopAt(IF stopErr THEN "failed" ELSE "stopped")
  /\ UNCHANGED <<intent, offer, attempts, accepts>>

\* The steps that wait give up when the context is over.  Planner.Stop looks at
\* it first: an outbox that it reaches too late is not sealed.
StopGivesUp ==
  \/ ctl = "sealing" /\ GiveUp("closing")
  \/ ctl \in {"closing", "canceling"} /\ GiveUp("stopping")
  \/ ctl = "joining" /\ GiveUp("failed")

\* The five seconds are over.
StopExpires ==
  /\ ctl \notin {"idle", "stopped", "failed"}
  /\ ~expired
  /\ expired' = TRUE
  /\ UNCHANGED <<intent, offer, attempts, accepts, ctl, stopErr>>

-----------------------------------------------------------------------------

OfferStep(d) ==
  \/ StartFails(d) \/ StartAgain(d) \/ Admit(d)
  \/ (\E o \in {"COMPLETED", "FAILED"} : AnswerInline(d, o))
  \/ Prepared(d) \/ PrepareFails(d) \/ PrepareRefused(d) \/ EndOffer(d)

WorkerStep(d) ==
  Look(d) \/ ClaimWorker(d) \/ \E o \in Outcome : Materialize(d, o)

AcceptStep(a) == Retire(a) \/ Refuse(a) \/ Route(a)

CallerStep(c) == ClaimRoot(c) \/ Ready(c)

StopStep ==
  OpeningsJoined \/ (\E ok \in BOOLEAN : StopOutbox(ok)) \/ CancelPublished
    \/ StopAttempts \/ AttemptsJoined \/ StopGivesUp

Next ==
  \/ \E d \in Dispatch : Accept(d) \/ BeginOffer(d) \/ Cancel(d) \/ ProcessGone(d)
  \/ \E d \in Dispatch, o \in Outcome : Finish(d, o)
  \/ \E d \in Dispatch : OfferStep(d) \/ WorkerStep(d)
  \/ \E c \in Caller, d \in Dispatch, r \in Answer : CallAccept(c, d, r)
  \/ \E c \in Caller : CallerStep(c)
  \/ \E a \in Acceptor : AcceptStep(a)
  \/ Seal \/ StopStep \/ StopExpires

Spec == Init /\ [][Next]_vars

(* Goroutines keep running and the calls they make return: the preparation *)
(* of an attempt, the materialization in Work, and the execution of an     *)
(* attempt once its context is canceled.  Nothing obliges an attempt that  *)
(* nobody cancels to end, or anybody to accept, offer, cancel or stop.     *)
Fairness ==
  /\ \A d \in Dispatch :
       /\ WF_vars(OfferStep(d))
       /\ WF_vars(WorkerStep(d))
       /\ WF_vars(d \in canceled /\ \E o \in Outcome : Finish(d, o))
  /\ \A c \in Caller : WF_vars(CallerStep(c))
  /\ \A a \in Acceptor : WF_vars(AcceptStep(a))
  /\ WF_vars(StopStep)

FairSpec == Spec /\ Fairness

-----------------------------------------------------------------------------
(* Properties.                                                             *)

\* The shape of the state: a publisher prepares exactly the attempt it
\* admitted, an acceptance has a claim while it is under way, and the active
\* attempts never exceed the capacity.
TypeOK ==
  /\ mode \in {"OPEN", "STOPPED"}
  /\ status \in [Dispatch -> Status]
  /\ result \in [Dispatch -> Terminal \cup {None}]
  /\ offer \in [Dispatch -> Offer]
  /\ sealed \in BOOLEAN
  /\ attempt \in [Dispatch -> AttemptPC]
  /\ terminal \in SUBSET Dispatch
  /\ canceled \in SUBSET Dispatch
  /\ gone \in SUBSET canceled
  /\ unprepared \in SUBSET terminal
  /\ acceptor \in [Acceptor -> AcceptorPC]
  /\ claim \in [Acceptor -> Claim \cup {None}]
  /\ \A a \in Acceptor : claim[a] = None <=> acceptor[a] = "idle"
  /\ shared \in [Dispatch -> Outcome \cup {"open", "materializing"}]
  /\ routed \in [Dispatch -> Seq(Outcome)]
  /\ asyncErr \in BOOLEAN
  /\ ctl \in StopPC
  /\ stopErr \in BOOLEAN
  /\ expired \in BOOLEAN
  /\ Cardinality(Active) <= Capacity

\* The engine gets one result per dispatch, and it is the one the outbox keeps
\* as the terminal result, however many contenders submit (Retire before Write
\* in acceptCanonicalResult).
RoutedOnce ==
  \A d \in Dispatch : routed[d] # << >> =>
    /\ status[d] = "RETIRED"
    /\ routed[d] = << result[d].outcome >>

\* An intent that counts as published is in the hands of a running attempt or
\* of its callback, unless its preparation failed before; and the lifecycle
\* knows it, so that Planner.Stop can cancel it.
PublishedIsCarried ==
  \A d \in Dispatch : status[d] = "PUBLISHED" =>
    /\ attempt[d] \in {"executing", "answering"} \/ d \in unprepared
    /\ d \in Active \cup terminal

\* From the end of sealAdmission on no attempt is being prepared, so Worker Sessions
\* takes its snapshot of a closed set; and after a stop without error nothing runs any
\* more: every callback was made, nothing can be admitted or offered, and no published
\* intent is left without its result.
StopJoinsAttempts ==
  /\ ctl \in {"closing", "canceling", "stopping", "joining", "stopped"} /\ ~stopErr =>
       \A d \in Dispatch : attempt[d] # "preparing"
  /\ ctl = "stopped" =>
       /\ sealed /\ mode = "STOPPED"
       /\ \A d \in Dispatch :
            /\ attempt[d] \in {"none", "done"}
            /\ status[d] = "PUBLISHED" => d \in unprepared

\* When a dispatch carries one Work, the callback of its attempt never collides
\* with the results that callers submit: no tick fails for it.
JoinIsQuiet == Lineage = {First} => ~asyncErr

\* A stop brings every published intent to its result, also when it gives up,
\* and even when it comes too late to seal the outbox.
StoppedIsRouted ==
  \A d \in Dispatch :
    (sealed /\ status[d] = "PUBLISHED" /\ d \notin unprepared)
      ~> (status[d] = "RETIRED" /\ routed[d] # << >>)

\* Every acceptance returns: a contender that waits for the materialization of
\* another one is always woken.
AcceptReturns == \A a \in Acceptor : acceptor[a] = "waiting" ~> acceptor[a] = "idle"
=============================================================================
