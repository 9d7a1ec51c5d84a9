--------------------------- MODULE DispatchOutbox ---------------------------
(***************************************************************************)
(* The dispatch outbox of one factory runtime: the Planner of              *)
(* dispatch_planning/internal/service.  The engine tick and the public     *)
(* PlanDispatch operation (the Callers) accept intents and publish them to *)
(* Workers, operator controls pause, resume and stop the outbox, and       *)
(* terminal results retire intents.  Every critical section of Planner.mu  *)
(* is one action; the calls the Planner makes without the lock (the        *)
(* Workers publisher and canceler) are the intervals between two actions.  *)
(*                                                                         *)
(* Pause, Resume and Stop are called under factoryImpl's                   *)
(* workerSessionControlMu (runtime/factory.go, runtime/worker_pool.go), so *)
(* one thread, the Controller, issues all of them.  Calls that only report *)
(* an error or an idempotent duplicate change nothing: they are the        *)
(* stuttering steps of this specification.                                 *)
(***************************************************************************)
EXTENDS Integers, Sequences, FiniteSets

CONSTANTS
  Intent,       \* dispatch intents, by dispatch ID (= correlation ID)
  Caller,       \* goroutines that call Publish or Retry
  Controller,   \* the goroutine that holds workerSessionControlMu
  Outcome,      \* terminal results a caller may submit for an intent
  None,         \* no intent, no result
  MaxAttempts   \* bound: the attempts counter saturates here

ASSUME ControllerAssumption == Controller \notin Caller
ASSUME NoneAssumption       == None \notin Intent \cup Outcome
ASSUME AttemptsAssumption   == MaxAttempts \in Nat \ {0}

VARIABLES
  mode,       \* Planner.mode
  ordered,    \* Planner.ordered: accepted intents, oldest first
  status,     \* intentRecord.status, "ABSENT" before acceptance
  attempts,   \* intentRecord.attempts, saturated at MaxAttempts
  result,     \* intentRecord.result
  cancelled,  \* intents whose intentRecord.cancelled is set
  pc,         \* where each thread is between two critical sections
  target,     \* the intent each thread is working on
  snapshot,   \* the Controller's copy of ordered (Resume and Stop)
  next,       \* its position in that copy
  stopOK      \* some Stop call has returned nil

planner == <<mode, ordered, status, attempts, result, cancelled>>
control == <<snapshot, next, stopOK>>
vars    == <<planner, pc, target, control>>

Thread == Caller \cup {Controller}
Mode   == {"ACTIVE", "PAUSED", "STOPPED"}
Status == {"ABSENT", "PENDING", "PUBLISHING", "PUBLISHED", "RETIRED"}

CallerPC  == {"idle", "enter", "calling"}
ControlPC == CallerPC \cup {"drain", "repause", "cancel", "await", "request", "canceling"}

\* The program points at which a thread is not working on an intent.
Between == {"idle", "drain", "cancel"}

-----------------------------------------------------------------------------

Init ==
  /\ mode = "ACTIVE"
  /\ ordered = << >>
  /\ status = [i \in Intent |-> "ABSENT"]
  /\ attempts = [i \in Intent |-> 0]
  /\ result = [i \in Intent |-> None]
  /\ cancelled = {}
  /\ pc = [t \in Thread |-> "idle"]
  /\ target = [t \in Thread |-> None]
  /\ snapshot = << >>
  /\ next = 1
  /\ stopOK = FALSE

\* Thread t moves to program point p, working on intent i (None: on nothing).
Goto(t, p, i) ==
  /\ pc' = [pc EXCEPT ![t] = p]
  /\ target' = [target EXCEPT ![t] = i]

\* Mutation: Resume forgets to re-pause after a failed publication.
ReturnedNoRepause(t, ok) ==
  IF t # Controller THEN Goto(t, "idle", None)
  ELSE Goto(t, IF ok THEN "drain" ELSE "idle", None)

\* publish returned to its caller: Publish and Retry return, Resume goes on
\* with its loop or, after an error, re-pauses the outbox.
Returned(t, ok) ==
  IF t # Controller THEN Goto(t, "idle", None)
  ELSE IF ok THEN Goto(t, "drain", None)
  ELSE Goto(t, "repause", target[t])

\* Mutation: publishDone is not closed when the intent was retired during the call.
InCallOrRetired(i) == status[i] = "RETIRED" \/ \E t \in Thread : pc[t] = "calling" /\ target[t] = i

\* publishDone of intent i is open: its publisher call has not come back.
InCall(i) == \E t \in Thread : pc[t] = "calling" /\ target[t] = i

-----------------------------------------------------------------------------
(* Publish, Retry and the publish function they share with Resume.         *)

\* Publish reserves the identities and appends the record.  The PAUSED test
\* is made under the same lock; publish is entered after it is released.
Publish(c, i) ==
  /\ pc[c] = "idle"
  /\ status[i] = "ABSENT"
  /\ mode # "STOPPED"
  /\ ordered' = Append(ordered, i)
  /\ status' = [status EXCEPT ![i] = "PENDING"]
  /\ IF mode = "PAUSED" THEN UNCHANGED <<pc, target>> ELSE Goto(c, "enter", i)
  /\ UNCHANGED <<mode, attempts, result, cancelled, control>>

\* Retry enters publish for a pending intent of an active outbox only.
Retry(c, i) ==
  /\ pc[c] = "idle"
  /\ status[i] = "PENDING"
  /\ mode = "ACTIVE"
  /\ Goto(c, "enter", i)
  /\ UNCHANGED <<planner, control>>

\* Mutation: the status is not checked again under the lock.
BeginCallUnchecked(t) ==
  /\ pc[t] = "enter"
  /\ status[target[t]] # "RETIRED"
  /\ mode = "ACTIVE"
  /\ status' = [status EXCEPT ![target[t]] = "PUBLISHING"]
  /\ attempts' = [attempts EXCEPT ![target[t]] = MaxAttempts]
  /\ Goto(t, "calling", target[t])
  /\ UNCHANGED <<mode, ordered, result, cancelled, control>>

\* First critical section of publish, when it goes on to call the publisher.
BeginCall(t) ==
  /\ pc[t] = "enter"
  /\ status[target[t]] = "PENDING"
  /\ mode = "ACTIVE"
  /\ status' = [status EXCEPT ![target[t]] = "PUBLISHING"]
  /\ attempts' = [attempts EXCEPT ![target[t]] =
                    IF @ < MaxAttempts THEN @ + 1 ELSE @]
  /\ Goto(t, "calling", target[t])
  /\ UNCHANGED <<mode, ordered, result, cancelled, control>>

\* The same critical section when it returns: nil when the intent is no longer
\* pending or the outbox is paused, an error when the outbox is stopped.
SkipCall(t) ==
  /\ pc[t] = "enter"
  /\ status[target[t]] # "PENDING" \/ mode # "ACTIVE"
  /\ Returned(t, status[target[t]] # "PENDING" \/ mode # "STOPPED")
  /\ UNCHANGED <<planner, control>>

\* Mutation: the return of the publisher overwrites the status of a retired intent.
EndCallOverwrites(t, ok) ==
  /\ pc[t] = "calling"
  /\ status' = [status EXCEPT ![target[t]] = IF ok THEN "PUBLISHED" ELSE "PENDING"]
  /\ Returned(t, ok)
  /\ UNCHANGED <<mode, ordered, attempts, result, cancelled, control>>

\* Second critical section of publish: the publisher came back.  An intent that
\* was retired by its own result meanwhile keeps that state.
EndCall(t, ok) ==
  /\ pc[t] = "calling"
  /\ status' = [status EXCEPT ![target[t]] =
                  IF @ = "RETIRED" THEN @ ELSE IF ok THEN "PUBLISHED" ELSE "PENDING"]
  /\ Returned(t, ok)
  /\ UNCHANGED <<mode, ordered, attempts, result, cancelled, control>>

\* Retire records the first terminal result of an intent visible to Workers.
Retire(i, r) ==
  /\ result[i] = None
  /\ status[i] \in {"PUBLISHED", "PUBLISHING"}
  /\ result' = [result EXCEPT ![i] = r]
  /\ status' = [status EXCEPT ![i] = "RETIRED"]
  /\ UNCHANGED <<mode, ordered, attempts, cancelled, pc, target, control>>

-----------------------------------------------------------------------------
(* Pause and Resume.                                                       *)

Pause ==
  /\ pc[Controller] = "idle"
  /\ mode # "STOPPED"
  /\ mode' = "PAUSED"
  /\ UNCHANGED <<ordered, status, attempts, result, cancelled, pc, target, control>>

\* Resume activates the outbox and copies ordered in one critical section, and
\* drains the copy without the lock.
Resume ==
  /\ pc[Controller] = "idle"
  /\ mode # "STOPPED"
  /\ mode' = "ACTIVE"
  /\ snapshot' = ordered
  /\ next' = 1
  /\ Goto(Controller, "drain", None)
  /\ UNCHANGED <<ordered, status, attempts, result, cancelled, stopOK>>

\* The next record of the copy, or the return of Resume after the last one.
Drain ==
  /\ pc[Controller] = "drain"
  /\ IF next <= Len(snapshot)
     THEN next' = next + 1 /\ Goto(Controller, "enter", snapshot[next])
     ELSE next' = next /\ Goto(Controller, "idle", None)
  /\ UNCHANGED <<planner, snapshot, stopOK>>

\* Resume after a publication failed.
Repause ==
  /\ pc[Controller] = "repause"
  /\ mode' = IF mode = "ACTIVE" THEN "PAUSED" ELSE mode
  /\ Goto(Controller, "idle", None)
  /\ UNCHANGED <<ordered, status, attempts, result, cancelled, control>>

-----------------------------------------------------------------------------
(* Stop.                                                                   *)

\* Stop seals the outbox and copies ordered in one critical section.
Stop ==
  /\ pc[Controller] = "idle"
  /\ mode' = "STOPPED"
  /\ snapshot' = ordered
  /\ next' = 1
  /\ Goto(Controller, "cancel", None)
  /\ UNCHANGED <<ordered, status, attempts, result, cancelled, stopOK>>

\* Mutation: Stop does not wait for a publisher call in flight.
CancelNextNoWait ==
  /\ pc[Controller] = "cancel"
  /\ next <= Len(snapshot)
  /\ LET i == snapshot[next] IN
       IF status[i] = "PUBLISHED" THEN Goto(Controller, "request", i)
                                  ELSE UNCHANGED <<pc, target>>
  /\ next' = next + 1
  /\ UNCHANGED <<planner, snapshot, stopOK>>

\* cancelIfPublished reads the status of the next record; a publisher call in
\* flight is waited for.
CancelNext ==
  /\ pc[Controller] = "cancel"
  /\ next <= Len(snapshot)
  /\ LET i == snapshot[next] IN
       CASE status[i] = "PUBLISHING" -> Goto(Controller, "await", i)
         [] status[i] = "PUBLISHED"  -> Goto(Controller, "request", i)
         [] OTHER                    -> UNCHANGED <<pc, target>>
  /\ next' = next + 1
  /\ UNCHANGED <<planner, snapshot, stopOK>>

\* publishDone is closed: the status is read again.
AwaitCall ==
  /\ pc[Controller] = "await"
  /\ ~InCall(target[Controller])
  /\ IF status[target[Controller]] = "PUBLISHED"
     THEN Goto(Controller, "request", target[Controller])
     ELSE Goto(Controller, "cancel", None)
  /\ UNCHANGED <<planner, control>>

\* The context of Stop ends first: Stop returns its error.
AwaitTimeout ==
  /\ pc[Controller] = "await"
  /\ Goto(Controller, "idle", None)
  /\ UNCHANGED <<planner, control>>

\* First critical section of cancelPublished.
RequestCancel ==
  /\ pc[Controller] = "request"
  /\ LET i == target[Controller] IN
       IF i \in cancelled \/ result[i] # None
       THEN Goto(Controller, "cancel", None)
       ELSE Goto(Controller, "canceling", i)
  /\ UNCHANGED <<planner, control>>

\* Second critical section of cancelPublished: the canceler came back.  Its
\* error ends Stop before the records that follow.
EndCancel(ok) ==
  /\ pc[Controller] = "canceling"
  /\ cancelled' = IF ok THEN cancelled \cup {target[Controller]} ELSE cancelled
  /\ Goto(Controller, IF ok THEN "cancel" ELSE "idle", None)
  /\ UNCHANGED <<mode, ordered, status, attempts, result, control>>

\* Stop returns nil after the last record.
EndStop ==
  /\ pc[Controller] = "cancel"
  /\ next > Len(snapshot)
  /\ stopOK' = TRUE
  /\ Goto(Controller, "idle", None)
  /\ UNCHANGED <<planner, snapshot, next>>

-----------------------------------------------------------------------------

PublishStep(t) == BeginCall(t) \/ SkipCall(t) \/ \E ok \in BOOLEAN : EndCall(t, ok)

StopStep == CancelNext \/ AwaitCall \/ RequestCancel
              \/ (\E ok \in BOOLEAN : EndCancel(ok)) \/ EndStop

ControlStep == Drain \/ Repause \/ StopStep

Next ==
  \/ \E c \in Caller, i \in Intent : Publish(c, i) \/ Retry(c, i)
  \/ \E t \in Thread : PublishStep(t)
  \/ \E i \in Intent, r \in Outcome : Retire(i, r)
  \/ Pause \/ Resume \/ Stop
  \/ ControlStep \/ AwaitTimeout

Spec == Init /\ [][Next]_vars

(* Goroutines that are running keep running and the publisher and canceler *)
(* calls return (the publisher starts an attempt and does not wait for it, *)
(* runtime/invoke_worker.go:98).  Nothing obliges anybody to call Publish, *)
(* a control operation or Retire, and Stop is not saved by its timeout.    *)
Fairness ==
  /\ \A t \in Thread : WF_vars(PublishStep(t))
  /\ WF_vars(ControlStep)

FairSpec == Spec /\ Fairness

-----------------------------------------------------------------------------
(* Properties.                                                             *)

\* The shape of the state; a thread has a target exactly while it works on one.
TypeOK ==
  /\ mode \in Mode
  /\ ordered \in Seq(Intent)
  /\ status \in [Intent -> Status]
  /\ attempts \in [Intent -> 0 .. MaxAttempts]
  /\ result \in [Intent -> Outcome \cup {None}]
  /\ cancelled \in SUBSET Intent
  /\ pc \in [Thread -> ControlPC]
  /\ \A c \in Caller : pc[c] \in CallerPC
  /\ target \in [Thread -> Intent \cup {None}]
  /\ \A t \in Thread : target[t] = None <=> pc[t] \in Between
  /\ snapshot \in Seq(Intent)
  /\ next \in Nat \ {0}
  /\ stopOK \in BOOLEAN

\* At most one publisher call per intent is in flight, whoever makes it (a
\* Publish, a concurrent Retry, a Resume that drains the same record): publish
\* closes publishDone exactly once per call, and a pending intent is in nobody's
\* hands.
OneCallPerIntent ==
  /\ \A t, u \in Thread : pc[t] = "calling" /\ pc[u] = "calling" /\ t # u
                            => target[t] # target[u]
  /\ \A t \in Thread : pc[t] = "calling" => status[target[t]] \in {"PUBLISHING", "RETIRED"}
  /\ \A i \in Intent : status[i] = "PUBLISHING" => InCall(i)

\* An accepted intent is never forgotten: while the outbox is active, one that
\* was never offered to Workers is about to be, either by the goroutine that
\* accepted it (or retries it) or by a Resume that has not reached it yet.
NoStrandedIntent ==
  \A i \in Intent :
    mode = "ACTIVE" /\ status[i] = "PENDING" /\ attempts[i] = 0 =>
      \/ \E t \in Thread : target[t] = i /\ pc[t] = "enter"
      \/ /\ pc[Controller] \in {"drain", "enter", "calling", "repause"}
         /\ \E n \in next .. Len(snapshot) : snapshot[n] = i

\* The first terminal result wins for good, also when it arrives while the
\* publisher call is still in flight: no late publisher return reopens the
\* intent and no later result replaces the first.
FirstResultWins ==
  [][\A i \in Intent : result[i] # None =>
       result'[i] = result[i] /\ status'[i] = "RETIRED"]_vars

\* Once a Stop has returned nil, nothing is left running behind its back: no
\* publication is in progress and every intent Workers still run was told to
\* cancel.
StopLeavesNothingRunning ==
  stopOK => \A i \in Intent :
    /\ status[i] # "PUBLISHING"
    /\ status[i] = "PUBLISHED" => i \in cancelled

\* The abstract view of this outbox.
Once == INSTANCE DispatchOnce WITH phase <- status, sealed <- (mode = "STOPPED")

\* The goroutines, locks and retries of the Planner implement DispatchOnce: every
\* step is one of its steps or leaves the phases alone, so a delivered intent is
\* never offered again and nothing is accepted or offered after Stop.
ImplementsDispatchOnce == Once!Spec

\* What the comment of Resume says ("A failed publication returns the outbox to
\* PAUSED so later intents cannot overtake it"): when the publication of a
\* drained intent has failed, no intent accepted after that Resume began has
\* been published ahead of it.
FailedResumeNotOvertaken ==
  pc[Controller] = "repause" =>
    \A i \in Intent :
      status[i] # "ABSENT" /\ (\A n \in 1 .. Len(snapshot) : snapshot[n] # i)
        => attempts[i] = 0

\* A control operation that has begun returns: Resume and Stop do not wait
\* forever for publisher calls of other goroutines.
ControlReturns == (pc[Controller] # "idle") ~> (pc[Controller] = "idle")

\* An accepted intent of an active outbox is offered to Workers, unless an
\* operator pauses or stops the outbox (or a Resume fails) first.
AcceptedIsOffered ==
  \A i \in Intent :
    (status[i] = "PENDING" /\ mode = "ACTIVE") ~> (attempts[i] > 0 \/ mode # "ACTIVE")
=============================================================================
