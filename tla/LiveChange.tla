----------------------------- MODULE LiveChange -----------------------------
(***************************************************************************)
(* Live capacity changes of one durable Factory Session:                   *)
(* runDurableLiveChange (execution/idempotency.go) takes the live-change   *)
(* mutex and the admission gate and calls the coordinator                  *)
(* (livechange/service.go), which decides a request from the session's     *)
(* event log, appends a request event, applies the change to the Runtime,  *)
(* appends the result event, and only then lets the Runtime's revision     *)
(* watermark advance.  The process may crash between any two of these      *)
(* steps and a write of the log may fail; the log survives, the Runtime    *)
(* starts again from its authored capacities.                              *)
(*                                                                         *)
(* A request carries its change ID along and both are compared the same    *)
(* way, so one identifier stands for both.  How the Runtime carries a      *)
(* change out is ResourceCapacity; here it takes effect or is refused.     *)
(***************************************************************************)
EXTENDS Integers, Sequences

CONSTANTS
  Operator,   \* goroutines that apply and recover live changes
  Request,    \* request IDs
  Resource,   \* resources of the factory
  Body,       \* what a request may ask for: [target, value, expected]
  Authored,   \* the authored capacity of every resource
  None        \* no operator, no call, no body

Call == [id : Request, body : Body \cup {None}]

ASSUME BodyAssumption ==
  Body \subseteq [target : Resource, value : Nat, expected : Nat]
ASSUME AuthoredAssumption == Authored \in Nat
ASSUME NoneAssumption     == None \notin Operator \cup Body \cup Call

VARIABLES
  log,         \* the session's live-change events, in order
  effective,   \* EffectiveRevision of ProjectState(log)
  capacity,    \* the capacity in force, per resource
  watermark,   \* FactoryEngine.factoryRevision
  holder,      \* who holds liveChangeMu and the admission gate
  pc,          \* where each operator is
  call,        \* the request each operator works on
  started,     \* length of the log when this process started (history)
  unrecorded   \* changes in force whose success event is missing (history)

history == <<log, effective>>
runtime == <<capacity, watermark, started, unrecorded>>
control == <<holder, pc, call>>
vars    == <<history, runtime, control>>

Event == [type : {"request"}, id : Request, body : Body]
           \cup [type : {"success", "failure"}, id : Request, revision : Nat]
PC == {"idle", "waiting", "deciding", "admitting", "applying", "succeeding", "failing", "publishing"}

\* The program points between Lock and Unlock, and those that have a body.
Inside == PC \ {"idle", "waiting"}
Bodied == Inside \ {"deciding"}

-----------------------------------------------------------------------------
(* The log, as findRequest reads it.                                       *)

RequestAt(i, q)  == log[i].type = "request" /\ log[i].id = q
TerminalAt(i, q) == log[i].type # "request" /\ log[i].id = q

HasRequest(q)  == \E i \in DOMAIN log : RequestAt(i, q)
HasSuccess(q)  == \E i \in DOMAIN log : TerminalAt(i, q) /\ log[i].type = "success"
HasTerminal(q) == \E i \in DOMAIN log : TerminalAt(i, q)

\* The body retained in the request event of q.
Recorded(q) == log[CHOOSE i \in DOMAIN log : RequestAt(i, q)].body

\* A body submitted for q that is not the recorded one is a conflict; a recovery
\* submits none.
Conflicts(q, b) == b # None /\ HasRequest(q) /\ b # Recorded(q)

Init ==
  /\ log = << >>
  /\ effective = 0
  /\ capacity = [r \in Resource |-> Authored]
  /\ watermark = 0
  /\ holder = None
  /\ pc = [o \in Operator |-> "idle"]
  /\ call = [o \in Operator |-> None]
  /\ started = 0
  /\ unrecorded = {}

Goto(o, p) == pc' = [pc EXCEPT ![o] = p]

\* The deferred release of the gate and unlock of liveChangeMu.
Return(o) ==
  /\ Goto(o, "idle")
  /\ call' = [call EXCEPT ![o] = None]
  /\ holder' = None

\* AppendLiveChangeEvent persists the event and then shows it; ProjectState
\* takes its revision from success events only.
Record(e) ==
  /\ log' = Append(log, e)
  /\ effective' = IF e.type = "success" THEN e.revision ELSE effective

\* SetFactoryRevision only advances.
Advance(revision) == watermark' = IF revision > watermark THEN revision ELSE watermark

-----------------------------------------------------------------------------
(* Admission.                                                              *)

\* ApplyLiveChange, or RecoverLiveChange when it names no body.
Submit(o, q, b) ==
  /\ pc[o] = "idle"
  /\ Goto(o, "waiting")
  /\ call' = [call EXCEPT ![o] = [id |-> q, body |-> b]]
  /\ UNCHANGED <<history, runtime, holder>>

Lock(o) ==
  /\ pc[o] = "waiting"
  /\ holder = None
  /\ holder' = o
  /\ Goto(o, "deciding")
  /\ UNCHANGED <<history, runtime, call>>

\* The call leaves without a change and without an event: the request conflicts
\* with the recorded one, the gate or the lifecycle refuses it, a recovery finds
\* no request, a new request expects another revision or fails the preflight.
Reject(o) ==
  /\ pc[o] = "deciding"
  /\ Conflicts(call[o].id, call[o].body) \/ ~HasTerminal(call[o].id)
  /\ Return(o)
  /\ UNCHANGED <<history, runtime>>

\* Mutation: a retried request is applied again with its result.
ReplayApplies(o) ==
  /\ pc[o] = "deciding"
  /\ ~Conflicts(call[o].id, call[o].body)
  /\ \E i \in DOMAIN log : TerminalAt(i, call[o].id) /\ Advance(log[i].revision)
  /\ capacity' = IF HasSuccess(call[o].id)
                 THEN [capacity EXCEPT ![Recorded(call[o].id).target] = Recorded(call[o].id).value]
                 ELSE capacity
  /\ Return(o)
  /\ UNCHANGED <<history, started, unrecorded>>

\* replayTerminal: the decision of the log is returned again, and the watermark
\* follows the revision it names.
Replay(o) ==
  /\ pc[o] = "deciding"
  /\ ~Conflicts(call[o].id, call[o].body)
  /\ \E i \in DOMAIN log : TerminalAt(i, call[o].id) /\ Advance(log[i].revision)
  /\ Return(o)
  /\ UNCHANGED <<history, capacity, started, unrecorded>>

\* An unknown request for the effective revision.
Fresh(o) ==
  /\ pc[o] = "deciding"
  /\ call[o].body # None
  /\ ~HasRequest(call[o].id)
  /\ call[o].body.expected = effective

\* noOpResult: what the request asks for is in force.
NoOp(o) ==
  /\ Fresh(o)
  /\ capacity[call[o].body.target] = call[o].body.value
  /\ Advance(effective)
  /\ Return(o)
  /\ UNCHANGED <<history, capacity, started, unrecorded>>

\* applyFresh: the preflight admits the request, which changes something.
Admit(o) ==
  /\ Fresh(o)
  /\ capacity[call[o].body.target] # call[o].body.value
  /\ Goto(o, "admitting")
  /\ UNCHANGED <<history, runtime, holder, call>>

\* A request that was admitted and has no result.
Pending(o) ==
  /\ pc[o] = "deciding"
  /\ HasRequest(call[o].id)
  /\ ~HasTerminal(call[o].id)
  /\ ~Conflicts(call[o].id, call[o].body)

\* Mutation: a pending request is applied whatever happened to the revision.
ResumeAnyRevision(o) ==
  /\ Pending(o)
  /\ call' = [call EXCEPT ![o].body = Recorded(call[o].id)]
  /\ Goto(o, "applying")
  /\ UNCHANGED <<history, runtime, holder>>

\* applyPending: the recorded body is applied, without a second preflight, unless
\* the revision has changed since.
Resume(o) ==
  /\ Pending(o)
  /\ call' = [call EXCEPT ![o].body = Recorded(call[o].id)]
  /\ Goto(o, IF Recorded(call[o].id).expected = effective THEN "applying" ELSE "failing")
  /\ UNCHANGED <<history, runtime, holder>>

\* Mutation: the change is applied although its request event was not written.
AppendRequestUnchecked(o, ok) ==
  /\ pc[o] = "admitting"
  /\ IF ok THEN Record([type |-> "request", id |-> call[o].id, body |-> call[o].body])
     ELSE UNCHANGED history
  /\ Goto(o, "applying")
  /\ UNCHANGED <<runtime, holder, call>>

\* appendRequest.  When the write fails the call returns the error.
AppendRequest(o, ok) ==
  /\ pc[o] = "admitting"
  /\ IF ok
     THEN /\ Record([type |-> "request", id |-> call[o].id, body |-> call[o].body])
          /\ Goto(o, "applying")
          /\ UNCHANGED <<holder, call>>
     ELSE Return(o) /\ UNCHANGED history
  /\ UNCHANGED runtime

-----------------------------------------------------------------------------
(* Application and result.                                                 *)

\* SetResourceCapacityAdmitted puts the capacity in force, and then builds the
\* Factory snapshot of the result, which may fail.
Apply(o, ok) ==
  /\ pc[o] = "applying"
  /\ capacity' = [capacity EXCEPT ![call[o].body.target] = call[o].body.value]
  /\ unrecorded' = unrecorded \cup {call[o].id}
  /\ Goto(o, IF ok THEN "succeeding" ELSE "failing")
  /\ UNCHANGED <<history, watermark, started, holder, call>>

\* The Runtime refuses the change: a recovered one was not preflighted, and any
\* may meet an error.
ApplyRefused(o) ==
  /\ pc[o] = "applying"
  /\ Goto(o, "failing")
  /\ UNCHANGED <<history, runtime, holder, call>>

\* Mutation: the revision is published although the success event was not written.
CloseSuccessUnchecked(o, ok) ==
  /\ pc[o] = "succeeding"
  /\ IF ok
     THEN /\ Record([type |-> "success", id |-> call[o].id,
                     revision |-> call[o].body.expected + 1])
          /\ unrecorded' = unrecorded \ {call[o].id}
     ELSE UNCHANGED <<history, unrecorded>>
  /\ Goto(o, "publishing")
  /\ UNCHANGED <<capacity, watermark, started, holder, call>>

\* closeSuccess.  When the write fails the call returns the error and the
\* request stays pending.
CloseSuccess(o, ok) ==
  /\ pc[o] = "succeeding"
  /\ IF ok
     THEN /\ Record([type |-> "success", id |-> call[o].id,
                     revision |-> call[o].body.expected + 1])
          /\ unrecorded' = unrecorded \ {call[o].id}
          /\ Goto(o, "publishing")
          /\ UNCHANGED <<holder, call>>
     ELSE Return(o) /\ UNCHANGED <<history, unrecorded>>
  /\ UNCHANGED <<capacity, watermark, started>>

\* closeFailure, after which the call returns the failure.
CloseFailure(o, ok) ==
  /\ pc[o] = "failing"
  /\ IF ok THEN Record([type |-> "failure", id |-> call[o].id, revision |-> effective])
           ELSE UNCHANGED history
  /\ Return(o)
  /\ UNCHANGED runtime

\* setRevision, and the return of the call.
Publish(o) ==
  /\ pc[o] = "publishing"
  /\ Advance(call[o].body.expected + 1)
  /\ Return(o)
  /\ UNCHANGED <<history, capacity, started, unrecorded>>

\* The process dies and starts again: the log is read back, every call is gone,
\* the Runtime has its authored capacities and no revision.
Crash ==
  /\ capacity' = [r \in Resource |-> Authored]
  /\ watermark' = 0
  /\ started' = Len(log)
  /\ unrecorded' = {}
  /\ holder' = None
  /\ pc' = [o \in Operator |-> "idle"]
  /\ call' = [o \in Operator |-> None]
  /\ UNCHANGED history

-----------------------------------------------------------------------------

Step(o) ==
  \/ Reject(o) \/ Replay(o) \/ NoOp(o) \/ Admit(o) \/ Resume(o) \/ ApplyRefused(o) \/ Publish(o)
  \/ \E ok \in BOOLEAN :
       AppendRequest(o, ok) \/ Apply(o, ok) \/ CloseSuccess(o, ok) \/ CloseFailure(o, ok)

Next ==
  \/ \E o \in Operator, q \in Request, b \in Body \cup {None} : Submit(o, q, b)
  \/ \E o \in Operator : Lock(o) \/ Step(o)
  \/ Crash

Spec == Init /\ [][Next]_vars

-----------------------------------------------------------------------------
(* Refinement: the log alone decides what happened to a request.           *)

phaseOf(q) == IF HasSuccess(q) THEN "applied"
              ELSE IF HasTerminal(q) THEN "failed"
              ELSE IF HasRequest(q) THEN "admitted" ELSE "none"

Abstract == INSTANCE LiveChangeOnce WITH
  NoBody   <- None,
  phase    <- [q \in Request |-> phaseOf(q)],
  body     <- [q \in Request |-> IF HasRequest(q) THEN Recorded(q) ELSE None],
  revision <- effective

\* A live change is decided at most once, with the body and for the revision it
\* was admitted with, whatever crashes, failed writes, retries and recoveries
\* happen in between.
ImplementsLiveChangeOnce == Abstract!Spec

-----------------------------------------------------------------------------
(* Properties.                                                             *)

\* The shape of the state; exactly the call between Lock and Unlock holds the
\* mutex, and one that is past its decision has a body.
TypeOK ==
  /\ log \in Seq(Event)
  /\ effective \in Nat
  /\ capacity \in [Resource -> Nat]
  /\ watermark \in Nat
  /\ holder \in Operator \cup {None}
  /\ pc \in [Operator -> PC]
  /\ call \in [Operator -> Call \cup {None}]
  /\ started \in 0 .. Len(log)
  /\ unrecorded \in SUBSET Request
  /\ \A o \in Operator :
       /\ call[o] = None <=> pc[o] = "idle"
       /\ holder = o <=> pc[o] \in Inside
       /\ pc[o] \in Bodied => call[o].body # None

\* The log can always be read back: one request event and at most one result per
\* request, in that order (findRequest fails on anything else, and with it every
\* later call for the session).
LogRecoverable ==
  \A i, j \in DOMAIN log :
    log[i].id = log[j].id =>
      /\ log[i].type = "request" /\ log[j].type = "request" => i = j
      /\ log[i].type # "request" /\ log[j].type # "request" => i = j
      /\ log[i].type # "request" => HasRequest(log[i].id)
      /\ log[i].type = "request" /\ log[j].type # "request" => i < j

\* "an event-append failure cannot publish a false revision"
\* (engine/resource_capacity.go:217): the watermark of the Runtime never runs
\* ahead of the log.
WatermarkTrails == watermark <= effective

\* The last change of r that this process recorded as applied, or none.
LastSet(r) ==
  LET sets == {i \in started + 1 .. Len(log) :
                 log[i].type = "success" /\ Recorded(log[i].id).target = r}
  IN  IF sets = {} THEN Authored
      ELSE Recorded(log[CHOOSE i \in sets : \A j \in sets : j <= i].id).value

\* What is in force is what the log says, for the life of the process and except
\* for changes that were applied and could not be recorded as applied.
HistoryInForce ==
  \A r \in Resource :
    (\A q \in unrecorded : Recorded(q).target # r) => capacity[r] = LastSet(r)
=============================================================================
