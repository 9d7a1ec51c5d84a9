----------------------------- MODULE FactoryNet -----------------------------
(***************************************************************************)
(* The marking of one factory and the subsystems of a tick: the circuit    *)
(* breaker, the dispatcher with the scheduler, the transitioner with the   *)
(* histories of Work, and cascading failure.                               *)
(*                                                                         *)
(* The engine holds e.mu over a tick, so submissions, moves and other      *)
(* ticks come between ticks; only results of workers arrive in between.    *)
(* What a result says is looked at when it is routed, so its outcome is    *)
(* chosen there.  A transition takes one Work, and one unit of the         *)
(* factory's resource if it uses it.  How the engine sleeps and wakes is   *)
(* EngineLoop; how one result is accepted for one dispatch is              *)
(* DispatchAttempt.                                                        *)
(***************************************************************************)
EXTENDS Naturals, FiniteSets, Functions

CONSTANTS
  Work,         \* Work items
  DependsOn,    \* the DEPENDS_ON relations: targets of each Work
  Required,     \* the place each target must be in
  Category,     \* the category of each place
  Start,        \* where a submitted Work enters
  FailedPlace,  \* where failed Work goes: the first FAILED place of the work type
  Trace,        \* the chaining trace of each Work, "" when it has none
  Name,         \* and its name, "" when it has none
  Transition,
  From,         \* input place of a transition
  Route,        \* places for the outcomes that have arcs, by transition
  Logical,      \* transitions without a worker
  Retries,      \* maxRetries of a workstation, 0 when it has none
  Watch,        \* the transition a VISIT_COUNT guard watches
  MaxVisits,    \* and the visits from which it lets a Work pass
  UsesUnit,     \* transitions that use a unit of the resource
  Units,        \* the units, ordered like their token IDs
  MaxDispatches,\* what the scheduler selects at most in one tick
  Outcomes,     \* the outcomes that occur
  MaxUpsets     \* bound: requeues, operator moves and pauses

Arcs    == {"accepted", "continue", "rejected", "failed"}
Places  == DOMAIN Category
Guarded == DOMAIN Watch

\* The counters that something reads.
Watched == {Watch[g] : g \in Guarded}
Limited == {t \in Transition : Retries[t] > 0}

\* What a result can mean.  terminal, retryable and throttled are failures with
\* metadata; forced is a cancellation by a confirmed force; misjudged and
\* salvaged are results whose outcome the stop words turn round.
Outcome == Arcs \cup {"terminal", "retryable", "throttled", "canceled", "forced",
                      "misjudged", "salvaged"}

ASSUME NetAssumption ==
  /\ Work \subseteq Nat /\ IsFiniteSet(Work)
  /\ Units \subseteq Nat \ {0} /\ IsFiniteSet(Units)
  /\ DependsOn \in [Work -> SUBSET Work]
  /\ "none" \notin Places \cup Transition
  /\ Required \in Places /\ Start \in Places /\ FailedPlace \in Places
  /\ \A p \in Places : Category[p] \in {"INITIAL", "PROCESSING", "TERMINAL", "FAILED"}
  /\ Category[FailedPlace] = "FAILED"
  /\ From \in [Transition -> Places]
  /\ Route \in [Transition -> [Arcs -> Places]]
  /\ Logical \subseteq Transition /\ UsesUnit \subseteq Transition
  /\ Retries \in [Transition -> Nat]
  /\ Guarded \subseteq Transition
  /\ Watch \in [Guarded -> Transition] /\ MaxVisits \in [Guarded -> Nat]
  /\ Outcomes \subseteq Outcome
  /\ MaxDispatches \in Nat /\ MaxUpsets \in Nat

VARIABLES
  board,    \* the place of the token of each Work, "none" when it has none
  visits,   \* TokenHistory.TotalVisits
  fails,    \* TokenHistory.ConsecutiveFailures
  flight,   \* the dispatch entry of each Work: its transition and unit
  free,     \* resource tokens in the marking
  buffer,   \* Work whose dispatch has a buffered result
  results,  \* Work whose results this tick has routed
  phase,    \* the subsystem the tick runs next
  paused,   \* automaticTicksPaused
  full,     \* this tick began unpaused
  known,    \* accepted Work
  queue,    \* accepted Work not in the marking yet
  superseded, \* accepted Work taken out of the marking for good (history)
  upsets    \* what is left of MaxUpsets

history == <<visits, fails>>
intake  == <<known, queue, superseded>>
vars    == <<board, visits, fails, flight, free, buffer, results, phase, paused, full,
             known, queue, superseded, upsets>>

Idle   == [trans |-> "none", unit |-> 0]
Phases == {"idle", "breaker", "dispatcher", "transitioner", "cascade", "retire"}

OnBoard(w)  == board[w] # "none"
Failed(w)   == OnBoard(w) /\ Category[board[w]] = "FAILED"
InFlight(w) == flight[w] # Idle
Out(w)      == InFlight(w) /\ w \notin results
Settled(p)  == p \in Places /\ Category[p] \in {"TERMINAL", "FAILED"}

Init ==
  /\ board = [w \in Work |-> "none"]
  /\ visits = [w \in Work |-> [t \in Watched |-> 0]]
  /\ fails = [w \in Work |-> [t \in Limited |-> 0]]
  /\ flight = [w \in Work |-> Idle]
  /\ free = Units
  /\ buffer = {} /\ results = {}
  /\ phase = "idle" /\ paused = FALSE /\ full = FALSE
  /\ known = {} /\ queue = {} /\ superseded = {}
  /\ upsets = MaxUpsets

-----------------------------------------------------------------------------
(* Between ticks.                                                          *)

\* A batch is admitted when the targets of its relations are in the marking, in
\* a dispatch or in the batch.
Submit(batch) ==
  /\ phase = "idle"
  /\ batch # {} /\ batch \cap known = {}
  /\ \A w \in batch : \A d \in DependsOn[w] : d \in batch \/ OnBoard(d) \/ InFlight(d)
  /\ known' = known \cup batch
  /\ queue' = queue \cup batch
  /\ UNCHANGED <<board, history, flight, free, buffer, results, phase, paused, full, superseded,
                 upsets>>

\* An operator moves Work that is not in flight.  Leaving a FAILED place clears the
\* counters that would fail it again.
MoveWork(w, p) ==
  /\ phase = "idle"
  /\ upsets > 0
  /\ OnBoard(w) /\ ~InFlight(w) /\ p # board[w]
  /\ board' = [board EXCEPT ![w] = p]
  /\ IF Failed(w)
       THEN /\ visits' = [visits EXCEPT ![w] = [t \in Watched |-> 0]]
            /\ fails' = [fails EXCEPT ![w] = [t \in Limited |-> 0]]
       ELSE UNCHANGED history
  /\ upsets' = upsets - 1
  /\ UNCHANGED <<flight, free, buffer, results, phase, paused, full, intake>>

Pause ==
  /\ ~paused /\ upsets > 0
  /\ paused' = TRUE
  /\ upsets' = upsets - 1
  /\ UNCHANGED <<board, history, flight, free, buffer, results, phase, full, intake>>

Resume ==
  /\ paused
  /\ paused' = FALSE
  /\ UNCHANGED <<board, history, flight, free, buffer, results, phase, full, intake, upsets>>

\* A worker, or the publication of a logical dispatch, writes its result.
Return(w) ==
  /\ InFlight(w)
  /\ w \notin buffer \cup results
  /\ buffer' = buffer \cup {w}
  /\ UNCHANGED <<board, history, flight, free, results, phase, paused, full, intake, upsets>>

-----------------------------------------------------------------------------
(* The tick.                                                               *)

\* A tick of a running factory puts the accepted Work in the marking.
BeginTick ==
  /\ phase = "idle" /\ ~paused
  /\ board' = [w \in Work |-> IF w \in queue THEN Start ELSE board[w]]
  /\ queue' = {}
  /\ full' = TRUE
  /\ phase' = "breaker"
  /\ UNCHANGED <<history, flight, free, buffer, results, paused, known, superseded, upsets>>

\* A tick of a paused factory only routes results, if there are any.
BeginPausedTick ==
  /\ phase = "idle" /\ paused
  /\ buffer # {}
  /\ full' = FALSE
  /\ phase' = "transitioner"
  /\ UNCHANGED <<board, history, flight, free, buffer, results, paused, intake, upsets>>

\* Mutation: the limit is breached one failure later.
SpentLate(w) == \E t \in Limited : fails[w][t] > Retries[t]

\* checkLimits: w has used up the retries of a workstation.
Spent(w) == \E t \in Limited : fails[w][t] >= Retries[t]

\* The circuit breaker fails Work that is not settled and is out of retries.
Breaker ==
  /\ phase = "breaker"
  /\ board' = [w \in Work |-> IF OnBoard(w) /\ ~Settled(board[w]) /\ Spent(w)
                                THEN FailedPlace ELSE board[w]]
  /\ phase' = "dispatcher"
  /\ UNCHANGED <<history, flight, free, buffer, results, paused, full, intake, upsets>>

\* Mutation: one met dependency is asked for.
DependencyMet(w) == \E d \in DependsOn[w] : board[d] = Required

\* DependencyGuard: every target is in its required place now.
DependenciesMet(w) == \A d \in DependsOn[w] : board[d] = Required

\* Tokens are bound in the order of their IDs.  Work changes its ID when it is
\* routed first, so any order of Work may occur; units keep theirs.
Orders == Bijection(Work, Work)

\* The Work the input arc of t can bind.  A guarded transition has one binding a
\* tick, to its first match; the mapper gives dependency guards to the arcs from
\* INITIAL places that have no other guard.
Eligible(t, order) ==
  LET waiting == {w \in Work : board[w] = From[t]}
      matched == {w \in waiting : visits[w][Watch[t]] >= MaxVisits[t]}
  IN IF t \in Guarded
       THEN {w \in matched : \A v \in matched : order[w] <= order[v]}
       ELSE {w \in waiting : Category[From[t]] = "INITIAL" => DependenciesMet(w)}

\* The bindings of t: the i-th eligible Work goes with the i-th free unit.
Bindings(t, order) ==
  LET eligible == Eligible(t, order)
      position(w) == Cardinality({v \in eligible : order[v] <= order[w]})
  IN IF t \in UsesUnit
       THEN {b \in [work : eligible, trans : {t}, unit : free] :
               position(b.work) = Cardinality({u \in free : u <= b.unit})}
       ELSE [work : eligible, trans : {t}, unit : {0}]

\* Work in process first, then logical workstations before workers.
Rank(b) == (IF Category[From[b.trans]] = "PROCESSING" THEN 0 ELSE 2)
             + (IF b.trans \in Logical THEN 0 ELSE 1)

Conflict(b, c) == b.work = c.work \/ (b.unit = c.unit /\ b.unit # 0)

\* What Select can pick from the bindings C: it takes them in an order that
\* respects Rank, skipping those that conflict with an earlier one, up to its
\* limit.  The rest of the order (queue times, names) is left open.
Selections(C) ==
  {S \in SUBSET C :
     /\ Cardinality(S) <= MaxDispatches
     /\ \A b, c \in S : b # c => ~Conflict(b, c)
     /\ \A c \in C \ S : \/ \E b \in S : Conflict(b, c) /\ Rank(b) <= Rank(c)
                         \/ /\ Cardinality(S) = MaxDispatches
                            /\ \A b \in S : Rank(b) <= Rank(c)}

\* The bindings of all transitions.
Enabled == {UNION {Bindings(t, order) : t \in Transition} : order \in Orders}

\* The dispatcher consumes the tokens of the selected bindings and enters them
\* in the dispatch table.
Dispatch ==
  /\ phase = "dispatcher"
  /\ \E C \in Enabled : \E S \in Selections(C) :
       /\ board' = [w \in Work |-> IF \E b \in S : b.work = w THEN "none" ELSE board[w]]
       /\ free' = free \ {b.unit : b \in S}
       /\ flight' = [w \in Work |->
                       IF \E b \in S : b.work = w
                         THEN LET b == CHOOSE b \in S : b.work = w
                              IN [trans |-> b.trans, unit |-> b.unit]
                         ELSE flight[w]]
  /\ phase' = "transitioner"
  /\ UNCHANGED <<history, buffer, results, paused, full, intake, upsets>>

\* Where a result o of transition t sends its Work: along the arcs of the
\* outcome, to the FAILED place, or back to where it came from.
Destination(t, o) ==
  CASE o \in Arcs                                  -> Route[t][o]
    [] o = "salvaged"                              -> Route[t]["accepted"]
    [] o = "misjudged"                             -> Route[t]["failed"]
    [] o \in {"terminal", "forced"}                -> FailedPlace
    [] o \in {"retryable", "throttled", "canceled"} -> From[t]

\* A canceled claim is restored with the history it was taken with; any other
\* result counts as a visit.
Visits(n, o) == IF o \in {"canceled", "forced"} THEN n ELSE n + 1

\* Failures other than for want of provider capacity count against the retries,
\* by the outcome the worker reported; other outcomes start the count again.
Fails(n, o) ==
  CASE o \in {"failed", "terminal", "retryable", "salvaged"}   -> n + 1
    [] o \in {"throttled", "canceled", "forced"}               -> n
    [] o \in {"accepted", "continue", "rejected", "misjudged"} -> 0

\* Mutation: a requeue does not release the unit.
ReturnedUnlessRequeued(o) ==
  {flight[w].unit : w \in {v \in DOMAIN o : o[v] # "retryable"}} \ {0}

\* Every result gives the unit of its dispatch back.
Returned(o) == {flight[w].unit : w \in DOMAIN o} \ {0}

\* The bound counts the results that leave Work where it was, and those that add a
\* failure to Work that goes on.
Upsets(o) == {w \in DOMAIN o : \/ Destination(flight[w].trans, o[w]) = From[flight[w].trans]
                               \/ o[w] = "salvaged"}

\* The places an accepted result of t clears of Work it supersedes.  The code knows
\* two workstations and these places by name.  As a result has one output here, the
\* clause of process needs a factory in which it turns its Work into a review.
Cleared(t) ==
  LET done == Route[t]["accepted"]
  IN CASE t = "process" /\ done = "review:init" -> {"review:init"}
       [] t = "review" /\ done \in {"task:to-complete", "task:complete"} ->
            {"review:init", "task:init", "task:failed"}
       [] OTHER -> {}

\* Mutation: the trace is not compared.
SupersedesAny(v, w) ==
  /\ board[w] \in Cleared(flight[v].trans)
  /\ Name[v] # "" => Name[w] = Name[v]

\* The accepted result of v consumes w, where w waited when the transitioner began:
\* other Work of the trace, with the same name unless v has none.
Supersedes(v, w) ==
  /\ board[w] \in Cleared(flight[v].trans)
  /\ Trace[v] # "" /\ Trace[w] = Trace[v]
  /\ Name[v] # "" => Name[w] = Name[v]
  /\ board[w] = "review:init" => Name[v] # ""

\* The Work whose results with outcomes o supersede w, and the Work superseded.
Superseders(o, w) == {v \in DOMAIN o : o[v] \in {"accepted", "salvaged"} /\ Supersedes(v, w)}
Residue(o)        == {w \in Work : Superseders(o, w) # {}}

\* The results with outcomes o are routed.
RouteAs(o) ==
  /\ upsets' = upsets - Cardinality(Upsets(o))
  /\ board' = [w \in Work |-> IF w \in DOMAIN o THEN Destination(flight[w].trans, o[w])
                            ELSE IF w \in Residue(o) THEN "none"
                            ELSE board[w]]
  /\ superseded' = superseded \cup Residue(o)
  /\ visits' = [w \in Work |-> [t \in Watched |->
                  IF w \in DOMAIN o /\ t = flight[w].trans THEN Visits(visits[w][t], o[w])
                                                           ELSE visits[w][t]]]
  /\ fails' = [w \in Work |-> [t \in Limited |->
                 IF w \in DOMAIN o /\ t = flight[w].trans THEN Fails(fails[w][t], o[w])
                                                          ELSE fails[w][t]]]
  /\ free' = free \cup Returned(o)

\* The transitioner routes every result that has arrived by now.  A logical
\* workstation accepts.  Two results that consume the same Work fail the tick and
\* with it the run (applyConsume): the model ends there.
Transitioner ==
  /\ phase = "transitioner"
  /\ \E o \in [buffer -> Outcomes] :
       /\ \A w \in buffer : flight[w].trans \in Logical => o[w] = "accepted"
       /\ Cardinality(Upsets(o)) <= upsets
       /\ \A w \in Work : \A u, v \in Superseders(o, w) : u = v
       /\ RouteAs(o)
  /\ results' = buffer
  /\ buffer' = {}
  /\ phase' = IF full THEN "cascade" ELSE "retire"
  /\ UNCHANGED <<flight, paused, full, known, queue>>

\* Mutation: only the direct dependents are failed.
DoomedDirectly(seeds) ==
  seeds \cup {w \in Work : OnBoard(w) /\ ~Settled(board[w]) /\ DependsOn[w] \cap seeds # {}}

\* What a breadth-first search along the relations reaches from the failed Work,
\* through Work in the marking that is not settled.
Doomed(seeds) ==
  LET reach[n \in Nat] ==
        IF n = 0 THEN seeds
        ELSE reach[n - 1] \cup {w \in Work : /\ OnBoard(w) /\ ~Settled(board[w])
                                             /\ DependsOn[w] \cap reach[n - 1] # {}}
  IN reach[Cardinality(Work)]

\* Cascading failure moves the tokens of Work that depends on failed Work.
Cascade ==
  /\ phase = "cascade"
  /\ LET doomed == Doomed({v \in Work : Failed(v)})
     IN board' = [w \in Work |-> IF OnBoard(w) /\ ~Settled(board[w]) /\ w \in doomed
                                  THEN FailedPlace ELSE board[w]]
  /\ phase' = "retire"
  /\ UNCHANGED <<history, flight, free, buffer, results, paused, full, intake, upsets>>

\* The entries of the routed results leave the dispatch table last.
Retire ==
  /\ phase = "retire"
  /\ flight' = [w \in Work |-> IF w \in results THEN Idle ELSE flight[w]]
  /\ results' = {}
  /\ full' = FALSE
  /\ phase' = "idle"
  /\ UNCHANGED <<board, history, free, buffer, paused, intake, upsets>>

Next ==
  \/ \E batch \in SUBSET Work : Submit(batch)
  \/ \E w \in Work, p \in Places : MoveWork(w, p)
  \/ Pause
  \/ Resume
  \/ \E w \in Work : Return(w)
  \/ BeginTick
  \/ BeginPausedTick
  \/ Breaker
  \/ Dispatch
  \/ Transitioner
  \/ Cascade
  \/ Retire

Spec == Init /\ [][Next]_vars

Tick == BeginTick \/ BeginPausedTick \/ Breaker \/ Dispatch \/ Transitioner \/ Cascade \/ Retire

\* The engine wakes for new input and ticks to the end, and while there are attempts one
\* of them ends.  That a paused factory is resumed is assumed of its operators.
FairSpec == Spec /\ WF_vars(Tick) /\ WF_vars(Resume) /\ WF_vars(\E w \in Work : Return(w))

-----------------------------------------------------------------------------
(* Properties.                                                             *)

\* The shape of the state; a tick has routed results only after its transitioner.
TypeOK ==
  /\ board \in [Work -> Places \cup {"none"}]
  /\ visits \in [Work -> [Watched -> Nat]]
  /\ fails \in [Work -> [Limited -> Nat]]
  /\ flight \in [Work -> {Idle} \cup [trans : Transition, unit : Units \cup {0}]]
  /\ free \subseteq Units
  /\ buffer \subseteq Work /\ results \subseteq Work
  /\ phase \in Phases
  /\ paused \in BOOLEAN /\ full \in BOOLEAN
  /\ known \subseteq Work /\ queue \subseteq known /\ superseded \subseteq Work
  /\ upsets \in 0 .. MaxUpsets
  /\ \A w \in buffer \cup results : InFlight(w)
  /\ buffer \cap results = {}
  /\ results # {} => phase \in {"cascade", "retire"}

\* Every accepted Work is in one place: waiting to enter, in the marking, in a
\* dispatch that has not been routed, or superseded by an accepted review; and every
\* unit is in the marking or with one such dispatch.  No outcome, requeue,
\* cancellation or move loses or doubles either (mapToCorrespondingTokenMutations).
\* Of a trace of which Work was superseded there is always Work left
\* (executorReviewReconcileMutations: "one recovery trace converges to a single
\* durable queue outcome").
OneHome ==
  /\ \A w \in known : w \in queue \/ OnBoard(w) \/ Out(w) \/ w \in superseded
  /\ \A w \in Work : /\ ~(w \in queue /\ OnBoard(w)) /\ ~(w \in queue /\ Out(w))
                    /\ ~(OnBoard(w) /\ Out(w))
  /\ \A w \in superseded : /\ w \notin queue /\ ~OnBoard(w) /\ ~Out(w)
                          /\ \E v \in Work : Trace[v] = Trace[w] /\ (OnBoard(v) \/ Out(v))
  /\ \A w \in Work : Out(w) => flight[w].unit \notin free
  /\ \A v, w \in Work : Out(v) /\ Out(w) /\ v # w =>
                          flight[v].unit # flight[w].unit \/ flight[v].unit = 0
  /\ \A u \in Units : u \in free \/ \E w \in Work : Out(w) /\ flight[w].unit = u

\* When a tick of a running factory is over, no unsettled Work in the marking
\* depends on failed Work, at any distance (cascading_failure.go).
CascadeComplete ==
  phase = "retire" /\ full =>
    \A w \in Work : OnBoard(w) /\ ~Settled(board[w]) =>
      \A d \in DependsOn[w] : ~Failed(d)

\* Work that is out of retries is not taken from an unsettled place again, whichever
\* subsystem ran last, whatever an operator moved and however often the factory was
\* paused.  A workstation that takes settled Work (an escalation of failures) may.
RetriesHold ==
  [][\A w \in Work : ~InFlight(w) /\ InFlight(w)' /\ ~Settled(board[w]) =>
       \A t \in Limited : fails[w][t] < Retries[t]]_vars

\* Work that was superseded, and Work that depends on it at any distance.
Stranded(w) ==
  \A S \in SUBSET Work :
    superseded \subseteq S /\ (\A v \in Work : DependsOn[v] \cap S # {} => v \in S) => w \in S

\* Every accepted Work is settled in the end: no failure of what it waits for, loop,
\* unit, pause or requeue leaves it waiting for ever.  Superseded Work is gone, and
\* Work that depends on it is not failed: DependencyGuard never finds its target.
WorkSettles == \A w \in Work : w \in known ~> Settled(board[w]) \/ Stranded(w)

\* What the documentation says of a loop breaker ("instead of allowing another
\* review pass"): Work that has used its visits gets no other one.
BreakerStopsLoop ==
  \A g \in Guarded, w \in Work : visits[w][Watch[g]] <= MaxVisits[g]
=============================================================================
