-------------------------- MODULE FactoryNetProofs --------------------------
(***************************************************************************)
(* Proofs about FactoryNet for any factory of the modelled kind, any Work  *)
(* and any number of units.                                                *)
(***************************************************************************)
EXTENDS FactoryNet, FiniteSetTheorems, WellFoundedInduction, TLAPS

\* An entry of the dispatch table differs from the idle one.
LEMMA EntryFacts ==
  ASSUME NEW t \in Transition, NEW u
  PROVE  [trans |-> t, unit |-> u] # Idle
  BY NetAssumption DEF Idle

\* A result sends its Work to a place.
LEMMA DestinationType ==
  ASSUME NEW t \in Transition, NEW o \in Outcome
  PROVE  Destination(t, o) \in Places
  BY NetAssumption DEF Destination, Outcome, Arcs

\* The counters stay natural numbers.
LEMMA CounterType ==
  ASSUME NEW n \in Nat, NEW o \in Outcome
  PROVE  Visits(n, o) \in Nat /\ Fails(n, o) \in Nat
  BY DEF Visits, Fails, Outcome, Arcs

\* The Work of a binding waits where its transition takes it from, and its unit
\* is free.
LEMMA BindingFacts ==
  ASSUME NEW C \in Enabled, NEW b \in C
  PROVE  /\ b.work \in Work /\ b.trans \in Transition
         /\ board[b.work] = From[b.trans]
         /\ b.unit \in free \cup {0}
<1>1. PICK order \in Orders : C = UNION {Bindings(t, order) : t \in Transition}
  BY DEF Enabled
<1>2. PICK t \in Transition : b \in Bindings(t, order)
  BY <1>1
<1>3. ASSUME NEW w \in Eligible(t, order) PROVE w \in Work /\ board[w] = From[t]
  BY DEF Eligible
<1>4. b.work \in Eligible(t, order) /\ b.trans = t /\ b.unit \in free \cup {0}
  <2>1. CASE t \in UsesUnit
    BY <1>2, <2>1 DEF Bindings
  <2>2. CASE t \notin UsesUnit
    BY <1>2, <2>2 DEF Bindings
  <2> QED BY <2>1, <2>2
<1> QED BY <1>3, <1>4

-----------------------------------------------------------------------------
(* Type correctness.                                                       *)

LEMMA InitType == Init => TypeOK
<1> SUFFICES ASSUME Init PROVE TypeOK
  OBVIOUS
<1>1. board \in [Work -> Places \cup {"none"}] /\ phase \in Phases
  BY DEF Init, Phases
<1>2. visits \in [Work -> [Watched -> Nat]] /\ fails \in [Work -> [Limited -> Nat]]
  BY DEF Init
<1>3. flight \in [Work -> {Idle} \cup [trans : Transition, unit : Units \cup {0}]]
  BY DEF Init
<1>4. upsets \in 0 .. MaxUpsets
  BY NetAssumption DEF Init
<1> QED BY <1>1, <1>2, <1>3, <1>4 DEF Init, TypeOK

\* What a step of the dispatcher does to board, flight and free, given the set S
\* of bindings it starts.
Starts(S) ==
  /\ board' = [w \in Work |-> IF \E b \in S : b.work = w THEN "none" ELSE board[w]]
  /\ free' = free \ {b.unit : b \in S}
  /\ flight' = [w \in Work |->
                  IF \E b \in S : b.work = w
                    THEN LET b == CHOOSE b \in S : b.work = w
                         IN [trans |-> b.trans, unit |-> b.unit]
                    ELSE flight[w]]

\* What the dispatcher starts: bindings of waiting Work, no two for one Work or
\* one unit.
Startable(S) ==
  /\ \A b \in S : /\ b.work \in Work /\ b.trans \in Transition
                  /\ board[b.work] = From[b.trans]
                  /\ b.unit \in free \cup {0}
  /\ \A b, c \in S : b # c => b.work # c.work /\ (b.unit # c.unit \/ b.unit = 0)

LEMMA DispatchStarts ==
  ASSUME Dispatch
  PROVE  \E S : Starts(S) /\ Startable(S)
<1>1. PICK C \in Enabled : \E S \in Selections(C) : Starts(S)
  BY DEF Dispatch, Starts
<1>2. PICK S \in Selections(C) : Starts(S)
  BY <1>1
<1>3. S \subseteq C /\ \A b, c \in S : b # c => ~Conflict(b, c)
  BY DEF Selections
<1>4. Startable(S)
  BY <1>3, BindingFacts DEF Startable, Conflict
<1> QED BY <1>2, <1>4

\* The entry of each Work after the dispatcher.
LEMMA StartFacts ==
  ASSUME NEW S, Starts(S), NEW w \in Work
  PROVE  \/ /\ board'[w] = board[w] /\ flight'[w] = flight[w]
            /\ \A b \in S : b.work # w
         \/ \E b \in S : /\ b.work = w /\ board'[w] = "none"
                         /\ flight'[w] = [trans |-> b.trans, unit |-> b.unit]
<1>1. CASE \A b \in S : b.work # w
  BY <1>1 DEF Starts
<1>2. CASE \E b \in S : b.work = w
  <2>1. PICK b \in S : b = CHOOSE c \in S : c.work = w
    BY <1>2
  <2>2. b.work = w
    BY <1>2, <2>1
  <2>3. flight'[w] = [trans |-> b.trans, unit |-> b.unit] /\ board'[w] = "none"
    BY <1>2, <2>1 DEF Starts
  <2> QED BY <2>2, <2>3
<1> QED BY <1>1, <1>2

LEMMA DispatchType ==
  ASSUME TypeOK, Dispatch
  PROVE  TypeOK'
<1>1. PICK S : Starts(S) /\ Startable(S)
  BY DispatchStarts
<1>2. board' \in [Work -> Places \cup {"none"}] /\ free' \subseteq Units
  BY <1>1 DEF TypeOK, Starts
<1>3. flight' \in [Work -> {Idle} \cup [trans : Transition, unit : Units \cup {0}]]
  <2>1. flight' = [w \in Work |-> flight'[w]]
    BY <1>1 DEF Starts
  <2>2. ASSUME NEW w \in Work
        PROVE  flight'[w] \in {Idle} \cup [trans : Transition, unit : Units \cup {0}]
    <3>0. \/ flight'[w] = flight[w]
          \/ \E b \in S : flight'[w] = [trans |-> b.trans, unit |-> b.unit]
      <4>1. Starts(S)
        BY <1>1
      <4> QED BY <4>1, StartFacts
    <3>1. CASE flight'[w] = flight[w]
      BY <3>1 DEF TypeOK
    <3>2. ASSUME NEW b \in S, flight'[w] = [trans |-> b.trans, unit |-> b.unit]
          PROVE  flight'[w] \in [trans : Transition, unit : Units \cup {0}]
      BY <1>1, <3>2 DEF TypeOK, Startable
    <3> QED BY <3>0, <3>1, <3>2
  <2> QED BY <2>1, <2>2
<1>4. \A w \in buffer : InFlight(w)'
  <2> SUFFICES ASSUME NEW w \in buffer PROVE flight'[w] # Idle
    BY DEF InFlight
  <2>1. w \in Work /\ flight[w] # Idle
    BY DEF TypeOK, InFlight
  <2>2. ASSUME NEW b \in S, flight'[w] = [trans |-> b.trans, unit |-> b.unit]
        PROVE  flight'[w] # Idle
    BY <1>1, <2>2, EntryFacts DEF Startable
  <2>3. \/ flight'[w] = flight[w]
        \/ \E b \in S : flight'[w] = [trans |-> b.trans, unit |-> b.unit]
    <3>1. Starts(S)
      BY <1>1
    <3> QED BY <2>1, <3>1, StartFacts
  <2> QED BY <2>1, <2>2, <2>3
<1>5. results = {}
  BY DEF TypeOK, Dispatch
<1> QED BY <1>2, <1>3, <1>4, <1>5 DEF TypeOK, Dispatch, Phases, history, intake

\* Routing keeps the types of everything it changes.
LEMMA RouteType ==
  ASSUME TypeOK, NEW o \in [buffer -> Outcomes], Cardinality(Upsets(o)) <= upsets, RouteAs(o)
  PROVE  /\ board' \in [Work -> Places \cup {"none"}]
         /\ visits' \in [Work -> [Watched -> Nat]]
         /\ fails' \in [Work -> [Limited -> Nat]]
         /\ free' \subseteq Units
         /\ upsets' \in 0 .. MaxUpsets
         /\ superseded' \subseteq Work
<1>1. ASSUME NEW w \in buffer
      PROVE  /\ w \in Work /\ o[w] \in Outcome
             /\ flight[w] \in [trans : Transition, unit : Units \cup {0}]
  BY NetAssumption DEF TypeOK, InFlight
<1>2. board' \in [Work -> Places \cup {"none"}]
  <2>1. \A w \in buffer : Destination(flight[w].trans, o[w]) \in Places
    BY <1>1, DestinationType
  <2> QED BY <1>1, <2>1 DEF RouteAs, Residue, TypeOK
<1>3. visits' \in [Work -> [Watched -> Nat]]
  <2>1. \A w \in buffer, n \in Nat : Visits(n, o[w]) \in Nat
    BY <1>1, CounterType
  <2> QED BY <2>1 DEF RouteAs, TypeOK
<1>4. fails' \in [Work -> [Limited -> Nat]]
  <2>1. \A w \in buffer, n \in Nat : Fails(n, o[w]) \in Nat
    BY <1>1, CounterType
  <2> QED BY <2>1 DEF RouteAs, TypeOK
<1>5. free' \subseteq Units
  BY <1>1 DEF RouteAs, Returned, TypeOK
<1>6. upsets' \in 0 .. MaxUpsets
  <2>1. IsFiniteSet(Upsets(o))
    <3>1. Upsets(o) \in SUBSET Work
      BY DEF Upsets, TypeOK
    <3> QED BY <3>1, FS_Subset, NetAssumption
  <2>2. Cardinality(Upsets(o)) \in Nat
    BY <2>1, FS_CardinalityType
  <2> QED BY <2>2, NetAssumption DEF RouteAs, TypeOK
<1>7. superseded' \subseteq Work
  BY DEF RouteAs, Residue, TypeOK
<1> QED BY <1>2, <1>3, <1>4, <1>5, <1>6, <1>7

LEMMA TransitionerType ==
  ASSUME TypeOK, Transitioner
  PROVE  TypeOK'
<1>1. PICK o \in [buffer -> Outcomes] : Cardinality(Upsets(o)) <= upsets /\ RouteAs(o)
  BY DEF Transitioner
<1>2. results = {}
  BY DEF TypeOK, Transitioner
<1>3. /\ board' \in [Work -> Places \cup {"none"}]
      /\ visits' \in [Work -> [Watched -> Nat]]
      /\ fails' \in [Work -> [Limited -> Nat]]
      /\ free' \subseteq Units
      /\ upsets' \in 0 .. MaxUpsets
      /\ superseded' \subseteq Work
  BY <1>1, RouteType
<1>4. buffer' = {} /\ results' = buffer /\ phase' \in {"cascade", "retire"}
  BY DEF Transitioner
<1>5. UNCHANGED <<flight, paused, full, known, queue>>
  BY DEF Transitioner
<1> QED BY <1>3, <1>4, <1>5 DEF TypeOK, Phases, InFlight

LEMMA NextType == TypeOK /\ [Next]_vars => TypeOK'
<1> SUFFICES ASSUME TypeOK, [Next]_vars PROVE TypeOK'
  OBVIOUS
<1>1. ASSUME NEW batch \in SUBSET Work, Submit(batch) PROVE TypeOK'
  BY <1>1 DEF TypeOK, Submit, InFlight, history
<1>2. ASSUME NEW w \in Work, NEW p \in Places, MoveWork(w, p) PROVE TypeOK'
  <2>1. board' \in [Work -> Places \cup {"none"}]
    BY <1>2 DEF TypeOK, MoveWork
  <2>2. visits' \in [Work -> [Watched -> Nat]] /\ fails' \in [Work -> [Limited -> Nat]]
    <3>1. CASE Failed(w)
      <4>1. /\ visits' = [visits EXCEPT ![w] = [t \in Watched |-> 0]]
            /\ fails' = [fails EXCEPT ![w] = [t \in Limited |-> 0]]
        BY <1>2, <3>1, Zenon DEF MoveWork
      <4>2. [t \in Watched |-> 0] \in [Watched -> Nat] /\ [t \in Limited |-> 0] \in [Limited -> Nat]
        OBVIOUS
      <4> QED BY <4>1, <4>2 DEF TypeOK
    <3>2. CASE ~Failed(w)
      BY <1>2, <3>2, Zenon DEF TypeOK, MoveWork, history
    <3> QED BY <3>1, <3>2
  <2>3. upsets' \in 0 .. MaxUpsets
    BY <1>2, NetAssumption DEF TypeOK, MoveWork
  <2> QED BY <1>2, <2>1, <2>2, <2>3 DEF TypeOK, MoveWork, InFlight, intake
<1>3. CASE Pause
  BY <1>3, NetAssumption DEF TypeOK, Pause, InFlight, history, intake
<1>4. CASE Resume
  BY <1>4 DEF TypeOK, Resume, InFlight, history, intake
<1>5. ASSUME NEW w \in Work, Return(w) PROVE TypeOK'
  BY <1>5 DEF TypeOK, Return, InFlight, history, intake
<1>6. CASE BeginTick
  <2>1. board' \in [Work -> Places \cup {"none"}]
    BY <1>6, NetAssumption DEF TypeOK, BeginTick
  <2> QED BY <1>6, <2>1 DEF TypeOK, BeginTick, InFlight, history, Phases
<1>7. CASE BeginPausedTick
  BY <1>7 DEF TypeOK, BeginPausedTick, InFlight, history, intake, Phases
<1>8. CASE Breaker
  <2>1. board' \in [Work -> Places \cup {"none"}]
    BY <1>8, NetAssumption DEF TypeOK, Breaker
  <2> QED BY <1>8, <2>1 DEF TypeOK, Breaker, InFlight, history, intake, Phases
<1>9. CASE Dispatch
  BY <1>9, DispatchType
<1>10. CASE Transitioner
  BY <1>10, TransitionerType
<1>11. CASE Cascade
  <2>1. board' \in [Work -> Places \cup {"none"}]
    BY <1>11, NetAssumption DEF TypeOK, Cascade
  <2> QED BY <1>11, <2>1 DEF TypeOK, Cascade, InFlight, history, intake, Phases
<1>12. CASE Retire
  <2>1. flight' \in [Work -> {Idle} \cup [trans : Transition, unit : Units \cup {0}]]
    BY <1>12 DEF TypeOK, Retire
  <2>2. \A w \in buffer : InFlight(w)'
    BY <1>12 DEF TypeOK, Retire, InFlight
  <2> QED BY <1>12, <2>1, <2>2 DEF TypeOK, Retire, history, intake, Phases
<1>13. CASE UNCHANGED vars
  BY <1>13 DEF TypeOK, vars, InFlight, history, intake
<1> QED BY <1>1, <1>2, <1>3, <1>4, <1>5, <1>6, <1>7, <1>8, <1>9, <1>10, <1>11, <1>12,
           <1>13 DEF Next

\* Marking, histories, dispatch table and the bookkeeping of a tick keep their
\* shape; no bound is passed.
THEOREM TypeCorrect == Spec => []TypeOK
  BY InitType, NextType, PTL DEF Spec

-----------------------------------------------------------------------------
(* Work and units are neither lost nor doubled.                            *)

\* What has a place or a dispatch, or was superseded, was accepted.
OnlyAccepted ==
  /\ \A w \in Work : OnBoard(w) \/ InFlight(w) => w \in known
  /\ superseded \subseteq known

HomeInv == TypeOK /\ OnlyAccepted /\ OneHome

\* The parts of OneHome, of Work and of units.
WorkHome ==
  /\ \A w \in known : w \in queue \/ OnBoard(w) \/ Out(w) \/ w \in superseded
  /\ \A w \in Work : /\ ~(w \in queue /\ OnBoard(w)) /\ ~(w \in queue /\ Out(w))
                    /\ ~(OnBoard(w) /\ Out(w))
  /\ \A w \in superseded : /\ w \notin queue /\ ~OnBoard(w) /\ ~Out(w)
                          /\ \E v \in Work : Trace[v] = Trace[w] /\ (OnBoard(v) \/ Out(v))

UnitHome ==
  /\ \A w \in Work : Out(w) => flight[w].unit \notin free
  /\ \A v, w \in Work : Out(v) /\ Out(w) /\ v # w =>
                          flight[v].unit # flight[w].unit \/ flight[v].unit = 0
  /\ \A u \in Units : u \in free \/ \E w \in Work : Out(w) /\ flight[w].unit = u

LEMMA HomeParts == OneHome <=> WorkHome /\ UnitHome
  BY DEF OneHome, WorkHome, UnitHome

LEMMA InitHome == Init => OnlyAccepted /\ OneHome
<1> SUFFICES ASSUME Init PROVE OnlyAccepted /\ OneHome
  OBVIOUS
<1>1. \A w \in Work : ~OnBoard(w) /\ ~InFlight(w)
  BY DEF Init, OnBoard, InFlight
<1> QED BY <1>1 DEF Init, OnlyAccepted, OneHome, Out

\* A step that changes neither dispatches nor units nor routed results keeps the
\* units where they are.
LEMMA UnitsStay ==
  ASSUME UnitHome, UNCHANGED <<flight, free, results>>
  PROVE  UnitHome'
  BY DEF UnitHome, Out, InFlight

\* A step that only moves Work about in the marking keeps its home.
LEMMA WorkMoves ==
  ASSUME TypeOK, OnlyAccepted, WorkHome, UNCHANGED <<flight, results, known, queue, superseded>>,
         \A w \in Work : OnBoard(w)' <=> OnBoard(w)
  PROVE  OnlyAccepted' /\ WorkHome'
  BY DEF TypeOK, OnlyAccepted, WorkHome, Out, InFlight

LEMMA DispatchHome ==
  ASSUME HomeInv, Dispatch
  PROVE  OnlyAccepted' /\ OneHome'
<1>1. PICK S : Starts(S) /\ Startable(S)
  BY DispatchStarts
<1>2. results = {} /\ UNCHANGED <<known, queue, superseded, results>>
  BY DEF HomeInv, TypeOK, Dispatch, intake
<1>3. ASSUME NEW w \in Work
      PROVE  \/ /\ board'[w] = board[w] /\ flight'[w] = flight[w]
                /\ \A b \in S : b.work # w
             \/ \E b \in S : /\ b.work = w /\ board'[w] = "none"
                             /\ flight'[w] = [trans |-> b.trans, unit |-> b.unit]
  <2>1. Starts(S)
    BY <1>1
  <2> QED BY <2>1, StartFacts
<1>4. ASSUME NEW b \in S
      PROVE  /\ b.work \in Work /\ OnBoard(b.work)
             /\ [trans |-> b.trans, unit |-> b.unit] # Idle
             /\ b.unit \in free \cup {0}
  BY <1>1, EntryFacts, NetAssumption DEF Startable, OnBoard
<1>5. ASSUME NEW w \in Work
      PROVE  \/ /\ OnBoard(w)' = OnBoard(w) /\ Out(w)' = Out(w) /\ InFlight(w)' = InFlight(w)
                /\ flight'[w] = flight[w]
             \/ \E b \in S : /\ b.work = w /\ OnBoard(w) /\ ~OnBoard(w)' /\ Out(w)'
                             /\ flight'[w] = [trans |-> b.trans, unit |-> b.unit]
  <2>1. CASE board'[w] = board[w] /\ flight'[w] = flight[w]
    BY <1>2, <2>1 DEF OnBoard, Out, InFlight
  <2>2. ASSUME NEW b \in S, b.work = w, board'[w] = "none",
               flight'[w] = [trans |-> b.trans, unit |-> b.unit]
        PROVE  OnBoard(w) /\ ~OnBoard(w)' /\ Out(w)'
    BY <1>2, <1>4, <2>2 DEF OnBoard, Out, InFlight
  <2> QED BY <1>3, <2>1, <2>2
<1>6. OnlyAccepted'
  BY <1>2, <1>5 DEF OnlyAccepted, HomeInv
<1>7. WorkHome'
  BY <1>2, <1>5, HomeParts DEF WorkHome, HomeInv, TypeOK
<1>8. UnitHome'
  <2>1. UnitHome
    BY HomeParts DEF HomeInv
  <2>2. free' = free \ {b.unit : b \in S} /\ free \subseteq Units /\ 0 \notin Units
    BY <1>1, NetAssumption DEF Starts, HomeInv, TypeOK
  <2>3. ASSUME NEW w \in Work, Out(w)' PROVE flight'[w].unit \notin free'
    <3>1. CASE Out(w) /\ flight'[w] = flight[w]
      BY <2>1, <2>2, <3>1 DEF UnitHome
    <3>2. ASSUME NEW b \in S, flight'[w] = [trans |-> b.trans, unit |-> b.unit]
          PROVE  flight'[w].unit \notin free'
      BY <2>2, <3>2
    <3> QED BY <1>5, <2>3, <3>1, <3>2
  <2>4. ASSUME NEW v \in Work, NEW w \in Work, Out(v)', Out(w)', v # w
        PROVE  flight'[v].unit # flight'[w].unit \/ flight'[v].unit = 0
    <3>1. CASE flight'[v] = flight[v] /\ flight'[w] = flight[w] /\ Out(v) /\ Out(w)
      BY <2>1, <2>4, <3>1 DEF UnitHome
    <3>2. ASSUME NEW b \in S, b.work = v, flight'[v] = [trans |-> b.trans, unit |-> b.unit],
                 Out(w), flight'[w] = flight[w]
          PROVE  flight'[v].unit # flight'[w].unit \/ flight'[v].unit = 0
      BY <1>4, <2>1, <3>2 DEF UnitHome
    <3>3. ASSUME NEW b \in S, b.work = w, flight'[w] = [trans |-> b.trans, unit |-> b.unit],
                 Out(v), flight'[v] = flight[v]
          PROVE  flight'[v].unit # flight'[w].unit \/ flight'[v].unit = 0
      BY <1>4, <2>1, <3>3 DEF UnitHome
    <3>4. ASSUME NEW b \in S, b.work = v, flight'[v] = [trans |-> b.trans, unit |-> b.unit],
                 NEW c \in S, c.work = w, flight'[w] = [trans |-> c.trans, unit |-> c.unit]
          PROVE  flight'[v].unit # flight'[w].unit \/ flight'[v].unit = 0
      BY <1>1, <2>4, <3>4 DEF Startable
    <3> QED BY <1>5, <2>4, <3>1, <3>2, <3>3, <3>4
  <2>5. ASSUME NEW u \in Units
        PROVE  u \in free' \/ \E w \in Work : Out(w)' /\ flight'[w].unit = u
    <3>1. CASE u \in free /\ u \notin free'
      <4>1. PICK b \in S : b.unit = u
        BY <2>2, <3>1
      <4>2. flight'[b.work].unit = u /\ Out(b.work)'
        <5> DEFINE w == b.work
        <5> HIDE DEF w
        <5>1. w \in Work /\ OnBoard(w)
          BY <1>4 DEF w
        <5>2. PICK c \in S : /\ c.work = w /\ board'[w] = "none"
                             /\ flight'[w] = [trans |-> c.trans, unit |-> c.unit]
          BY <1>3, <5>1 DEF w
        <5>3. Out(w)'
          BY <1>5, <5>1, <5>2 DEF OnBoard
        <5>4. c = b
          BY <1>1, <5>2 DEF Startable, w
        <5> QED BY <4>1, <5>2, <5>3, <5>4 DEF w
      <4> QED BY <1>4, <4>2
    <3>2. CASE u \notin free
      <4>1. PICK w \in Work : Out(w) /\ flight[w].unit = u
        BY <2>1, <3>2 DEF UnitHome
      <4>2. ~OnBoard(w)
        BY <4>1, HomeParts DEF HomeInv, WorkHome
      <4> QED BY <1>5, <4>1, <4>2
    <3> QED BY <3>1, <3>2
  <2> QED BY <2>3, <2>4, <2>5 DEF UnitHome
<1> QED BY <1>6, <1>7, <1>8 DEF OneHome, WorkHome, UnitHome

LEMMA TransitionerHome ==
  ASSUME HomeInv, Transitioner
  PROVE  OnlyAccepted' /\ OneHome'
<1>0. TypeOK /\ OnlyAccepted /\ WorkHome
  BY HomeParts DEF HomeInv
<1>1. PICK o \in [buffer -> Outcomes] : RouteAs(o)
  BY DEF Transitioner
<1>2. /\ results = {} /\ results' = buffer /\ UNCHANGED <<flight, known, queue>>
      /\ buffer \subseteq Work
  BY <1>0 DEF TypeOK, Transitioner
<1> DEFINE R == Residue(o)
<1>3. ASSUME NEW w \in buffer PROVE Out(w) /\ OnBoard(w)'
  <2>1. flight[w].trans \in Transition /\ o[w] \in Outcome /\ w \in Work /\ InFlight(w)
    BY <1>0, <1>2, NetAssumption DEF TypeOK, InFlight
  <2>2. Destination(flight[w].trans, o[w]) # "none"
    BY <2>1, DestinationType, NetAssumption
  <2>3. w \in DOMAIN o
    OBVIOUS
  <2> QED BY <1>1, <1>2, <2>1, <2>2, <2>3 DEF RouteAs, OnBoard, Out
<1>4. ASSUME NEW w \in Work \ buffer
      PROVE  Out(w)' = Out(w) /\ (OnBoard(w)' <=> OnBoard(w) /\ w \notin R)
  BY <1>1, <1>2 DEF RouteAs, OnBoard, Out, InFlight
<1>5. ASSUME NEW w \in buffer PROVE ~Out(w)'
  BY <1>2 DEF Out
<1>6. ASSUME NEW w \in R
      PROVE  /\ w \in Work \ buffer /\ OnBoard(w)
             /\ \E v \in buffer : Trace[v] = Trace[w]
  <2>1. PICK v \in buffer : Supersedes(v, w)
    BY DEF Residue, Superseders
  <2>2. w \in Work /\ Trace[v] = Trace[w] /\ board[w] \in Cleared(flight[v].trans)
    BY <2>1 DEF Residue, Supersedes
  <2>3. OnBoard(w)
    BY <2>2 DEF Cleared, OnBoard
  <2>4. w \notin buffer
    BY <1>0, <1>3, <2>2, <2>3 DEF WorkHome
  <2> QED BY <2>2, <2>3, <2>4
<1>7. superseded' = superseded \cup R
  BY <1>1 DEF RouteAs
<1> HIDE DEF R
<1>8. OnlyAccepted'
  <2>1. ASSUME NEW w \in Work, OnBoard(w)' \/ InFlight(w)' PROVE w \in known
    BY <1>0, <1>2, <1>3, <1>4, <2>1 DEF OnlyAccepted, Out, InFlight
  <2>2. superseded' \subseteq known
    BY <1>0, <1>6, <1>7 DEF OnlyAccepted
  <2> QED BY <1>2, <2>1, <2>2 DEF OnlyAccepted
<1>9. WorkHome'
  <2>1. ASSUME NEW w \in known
        PROVE  w \in queue \/ OnBoard(w)' \/ Out(w)' \/ w \in superseded'
    BY <1>0, <1>3, <1>4, <1>7 DEF WorkHome, TypeOK
  <2>2. ASSUME NEW w \in Work
        PROVE  /\ ~(w \in queue /\ OnBoard(w)') /\ ~(w \in queue /\ Out(w)')
               /\ ~(OnBoard(w)' /\ Out(w)')
    BY <1>0, <1>3, <1>4, <1>5 DEF WorkHome
  <2>3. ASSUME NEW w \in superseded'
        PROVE  w \notin queue /\ ~OnBoard(w)' /\ ~Out(w)'
    <3>1. CASE w \in R
      BY <1>0, <1>4, <1>6, <3>1 DEF WorkHome
    <3>2. CASE w \in superseded
      <4>1. w \in Work /\ w \notin queue /\ ~OnBoard(w) /\ ~Out(w)
        BY <1>0, <3>2 DEF WorkHome, TypeOK
      <4> QED BY <1>3, <1>4, <4>1
    <3> QED BY <1>7, <3>1, <3>2
  <2>4. ASSUME NEW w \in superseded'
        PROVE  \E v \in Work : Trace[v] = Trace[w] /\ (OnBoard(v)' \/ Out(v)')
    <3>1. CASE w \in R
      BY <1>2, <1>3, <1>6, <3>1
    <3>2. CASE w \in superseded
      <4>1. PICK v \in Work : Trace[v] = Trace[w] /\ (OnBoard(v) \/ Out(v))
        BY <1>0, <3>2 DEF WorkHome
      <4>2. CASE v \in buffer
        BY <1>3, <4>1, <4>2
      <4>3. CASE v \in R
        <5>1. PICK u \in buffer : Trace[u] = Trace[v]
          BY <1>6, <4>3
        <5> QED BY <1>2, <1>3, <4>1, <5>1
      <4>4. CASE v \notin buffer /\ v \notin R
        BY <1>4, <4>1, <4>4
      <4> QED BY <4>2, <4>3, <4>4
    <3> QED BY <1>7, <3>1, <3>2
  <2> QED BY <1>2, <2>1, <2>2, <2>3, <2>4 DEF WorkHome
<1>10. UnitHome'
  <2>1. UnitHome
    BY HomeParts DEF HomeInv
  <2>2. free' = free \cup ({flight[w].unit : w \in buffer} \ {0}) /\ 0 \notin Units
    BY <1>1, NetAssumption DEF RouteAs, Returned
  <2>3. ASSUME NEW w \in Work, Out(w)' PROVE flight'[w].unit \notin free'
    BY <1>2, <1>3, <1>4, <1>5, <2>1, <2>2, <2>3 DEF UnitHome
  <2>4. ASSUME NEW v \in Work, NEW w \in Work, Out(v)', Out(w)', v # w
        PROVE  flight'[v].unit # flight'[w].unit \/ flight'[v].unit = 0
    BY <1>2, <1>4, <1>5, <2>1, <2>4 DEF UnitHome
  <2>5. ASSUME NEW u \in Units
        PROVE  u \in free' \/ \E w \in Work : Out(w)' /\ flight'[w].unit = u
    BY <1>2, <1>4, <2>1, <2>2 DEF UnitHome
  <2> QED BY <2>3, <2>4, <2>5 DEF UnitHome
<1> QED BY <1>8, <1>9, <1>10 DEF OneHome, WorkHome, UnitHome

LEMMA RetireHome ==
  ASSUME HomeInv, Retire
  PROVE  OnlyAccepted' /\ OneHome'
<1>1. UNCHANGED <<board, free, known, queue, superseded>> /\ results' = {}
  BY DEF Retire, intake
<1>2. ASSUME NEW w \in Work
      PROVE  /\ OnBoard(w)' = OnBoard(w) /\ Out(w)' = Out(w)
             /\ Out(w) => flight'[w] = flight[w]
             /\ InFlight(w)' => InFlight(w)
  BY DEF Retire, OnBoard, Out, InFlight
<1>3. OnlyAccepted'
  BY <1>1, <1>2 DEF HomeInv, OnlyAccepted
<1>4. WorkHome'
  BY <1>1, <1>2, HomeParts DEF HomeInv, TypeOK, WorkHome
<1>5. UnitHome'
  <2>1. UnitHome
    BY HomeParts DEF HomeInv
  <2> QED BY <1>1, <1>2, <2>1 DEF UnitHome
<1> QED BY <1>3, <1>4, <1>5 DEF OneHome, WorkHome, UnitHome

LEMMA NextHome == HomeInv /\ [Next]_vars => OnlyAccepted' /\ OneHome'
<1> SUFFICES ASSUME HomeInv, [Next]_vars PROVE OnlyAccepted' /\ OneHome'
  OBVIOUS
<1>0. WorkHome /\ UnitHome /\ OnlyAccepted /\ TypeOK
  BY HomeParts DEF HomeInv
<1>1. ASSUME NEW batch \in SUBSET Work, Submit(batch) PROVE OnlyAccepted' /\ OneHome'
  <2>1. UNCHANGED <<board, flight, free, results, superseded>>
    BY <1>1 DEF Submit
  <2>2. UnitHome'
    BY <1>0, <2>1, UnitsStay
  <2>3. \A w \in Work : OnBoard(w)' = OnBoard(w) /\ Out(w)' = Out(w) /\ InFlight(w)' = InFlight(w)
    BY <2>1 DEF OnBoard, Out, InFlight
  <2>4. \A w \in batch : ~OnBoard(w) /\ ~Out(w)
    BY <1>0, <1>1 DEF Submit, OnlyAccepted, Out
  <2>5. WorkHome' /\ OnlyAccepted'
    BY <1>0, <1>1, <2>3, <2>4 DEF Submit, WorkHome, OnlyAccepted, TypeOK
  <2> QED BY <2>2, <2>5 DEF OneHome, WorkHome, UnitHome
<1>2. ASSUME NEW w \in Work, NEW p \in Places, MoveWork(w, p)
      PROVE  OnlyAccepted' /\ OneHome'
  <2>1. UNCHANGED <<flight, free, results, known, queue, superseded>>
    BY <1>2 DEF MoveWork, intake
  <2>2. \A v \in Work : OnBoard(v)' <=> OnBoard(v)
    BY <1>0, <1>2, NetAssumption DEF MoveWork, OnBoard, TypeOK
  <2> QED BY <1>0, <2>1, <2>2, UnitsStay, WorkMoves DEF OneHome, WorkHome, UnitHome
<1>3. CASE Pause \/ Resume
  <2>1. UNCHANGED <<board, flight, free, results, known, queue, superseded>>
    BY <1>3 DEF Pause, Resume, intake
  <2> QED BY <1>0, <2>1 DEF OneHome, WorkHome, UnitHome, OnlyAccepted, OnBoard, Out, InFlight
<1>4. ASSUME NEW w \in Work, Return(w) PROVE OnlyAccepted' /\ OneHome'
  <2>1. UNCHANGED <<board, flight, free, results, known, queue, superseded>>
    BY <1>4 DEF Return, intake
  <2> QED BY <1>0, <2>1 DEF OneHome, WorkHome, UnitHome, OnlyAccepted, OnBoard, Out, InFlight
<1>5. CASE BeginTick
  <2>1. UNCHANGED <<flight, free, results, known, superseded>> /\ queue' = {}
    BY <1>5 DEF BeginTick
  <2>2. \A w \in Work : Out(w)' = Out(w) /\ InFlight(w)' = InFlight(w)
    BY <2>1 DEF Out, InFlight
  <2>3. \A w \in Work : OnBoard(w)' <=> OnBoard(w) \/ w \in queue
    BY <1>5, NetAssumption DEF BeginTick, OnBoard
  <2>4. WorkHome' /\ OnlyAccepted'
    BY <1>0, <2>1, <2>2, <2>3 DEF WorkHome, OnlyAccepted, TypeOK
  <2>5. UnitHome'
    BY <1>0, <2>1, UnitsStay
  <2> QED BY <2>4, <2>5 DEF OneHome, WorkHome, UnitHome
<1>6. CASE BeginPausedTick
  <2>1. UNCHANGED <<board, flight, free, results, known, queue, superseded>>
    BY <1>6 DEF BeginPausedTick, intake
  <2> QED BY <1>0, <2>1 DEF OneHome, WorkHome, UnitHome, OnlyAccepted, OnBoard, Out, InFlight
<1>7. CASE Breaker
  <2>1. UNCHANGED <<flight, free, results, known, queue, superseded>>
    BY <1>7 DEF Breaker, intake
  <2>2. \A w \in Work : OnBoard(w)' <=> OnBoard(w)
    BY <1>7, NetAssumption DEF Breaker, OnBoard
  <2> QED BY <1>0, <2>1, <2>2, UnitsStay, WorkMoves DEF OneHome, WorkHome, UnitHome
<1>8. CASE Dispatch
  BY <1>8, DispatchHome
<1>9. CASE Transitioner
  BY <1>9, TransitionerHome
<1>10. CASE Cascade
  <2>1. UNCHANGED <<flight, free, results, known, queue, superseded>>
    BY <1>10 DEF Cascade, intake
  <2>2. \A w \in Work : OnBoard(w)' <=> OnBoard(w)
    BY <1>10, NetAssumption DEF Cascade, OnBoard
  <2> QED BY <1>0, <2>1, <2>2, UnitsStay, WorkMoves DEF OneHome, WorkHome, UnitHome
<1>11. CASE Retire
  BY <1>11, RetireHome
<1>12. CASE UNCHANGED vars
  BY <1>0, <1>12 DEF vars, OneHome, WorkHome, UnitHome, OnlyAccepted, OnBoard, Out, InFlight, intake
<1> QED BY <1>1, <1>2, <1>3, <1>4, <1>5, <1>6, <1>7, <1>8, <1>9, <1>10, <1>11, <1>12 DEF Next

\* Whatever results say and operators do, every accepted Work is in one place or was
\* superseded by a Work of its trace, of which one is always left; and every unit is in
\* the marking or with one dispatch.
THEOREM WorkAndUnitsKept == Spec => []OneHome
<1>1. Init => HomeInv
  BY InitType, InitHome DEF HomeInv
<1>2. HomeInv /\ [Next]_vars => HomeInv'
  BY NextType, NextHome DEF HomeInv
<1>3. HomeInv => OneHome
  BY DEF HomeInv
<1> QED BY <1>1, <1>2, <1>3, PTL DEF Spec

-----------------------------------------------------------------------------
(* Spent retries stay spent.                                               *)

\* Between the breaker and the dispatcher no Work that could be taken is out of
\* retries.
BreakerInv ==
  phase = "dispatcher" =>
    \A w \in Work : OnBoard(w) /\ ~Settled(board[w]) => ~Spent(w)

LEMMA NextBreaker == TypeOK /\ BreakerInv /\ [Next]_vars => BreakerInv'
<1> SUFFICES ASSUME TypeOK, BreakerInv, [Next]_vars, phase' = "dispatcher" PROVE BreakerInv'
  BY DEF BreakerInv
<1>1. CASE Breaker
  <2>1. Settled(FailedPlace)
    BY NetAssumption DEF Settled
  <2>2. ASSUME NEW w \in Work, OnBoard(w)', ~Settled(board'[w])
        PROVE  board'[w] = board[w] /\ ~Spent(w)
    BY <1>1, <2>1, <2>2 DEF Breaker, OnBoard
  <2>3. \A w \in Work : Spent(w)' = Spent(w)
    BY <1>1 DEF Breaker, history, Spent
  <2>4. \A w \in Work : Settled(board[w])' = Settled(board'[w])
    BY DEF Settled
  <2> QED BY <2>2, <2>3, <2>4 DEF BreakerInv
<1>2. CASE UNCHANGED <<board, fails, phase>>
  BY <1>2 DEF BreakerInv, OnBoard, Settled, Spent
<1>3. ~Breaker => UNCHANGED <<board, fails, phase>>
  BY DEF Next, Submit, MoveWork, Pause, Resume, Return, BeginTick, BeginPausedTick, Dispatch,
         Transitioner, Cascade, Retire, vars, history
<1> QED BY <1>1, <1>2, <1>3

\* What the dispatcher takes from an unsettled place has retries left.
LEMMA DispatchRetries ==
  ASSUME TypeOK, BreakerInv, Dispatch,
         NEW w \in Work, ~InFlight(w), InFlight(w)', ~Settled(board[w]), NEW t \in Limited
  PROVE  fails[w][t] < Retries[t]
<1>1. PICK S : Starts(S) /\ Startable(S)
  BY DispatchStarts
<1>2. flight'[w] # flight[w]
  BY DEF InFlight
<1>3. PICK b \in S : b.work = w
  <2>1. Starts(S)
    BY <1>1
  <2> QED BY <1>2, <2>1, StartFacts
<1>4. board[w] = From[b.trans] /\ b.trans \in Transition
  BY <1>1, <1>3 DEF Startable
<1>5. OnBoard(w) /\ ~Settled(board[w])
  BY <1>4, NetAssumption DEF OnBoard
<1>6. ~Spent(w)
  BY <1>5 DEF BreakerInv, Dispatch
<1>7. fails[w][t] \in Nat /\ Retries[t] \in Nat
  <2>1. fails[w] \in [Limited -> Nat]
    BY DEF TypeOK
  <2>2. t \in Transition
    BY DEF Limited
  <2> QED BY <2>1, <2>2, NetAssumption
<1> QED BY <1>6, <1>7 DEF Spent

\* In any net: Work that is out of retries is never again taken from an unsettled place.
THEOREM RetriesAreHeld == Spec => RetriesHold
<1>1. Init => TypeOK /\ BreakerInv
  BY InitType DEF Init, BreakerInv
<1>2. TypeOK /\ BreakerInv /\ [Next]_vars => (TypeOK /\ BreakerInv)'
  BY NextType, NextBreaker
<1>3. TypeOK /\ BreakerInv /\ [Next]_vars =>
        [\A w \in Work : ~InFlight(w) /\ InFlight(w)' /\ ~Settled(board[w]) =>
           \A t \in Limited : fails[w][t] < Retries[t]]_vars
  <2> SUFFICES ASSUME TypeOK, BreakerInv, [Next]_vars, vars' # vars,
                      NEW w \in Work, ~InFlight(w), InFlight(w)', ~Settled(board[w]),
                      NEW t \in Limited
               PROVE  fails[w][t] < Retries[t]
    BY Zenon
  <2>1. CASE Dispatch
    BY <2>1, DispatchRetries
  <2>2. ASSUME ~Dispatch PROVE InFlight(w)' => InFlight(w)
    <3>1. CASE Retire
      BY <3>1 DEF Retire, InFlight
    <3>2. CASE UNCHANGED flight
      BY <3>2 DEF InFlight
    <3>3. ~Retire => UNCHANGED flight
      BY <2>2 DEF Next, Submit, MoveWork, Pause, Resume, Return, BeginTick, BeginPausedTick,
                  Breaker, Transitioner, Cascade, vars
    <3> QED BY <3>1, <3>2, <3>3
  <2> QED BY <2>1, <2>2
<1> QED BY <1>1, <1>2, <1>3, PTL DEF Spec, RetriesHold

-----------------------------------------------------------------------------
(* Cascading failure reaches everything.                                   *)

\* The first of some numbers.
LEMMA LeastNumber ==
  ASSUME NEW T \in SUBSET Nat, T # {}
  PROVE  \E n \in T : \A m \in T : n <= m
<1> DEFINE R == OpToRel(<, Nat)
<1>1. IsWellFoundedOn(R, Nat)
  BY NatLessThanWellFounded
<1>2. \A m, n \in Nat : m < n => <<m, n>> \in R
  BY DEF OpToRel
<1> HIDE DEF R
<1>3. PICK n \in T : \A m \in T : ~ (<<m, n>> \in R)
  BY <1>1, WFMin
<1>4. ASSUME NEW m \in T PROVE n <= m
  <2>1. n \in Nat /\ m \in Nat
    OBVIOUS
  <2>2. ~ (m < n)
    BY <1>2, <1>3, <2>1, Zenon
  <2> QED BY <2>1, <2>2
<1> QED BY <1>4

\* What one round adds to S: the Work of B that depends on it.
Grown(B, S) == S \cup {w \in B : DependsOn[w] \cap S # {}}

\* The rounds f of a search in B from S.
Rounds(f, B, S) == f = [n \in Nat |-> IF n = 0 THEN S ELSE Grown(B, f[n - 1])]

\* The first rounds g, up to n.
Begun(g, n, B, S) ==
  /\ g \in [0 .. n -> SUBSET Work]
  /\ g[0] = S
  /\ \A i \in 1 .. n : g[i] = Grown(B, g[i - 1])

LEMMA BegunExists ==
  ASSUME NEW B \in SUBSET Work, NEW S \in SUBSET Work, NEW n \in Nat
  PROVE  \E g : Begun(g, n, B, S)
<1> DEFINE T == {m \in Nat : ~ \E g : Begun(g, m, B, S)}
<1> SUFFICES ASSUME T # {} PROVE FALSE
  OBVIOUS
<1>1. PICK m \in T : \A k \in T : m <= k
  BY LeastNumber
<1>2. m \in Nat /\ ~ \E g : Begun(g, m, B, S)
  OBVIOUS
<1>3. CASE m = 0
  <2> DEFINE g == [i \in 0 .. 0 |-> S]
  <2>1. Begun(g, 0, B, S)
    BY DEF Begun
  <2> QED BY <1>2, <1>3, <2>1
<1>4. CASE m # 0
  <2>1. m - 1 \in Nat /\ m - 1 \notin T
    BY <1>1, <1>2, <1>4
  <2>2. PICK g : Begun(g, m - 1, B, S)
    BY <2>1
  <2> DEFINE h == [i \in 0 .. m |-> IF i = m THEN Grown(B, g[m - 1]) ELSE g[i]]
  <2>3. /\ g \in [0 .. m - 1 -> SUBSET Work] /\ g[0] = S
        /\ \A i \in 1 .. m - 1 : g[i] = Grown(B, g[i - 1])
    BY <2>2 DEF Begun
  <2>4. Grown(B, g[m - 1]) \in SUBSET Work
    <3>1. m - 1 \in 0 .. m - 1
      BY <2>1
    <3>2. g[m - 1] \in SUBSET Work
      BY <2>3, <3>1
    <3> QED BY <3>2 DEF Grown
  <2>5. h \in [0 .. m -> SUBSET Work]
    <3>1. \A i \in 0 .. m : i # m => i \in 0 .. m - 1
      BY <1>2
    <3> QED BY <2>3, <2>4, <3>1
  <2>6. h[0] = S
    BY <1>2, <1>4, <2>3
  <2>7. ASSUME NEW i \in 1 .. m PROVE h[i] = Grown(B, h[i - 1])
    <3>1. h[i - 1] = g[i - 1] /\ i \in 0 .. m
      BY <1>2
    <3>2. CASE i = m
      BY <3>1, <3>2
    <3>3. CASE i # m
      <4>1. i \in 1 .. m - 1
        BY <1>2, <3>3
      <4> QED BY <2>3, <3>1, <3>3, <4>1
    <3> QED BY <3>2, <3>3
  <2> HIDE DEF h
  <2>8. Begun(h, m, B, S)
    BY <2>5, <2>6, <2>7 DEF Begun
  <2> QED BY <1>2, <2>8
<1> QED BY <1>3, <1>4

LEMMA BegunAgree ==
  ASSUME NEW B, NEW S, NEW m \in Nat, NEW n \in Nat, NEW g, NEW h,
         Begun(g, m, B, S), Begun(h, n, B, S), NEW i \in Nat, i <= m, i <= n
  PROVE  g[i] = h[i]
<1> DEFINE T == {k \in 0 .. i : g[k] # h[k]}
<1> SUFFICES ASSUME T # {} PROVE FALSE
  BY DEF T
<1>1. T \in SUBSET Nat
  OBVIOUS
<1>2. PICK k \in T : \A l \in T : k <= l
  BY <1>1, LeastNumber
<1>3. k \in 0 .. i /\ g[k] # h[k]
  OBVIOUS
<1>4. k # 0
  BY <1>3 DEF Begun
<1>5. k \in 1 .. m /\ k \in 1 .. n /\ k - 1 \in 0 .. i
  BY <1>3, <1>4
<1>6. g[k - 1] = h[k - 1]
  <2>1. k - 1 \notin T
    BY <1>2, <1>3
  <2> QED BY <1>5, <2>1
<1> QED BY <1>3, <1>5, <1>6 DEF Begun

LEMMA RoundsExist ==
  ASSUME NEW B \in SUBSET Work, NEW S \in SUBSET Work
  PROVE  \E f : Rounds(f, B, S)
<1> DEFINE G(n) == CHOOSE g : Begun(g, n, B, S)
           f == [n \in Nat |-> G(n)[n]]
<1>1. \A n \in Nat : Begun(G(n), n, B, S)
  BY BegunExists
<1>2. f[0] = S
  BY <1>1 DEF Begun
<1>3. ASSUME NEW n \in Nat, n # 0 PROVE f[n] = Grown(B, f[n - 1])
  <2>1. n - 1 \in Nat /\ n - 1 <= n - 1 /\ n - 1 <= n /\ n \in 1 .. n
    BY <1>3
  <2>2. Begun(G(n), n, B, S) /\ Begun(G(n - 1), n - 1, B, S)
    BY <1>1, <2>1
  <2>3. f[n] = G(n)[n] /\ f[n - 1] = G(n - 1)[n - 1]
    BY <2>1
  <2> HIDE DEF G, f
  <2>4. G(n)[n - 1] = G(n - 1)[n - 1]
    BY <2>1, <2>2, BegunAgree
  <2>5. G(n)[n] = Grown(B, G(n)[n - 1])
    BY <2>1, <2>2 DEF Begun
  <2> QED BY <2>3, <2>4, <2>5
<1>4. f = [n \in Nat |-> IF n = 0 THEN S ELSE Grown(B, f[n - 1])]
  <2>1. f = [n \in Nat |-> f[n]]
    OBVIOUS
  <2> HIDE DEF f
  <2>2. \A n \in Nat : f[n] = IF n = 0 THEN S ELSE Grown(B, f[n - 1])
    BY <1>2, <1>3
  <2> QED BY <2>1, <2>2
<1> HIDE DEF f
<1> QED BY <1>4 DEF Rounds

\* The rounds stay among Work and forget nothing.
LEMMA RoundsFacts ==
  ASSUME NEW B \in SUBSET Work, NEW S \in SUBSET Work, NEW f, Rounds(f, B, S)
  PROVE  /\ f[0] = S
         /\ \A n \in Nat : f[n] \in SUBSET Work /\ S \subseteq f[n]
         /\ \A n \in Nat : n # 0 => f[n] = Grown(B, f[n - 1])
<1>1. f[0] = S /\ \A n \in Nat : n # 0 => f[n] = Grown(B, f[n - 1])
  <2> DEFINE g == [n \in Nat |-> IF n = 0 THEN S ELSE Grown(B, f[n - 1])]
  <2>1. f = g
    BY DEF Rounds
  <2>2. g[0] = S /\ \A n \in Nat : n # 0 => g[n] = Grown(B, f[n - 1])
    OBVIOUS
  <2> HIDE DEF g
  <2> QED BY <2>1, <2>2
<1> DEFINE T == {n \in Nat : ~ (f[n] \in SUBSET Work /\ S \subseteq f[n])}
<1>2. T = {}
  <2> SUFFICES ASSUME T # {} PROVE FALSE
    OBVIOUS
  <2>1. PICK n \in T : \A m \in T : n <= m
    BY LeastNumber
  <2>2. n \in Nat /\ n # 0
    BY <1>1
  <2>3. n - 1 \in Nat /\ n - 1 \notin T
    BY <2>1, <2>2
  <2>4. f[n - 1] \in SUBSET Work /\ S \subseteq f[n - 1]
    BY <2>3
  <2>5. f[n] \in SUBSET Work /\ S \subseteq f[n]
    BY <1>1, <2>2, <2>4 DEF Grown
  <2> QED BY <2>5
<1> QED BY <1>1, <1>2

\* As many rounds as there is Work reach everything.
LEMMA RoundsComplete ==
  ASSUME NEW B \in SUBSET Work, NEW S \in SUBSET Work, NEW f, Rounds(f, B, S)
  PROVE  Grown(B, f[Cardinality(Work)]) = f[Cardinality(Work)]
<1> DEFINE N == Cardinality(Work)
<1>0. IsFiniteSet(Work) /\ N \in Nat
  BY NetAssumption, FS_CardinalityType
<1>1. /\ f[0] = S /\ \A n \in Nat : f[n] \in SUBSET Work
      /\ \A n \in Nat : n # 0 => f[n] = Grown(B, f[n - 1])
  BY RoundsFacts
<1> SUFFICES ASSUME Grown(B, f[N]) # f[N] PROVE FALSE
  OBVIOUS
<1> HIDE DEF N
<1>2. ASSUME NEW i \in 0 .. N PROVE Grown(B, f[i]) # f[i]
  <2> SUFFICES ASSUME Grown(B, f[i]) = f[i] PROVE FALSE
    OBVIOUS
  <2> DEFINE T == {j \in i .. N : f[j] # f[i]}
  <2>1. T \in SUBSET Nat
    OBVIOUS
  <2>2. N \in T
    BY <1>0
  <2>3. PICK j \in T : \A k \in T : j <= k
    BY <2>1, <2>2, LeastNumber
  <2>4. j \in i .. N /\ f[j] # f[i] /\ j # i
    OBVIOUS
  <2>5. j \in Nat /\ j # 0 /\ j - 1 \in i .. N
    BY <1>0, <2>4
  <2>6. j - 1 \notin T
    BY <2>3, <2>5
  <2>7. f[j - 1] = f[i]
    BY <2>5, <2>6
  <2> QED BY <1>1, <2>4, <2>5, <2>7
<1> DEFINE C(n) == Cardinality(f[n])
           T == {n \in 0 .. N + 1 : ~ (n <= C(n))}
<1>3. \A n \in Nat : IsFiniteSet(f[n]) /\ C(n) \in Nat /\ C(n) <= N
  BY <1>0, <1>1, FS_Subset, FS_CardinalityType DEF N
<1>4. N + 1 \in T
  <2>1. N + 1 \in Nat
    BY <1>0
  <2>2. C(N + 1) \in Nat /\ C(N + 1) <= N
    BY <1>3, <2>1
  <2> HIDE DEF C
  <2> QED BY <1>0, <2>1, <2>2
<1>5. PICK n \in T : \A m \in T : n <= m
  <2>1. T \in SUBSET Nat
    BY <1>0
  <2> QED BY <1>4, <2>1, LeastNumber
<1>6. n \in 0 .. N + 1 /\ ~ (n <= C(n)) /\ n \in Nat
  BY <1>0
<1>7. n # 0
  BY <1>3, <1>6
<1>8. n - 1 \in 0 .. N /\ n - 1 \in Nat /\ n - 1 \notin T
  BY <1>0, <1>5, <1>6, <1>7
<1>9. n - 1 <= C(n - 1)
  <2>1. n - 1 \in 0 .. N + 1
    BY <1>0, <1>8
  <2> QED BY <1>8, <2>1
<1>10. f[n - 1] \subseteq f[n] /\ f[n - 1] # f[n]
  BY <1>1, <1>2, <1>6, <1>7, <1>8 DEF Grown
<1>11. C(n - 1) # C(n) /\ C(n - 1) <= C(n)
  BY <1>3, <1>6, <1>10, FS_Subset
<1>12. C(n - 1) \in Nat /\ C(n) \in Nat
  BY <1>3, <1>6, <1>8
<1> HIDE DEF C
<1> QED BY <1>6, <1>8, <1>9, <1>11, <1>12

\* What the cascade fails is closed under the relations, and holds the failed Work.
LEMMA DoomedClosed ==
  ASSUME NEW seeds \in SUBSET Work
  PROVE  /\ seeds \subseteq Doomed(seeds) /\ Doomed(seeds) \subseteq Work
         /\ \A w \in Work : OnBoard(w) /\ ~Settled(board[w]) /\ DependsOn[w] \cap Doomed(seeds) # {} =>
                           w \in Doomed(seeds)
<1> DEFINE B == {w \in Work : OnBoard(w) /\ ~Settled(board[w])}
           r == CHOOSE f : Rounds(f, B, seeds)
           N == Cardinality(Work)
<1>1. Rounds(r, B, seeds)
  BY RoundsExist
<1>2. Doomed(seeds) = r[N]
  BY DEF Doomed, Rounds, Grown
<1>3. seeds \subseteq r[N] /\ r[N] \subseteq Work /\ Grown(B, r[N]) = r[N]
  <2>1. N \in Nat
    BY NetAssumption, FS_CardinalityType
  <2>2. B \in SUBSET Work
    OBVIOUS
  <2> HIDE DEF B, r, N
  <2>3. seeds \subseteq r[N] /\ r[N] \subseteq Work
    BY <1>1, <2>1, <2>2, RoundsFacts
  <2>4. Grown(B, r[N]) = r[N]
    BY <1>1, <2>2, RoundsComplete DEF N
  <2> QED BY <2>3, <2>4
<1> HIDE DEF r, N
<1> QED BY <1>2, <1>3 DEF Grown

\* So no unsettled Work depends on failed Work once it has run.
LEMMA CascadeEstablishes ==
  ASSUME TypeOK, Cascade
  PROVE  CascadeComplete'
<1> DEFINE seeds  == {v \in Work : Failed(v)}
           doomed == Doomed(seeds)
<1>1. /\ seeds \subseteq doomed /\ doomed \subseteq Work
      /\ \A w \in Work : OnBoard(w) /\ ~Settled(board[w]) /\ DependsOn[w] \cap doomed # {} =>
                        w \in doomed
  BY DoomedClosed
<1>2. \A w \in Work : board'[w] = IF OnBoard(w) /\ ~Settled(board[w]) /\ w \in doomed
                                 THEN FailedPlace ELSE board[w]
  BY DEF Cascade
<1>3. Settled(FailedPlace) /\ FailedPlace # "none"
  BY NetAssumption DEF Settled
<1> SUFFICES ASSUME NEW w \in Work, board'[w] # "none", ~Settled(board'[w]),
                    NEW d \in DependsOn[w], board'[d] # "none", Category[board'[d]] = "FAILED"
             PROVE  FALSE
  BY DEF CascadeComplete, OnBoard, Settled, Failed
<1>4. d \in Work
  BY NetAssumption
<1>5. d \in doomed
  <2>1. CASE board'[d] = board[d]
    <3>1. d \in seeds
      BY <1>4, <2>1 DEF Failed, OnBoard
    <3> HIDE DEF seeds, doomed
    <3> QED BY <1>1, <3>1
  <2>2. CASE board'[d] # board[d]
    BY <1>2, <1>4, <2>2
  <2> QED BY <2>1, <2>2
<1> HIDE DEF doomed
<1>6. w \notin doomed /\ board'[w] = board[w]
  BY <1>2, <1>3 DEF OnBoard
<1> QED BY <1>1, <1>5, <1>6 DEF OnBoard

LEMMA CascadeStep == TypeOK /\ CascadeComplete /\ [Next]_vars => CascadeComplete'
<1> SUFFICES ASSUME TypeOK, CascadeComplete, [Next]_vars PROVE CascadeComplete'
  OBVIOUS
<1>1. CASE Cascade
  BY <1>1, CascadeEstablishes
<1>2. CASE UNCHANGED <<board, phase, full>>
  BY <1>2 DEF CascadeComplete, OnBoard, Settled, Failed
<1>3. CASE ~(phase' = "retire" /\ full')
  BY <1>3 DEF CascadeComplete
<1>4. CASE Pause \/ Resume \/ (\E w \in Work : Return(w)) \/ UNCHANGED vars
  BY <1>2, <1>4 DEF Pause, Resume, Return, vars
<1>5. CASE \/ (\E batch \in SUBSET Work : Submit(batch)) \/ (\E w \in Work, p \in Places : MoveWork(w, p))
           \/ BeginTick \/ BeginPausedTick \/ Breaker \/ Dispatch \/ Transitioner \/ Retire
  BY <1>3, <1>5 DEF Submit, MoveWork, BeginTick, BeginPausedTick, Breaker, Dispatch, Transitioner,
     Retire
<1> QED BY <1>1, <1>4, <1>5 DEF Next

\* When a tick of a running factory is over, no unsettled Work in the marking depends on
\* failed Work, at any distance (cascading_failure.go): the search runs once for every
\* Work, a round that adds nothing ends it, and one that adds something adds Work.
THEOREM CascadeIsComplete == Spec => []CascadeComplete
<1>1. Init => TypeOK /\ CascadeComplete
  BY InitType DEF Init, CascadeComplete
<1>2. TypeOK /\ CascadeComplete /\ [Next]_vars => (TypeOK /\ CascadeComplete)'
  BY NextType, CascadeStep
<1> QED BY <1>1, <1>2, PTL DEF Spec

-----------------------------------------------------------------------------
(* What a loop breaker does stop.                                          *)

\* Work in the marking that the guard of g lets pass.
OverLimit(g) == {w \in Work : board[w] = From[g] /\ visits[w][Watch[g]] >= MaxVisits[g]}

\* Where BreakerStopsLoop fails, this holds: while Work waits that has used its
\* visits, no tick gives all of it to workers once more; one at least is taken by
\* a logical workstation or left waiting (evaluateGuardedArc binds a match, Select
\* prefers logical workstations).  Work that is alone over its limit gets no other
\* pass.
BreakerHoldsOne ==
  [][phase = "dispatcher" /\ phase' = "transitioner" =>
       \A g \in Guarded \cap Logical :
         g \notin UsesUnit /\ OverLimit(g) # {} =>
           \E w \in OverLimit(g) : ~InFlight(w)' \/ flight'[w].trans \in Logical]_vars

\* In whatever order Work is looked at, a guarded transition has a binding to a
\* Work its guard lets pass.
LEMMA GuardedBinding ==
  ASSUME NEW order \in Orders, NEW g \in Guarded, g \notin UsesUnit, OverLimit(g) # {}
  PROVE  \E w \in OverLimit(g) : [work |-> w, trans |-> g, unit |-> 0] \in Bindings(g, order)
<1> DEFINE T == {order[w] : w \in OverLimit(g)}
<1>1. order \in [Work -> Work] /\ Work \subseteq Nat
  BY NetAssumption DEF Orders, Bijection, Injection, Surjection
<1>2. T \in SUBSET Nat /\ T # {}
  BY <1>1 DEF OverLimit
<1>3. PICK n \in T : \A m \in T : n <= m
  <2> HIDE DEF T
  <2> QED BY <1>2, LeastNumber
<1>4. PICK w \in OverLimit(g) : n = order[w]
  OBVIOUS
<1>5. \A v \in OverLimit(g) : order[w] <= order[v]
  BY <1>3, <1>4
<1>6. w \in Eligible(g, order)
  BY <1>5 DEF Eligible, OverLimit
<1>7. [work |-> w, trans |-> g, unit |-> 0] \in Bindings(g, order)
  BY <1>6 DEF Bindings
<1> QED BY <1>7

\* A logical transition ranks before a worker's with the same input place.
LEMMA LogicalFirst ==
  ASSUME NEW b, NEW c, From[b.trans] = From[c.trans], b.trans \in Logical, c.trans \notin Logical
  PROVE  ~(Rank(c) <= Rank(b))
<1> DEFINE base == IF Category[From[b.trans]] = "PROCESSING" THEN 0 ELSE 2
<1>1. base \in {0, 2} /\ Rank(b) = base + 0 /\ Rank(c) = base + 1
  BY DEF Rank
<1> HIDE DEF base
<1> QED BY <1>1

\* The scheduler does not select a worker's transition for a Work while it has a
\* binding of that Work, without a unit, to a logical one.
LEMMA SelectsLogical ==
  ASSUME NEW C \in Enabled, NEW S \in Selections(C), NEW b \in C, NEW c \in S,
         b.trans \in Logical, b.unit = 0, c.work = b.work
  PROVE  c.trans \in Logical
<1> SUFFICES ASSUME c.trans \notin Logical PROVE FALSE
  OBVIOUS
<1>1. S \subseteq C /\ \A d, e \in S : d # e => ~Conflict(d, e)
  BY DEF Selections
<1>2. From[b.trans] = From[c.trans]
  BY <1>1, BindingFacts
<1>3. ~(Rank(c) <= Rank(b))
  BY <1>2, LogicalFirst
<1>4. b \notin S
  BY <1>1 DEF Conflict
<1>5. \A d \in S : Conflict(d, b) => d = c
  BY <1>1 DEF Conflict
<1>6. \/ \E d \in S : Conflict(d, b) /\ Rank(d) <= Rank(b)
      \/ \A d \in S : Rank(d) <= Rank(b)
  BY <1>4 DEF Selections
<1> QED BY <1>3, <1>5, <1>6

LEMMA DispatchHoldsOne ==
  ASSUME HomeInv, Dispatch, NEW g \in Guarded \cap Logical, g \notin UsesUnit, OverLimit(g) # {}
  PROVE  \E w \in OverLimit(g) : ~InFlight(w)' \/ flight'[w].trans \in Logical
<1>1. PICK C \in Enabled : \E S \in Selections(C) : Starts(S)
  BY DEF Dispatch, Starts
<1>2. PICK S \in Selections(C) : Starts(S)
  BY <1>1
<1>3. PICK order \in Orders : C = UNION {Bindings(t, order) : t \in Transition}
  BY DEF Enabled
<1>4. PICK w \in OverLimit(g) : [work |-> w, trans |-> g, unit |-> 0] \in Bindings(g, order)
  BY GuardedBinding
<1>5. [work |-> w, trans |-> g, unit |-> 0] \in C
  BY <1>3, <1>4, NetAssumption
<1>6. w \in Work /\ ~InFlight(w)
  <2>1. w \in Work /\ board[w] \in Places
    BY <1>4, NetAssumption DEF OverLimit
  <2>2. OnBoard(w) /\ results = {}
    BY <2>1, NetAssumption DEF OnBoard, HomeInv, TypeOK, Dispatch
  <2> QED BY <2>1, <2>2 DEF HomeInv, OneHome, Out
<1>7. CASE flight'[w] = flight[w]
  BY <1>4, <1>6, <1>7 DEF InFlight
<1>8. ASSUME NEW c \in S, c.work = w, flight'[w] = [trans |-> c.trans, unit |-> c.unit]
      PROVE  flight'[w].trans \in Logical
  <2>1. c.trans \in Logical
    BY <1>2, <1>5, <1>8, SelectsLogical
  <2> QED BY <1>8, <2>1
<1>9. \/ flight'[w] = flight[w]
      \/ \E c \in S : c.work = w /\ flight'[w] = [trans |-> c.trans, unit |-> c.unit]
  BY <1>2, <1>6, StartFacts
<1> QED BY <1>4, <1>7, <1>8, <1>9

\* In any net, with any limits: a breaker never lets all Work over its limit go
\* round once more in one tick.
THEOREM BreakersHoldOne == Spec => BreakerHoldsOne
<1>1. ASSUME HomeInv, [Next]_vars, phase = "dispatcher", phase' = "transitioner"
      PROVE  Dispatch
  BY <1>1 DEF Next, Submit, MoveWork, Pause, Resume, Return, BeginTick, BeginPausedTick, Breaker,
              Transitioner, Cascade, Retire, vars
<1>2. HomeInv /\ [Next]_vars =>
        [phase = "dispatcher" /\ phase' = "transitioner" =>
           \A g \in Guarded \cap Logical :
             g \notin UsesUnit /\ OverLimit(g) # {} =>
               \E w \in OverLimit(g) : ~InFlight(w)' \/ flight'[w].trans \in Logical]_vars
  BY <1>1, DispatchHoldsOne
<1>3. Init => HomeInv
  BY InitType, InitHome DEF HomeInv
<1>4. HomeInv /\ [Next]_vars => HomeInv'
  BY NextType, NextHome DEF HomeInv
<1> QED BY <1>2, <1>3, <1>4, PTL DEF Spec, BreakerHoldsOne
=============================================================================
