----------------------- MODULE ResourceCapacityProofs -----------------------
(***************************************************************************)
(* Proofs about ResourceCapacity for any sets of lessees, dispatches and   *)
(* operators and any capacities.                                           *)
(***************************************************************************)
EXTENDS ResourceCapacity, FiniteSetTheorems, TLAPS

LEMMA UnitFacts ==
  /\ Unit \subseteq Int
  /\ None \notin Unit
  /\ IsFiniteSet(Unit)
<1>1. Unit \subseteq Int /\ None \notin Unit
  BY CapacityAssumption, OwnerAssumption DEF Unit
<1>2. IsFiniteSet(Unit)
  BY FS_Interval, CapacityAssumption DEF Unit
<1>3. QED
  BY <1>1, <1>2

-----------------------------------------------------------------------------
(* Type correctness.                                                       *)

LEMMA InitType == Init => TypeOK
<1> SUFFICES ASSUME Init PROVE TypeOK
  OBVIOUS
<1>1. capacity \in 0 .. MaxCapacity /\ available \subseteq Unit
  BY CapacityAssumption DEF Init, Unit
<1>2. lease \in [Lessee -> Unit \cup {None}] /\ claim \in [Dispatch -> SUBSET Unit]
  BY DEF Init
<1>3. ended \subseteq {d \in Dispatch : claim[d] # {}} /\ gate \in Operator \cup {None}
  BY DEF Init
<1>4. /\ lpc \in [Lessee -> LesseePC]
      /\ opc \in [Operator -> OperatorPC]
  BY DEF Init, LesseePC, OperatorPC
<1>5. request \in [Operator -> 0 .. MaxCapacity]
  BY CapacityAssumption DEF Init
<1>6. /\ \A o \in Operator : opc[o] # "idle" <=> gate = o
      /\ \A l \in Lessee : lease[l] # None <=> lpc[l] = "holding"
  BY OwnerAssumption DEF Init
<1>7. QED
  BY <1>1, <1>2, <1>3, <1>4, <1>5, <1>6 DEF TypeOK

LEMMA LeaseType ==
  ASSUME TypeOK, NEW l \in Lessee, Lease(l)
  PROVE  TypeOK'
<1>1. CASE Acquire(l)
  BY <1>1, Zenon DEF TypeOK, Acquire, units, LesseePC
<1>2. CASE Reserve(l)
  <2>1. CASE \E u \in available : /\ lease' = [lease EXCEPT ![l] = u]
                                  /\ available' = available \ {u}
                                  /\ lpc' = [lpc EXCEPT ![l] = "holding"]
    BY <1>2, <2>1, UnitFacts DEF TypeOK, Reserve, LesseePC
  <2>2. CASE lpc' = [lpc EXCEPT ![l] = "waiting"] /\ UNCHANGED <<lease, available>>
    BY <1>2, <2>2 DEF TypeOK, Reserve, LesseePC
  <2>3. QED
    BY <1>2, <2>1, <2>2 DEF Reserve
<1>3. CASE GiveUp(l)
  BY <1>3 DEF TypeOK, GiveUp, units, LesseePC
<1>4. CASE Release(l)
  BY <1>4, UnitFacts DEF TypeOK, Release, Signal, LesseePC
<1>5. QED
  BY <1>1, <1>2, <1>3, <1>4 DEF Lease

LEMMA FinishType ==
  ASSUME TypeOK, NEW d \in Dispatch, Finish(d)
  PROVE  TypeOK'
  BY DEF TypeOK, Finish, units

LEMMA TickType ==
  ASSUME TypeOK, Tick
  PROVE  TypeOK'
<1>1. PICK use \in [Dispatch -> SUBSET available] :
        /\ claim' = [d \in Dispatch |-> IF d \in ended THEN {} ELSE claim[d] \cup use[d]]
        /\ available' = (available \ UNION {use[d] : d \in Dispatch})
                           \cup UNION {claim[d] : d \in ended}
  BY DEF Tick
<1>2. available' \subseteq Unit
  BY <1>1 DEF TypeOK
<1>3. claim' \in [Dispatch -> SUBSET Unit]
  BY <1>1 DEF TypeOK
<1>4. QED
  BY <1>2, <1>3 DEF TypeOK, Tick

LEMMA ChangeType ==
  ASSUME TypeOK, NEW o \in Operator, Change(o)
  PROVE  TypeOK'
<1>1. CASE Admit(o)
  BY <1>1, OwnerAssumption DEF TypeOK, Admit, units, OperatorPC
<1>2. ASSUME NEW n \in 0 .. MaxCapacity, Preview(o, n) PROVE TypeOK'
  BY <1>2 DEF TypeOK, Preview, units, OperatorPC
<1>3. ASSUME NEW n \in 0 .. MaxCapacity, Ask(o, n) PROVE TypeOK'
  BY <1>3 DEF TypeOK, Ask, units, OperatorPC
<1>4. CASE Apply(o)
  <2>1. available' \subseteq Unit /\ capacity' \in 0 .. MaxCapacity
    BY <1>4 DEF TypeOK, Apply, Resize, IsHighest, IsLowest
  <2>2. lpc' \in [Lessee -> LesseePC]
    BY <1>4 DEF TypeOK, Apply, Signal, LesseePC
  <2>3. \A l \in Lessee : lease'[l] # None <=> lpc'[l] = "holding"
    BY <1>4 DEF TypeOK, Apply, Signal
  <2>4. opc' \in [Operator -> OperatorPC] /\ \A p \in Operator : opc'[p] # "idle" <=> gate' = p
    BY <1>4 DEF TypeOK, Apply, OperatorPC
  <2>5. QED
    BY <1>4, <2>1, <2>2, <2>3, <2>4 DEF TypeOK, Apply
<1>5. CASE Refuse(o)
  BY <1>5 DEF TypeOK, Refuse, units, OperatorPC
<1>6. CASE Leave(o)
  BY <1>6, OwnerAssumption DEF TypeOK, Leave, units, OperatorPC
<1>7. QED
  BY <1>1, <1>2, <1>3, <1>4, <1>5, <1>6 DEF Change

LEMMA StutterType ==
  ASSUME TypeOK, UNCHANGED vars
  PROVE  TypeOK'
  BY DEF TypeOK, vars, units

LEMMA NextType == TypeOK /\ [Next]_vars => TypeOK'
  BY LeaseType, FinishType, TickType, ChangeType, StutterType DEF Next

\* The state of the pool, its users and its gate keeps its shape.
THEOREM TypeCorrect == Spec => []TypeOK
  BY InitType, NextType, PTL DEF Spec

-----------------------------------------------------------------------------
(* One owner per unit.                                                     *)

LEMMA InitOwner == Init => OneOwner
  BY DEF Init, OneOwner, Leasing, Leased, Claimed

\* Steps that leave the units alone leave everything said about them alone.
LEMMA UnitsSame ==
  ASSUME UNCHANGED units
  PROVE  /\ Leasing' = Leasing /\ Leased' = Leased /\ Claimed' = Claimed
         /\ Known' = Known /\ InUse' = InUse
         /\ OneOwner => OneOwner'
<1>1. Leasing' = Leasing
  BY DEF units, Leasing
<1>2. Leased' = Leased
  BY <1>1 DEF units, Leased
<1>3. Claimed' = Claimed
  BY DEF units, Claimed
<1>4. QED
  BY <1>1, <1>2, <1>3 DEF units, Known, InUse, OneOwner

\* An available unit becomes the lease of l.
LEMMA ReserveOwner ==
  ASSUME TypeOK, OneOwner, NEW l \in Lessee, lpc[l] = "ready", NEW u \in available,
         lease' = [lease EXCEPT ![l] = u], available' = available \ {u}, claim' = claim
  PROVE  OneOwner' /\ Known' = Known
<1>1. u \in Unit /\ u # None
  BY UnitFacts DEF TypeOK
<1>2. lease[l] = None
  BY DEF TypeOK
<1>3. Leasing' = Leasing \cup {l} /\ l \notin Leasing
  BY <1>1, <1>2 DEF Leasing, TypeOK
<1>4. \A m \in Leasing : lease'[m] = lease[m]
  BY <1>3 DEF Leasing, TypeOK
<1>5. lease'[l] = u
  BY DEF TypeOK
<1>6. Leased' = Leased \cup {u}
  BY <1>3, <1>4, <1>5 DEF Leased
<1>7. Claimed' = Claimed
  BY DEF Claimed
<1>8. u \notin Leased /\ u \notin Claimed
  BY DEF OneOwner
<1>9. \A m, n \in Leasing' : m # n => lease'[m] # lease'[n]
  <2> SUFFICES ASSUME NEW m \in Leasing', NEW n \in Leasing', m # n
               PROVE  lease'[m] # lease'[n]
    OBVIOUS
  <2>1. \A k \in Leasing : lease'[k] \in Leased
    BY <1>4 DEF Leased
  <2>2. QED
    BY <1>3, <1>4, <1>5, <1>8, <2>1 DEF OneOwner
<1>10. OneOwner'
  BY <1>6, <1>7, <1>8, <1>9 DEF OneOwner
<1>11. QED
  BY <1>6, <1>7, <1>10 DEF Known

\* The lease of l becomes available.
LEMMA ReleaseOwner ==
  ASSUME TypeOK, OneOwner, NEW l \in Lessee, Release(l)
  PROVE  OneOwner' /\ Known' = Known
<1> USE DEF Release
<1>1. l \in Leasing /\ lease[l] \in Leased
  BY DEF TypeOK, Leasing, Leased
<1>2. Leasing' = Leasing \ {l}
  BY DEF Leasing, TypeOK
<1>3. \A m \in Leasing' : lease'[m] = lease[m]
  BY <1>2 DEF Leasing, TypeOK
<1>4. Leased' = Leased \ {lease[l]}
  BY <1>1, <1>2, <1>3 DEF Leased, OneOwner
<1>5. Claimed' = Claimed
  BY DEF Claimed
<1>6. lease[l] \notin Claimed
  BY <1>1 DEF OneOwner
<1>7. \A m, n \in Leasing' : m # n => lease'[m] # lease'[n]
  BY <1>2, <1>3 DEF OneOwner
<1>8. OneOwner'
  BY <1>4, <1>5, <1>6, <1>7 DEF OneOwner
<1>9. QED
  BY <1>1, <1>4, <1>5, <1>8 DEF Known

\* A tick moves units between the pool and the dispatches.
LEMMA TickOwner ==
  ASSUME TypeOK, OneOwner, Tick
  PROVE  OneOwner' /\ Known' = Known
<1>1. PICK use \in [Dispatch -> SUBSET available] :
        /\ \A d \in Dispatch : use[d] # {} => claim[d] = {}
        /\ \A d, e \in Dispatch : d # e => use[d] \cap use[e] = {}
        /\ claim' = [d \in Dispatch |-> IF d \in ended THEN {} ELSE claim[d] \cup use[d]]
        /\ available' = (available \ UNION {use[d] : d \in Dispatch})
                           \cup UNION {claim[d] : d \in ended}
  BY DEF Tick
<1> DEFINE Used == UNION {use[d] : d \in Dispatch}
           Back == UNION {claim[d] : d \in ended}
<1>2. ended \subseteq Dispatch /\ \A d \in ended : use[d] = {}
  BY <1>1 DEF TypeOK
<1>3. Leased' = Leased /\ Leasing' = Leasing /\ lease' = lease
  BY DEF Tick, Leased, Leasing
<1>4. Used \subseteq available /\ Back \subseteq Claimed
  BY <1>1, <1>2 DEF Claimed
<1>5. \A d \in Dispatch : use[d] \cap Back = {} /\ (d \notin ended => claim[d] \cap Back = {})
  BY <1>1, <1>2, <1>4 DEF OneOwner
<1>6. Claimed' = (Claimed \cup Used) \ Back
  <2>1. \A x : x \in Claimed' <=> \E d \in Dispatch : d \notin ended /\ (x \in claim[d] \/ x \in use[d])
    BY <1>1 DEF Claimed
  <2>2. \A x : x \in (Claimed \cup Used) \ Back
                <=> \E d \in Dispatch : d \notin ended /\ (x \in claim[d] \/ x \in use[d])
    BY <1>2, <1>5 DEF Claimed
  <2>3. QED
    BY <2>1, <2>2
<1>7. available' = (available \ Used) \cup Back
  BY <1>1
<1>8. \A d, e \in Dispatch : d # e => claim'[d] \cap claim'[e] = {}
  <2> SUFFICES ASSUME NEW d \in Dispatch, NEW e \in Dispatch, d # e,
                      NEW x, x \in claim'[d], x \in claim'[e]
               PROVE  FALSE
    BY Zenon
  <2>1. (x \in claim[d] \/ x \in use[d]) /\ (x \in claim[e] \/ x \in use[e])
    BY <1>1
  <2>2. x \in available => x \notin claim[d] /\ x \notin claim[e]
    BY DEF OneOwner, Claimed
  <2>3. (x \in use[d] \/ x \in use[e]) => x \in available
    BY <1>1
  <2>4. use[d] \cap use[e] = {} /\ claim[d] \cap claim[e] = {}
    BY <1>1 DEF OneOwner
  <2>5. QED
    BY <2>1, <2>2, <2>3, <2>4, Zenon
<1> HIDE DEF Used, Back
<1>9. OneOwner'
  BY <1>3, <1>4, <1>6, <1>7, <1>8 DEF OneOwner
<1>10. QED
  BY <1>3, <1>4, <1>6, <1>7, <1>9 DEF Known, OneOwner

\* A capacity change removes idle units or brings unknown ones.
LEMMA ResizeOwner ==
  ASSUME TypeOK, OneOwner, NEW o \in Operator, Apply(o)
  PROVE  OneOwner'
<1>1. Leased' = Leased /\ Leasing' = Leasing /\ Claimed' = Claimed /\ lease' = lease /\ claim' = claim
  BY DEF Apply, Leased, Leasing, Claimed
<1>2. available' \cap Leased = {} /\ available' \cap Claimed = {}
  BY DEF Apply, Resize, IsLowest, IsHighest, OneOwner, Known
<1>3. QED
  BY <1>1, <1>2 DEF OneOwner

LEMMA NextOwner == TypeOK /\ OneOwner /\ [Next]_vars => OneOwner'
<1> SUFFICES ASSUME TypeOK, OneOwner, [Next]_vars PROVE OneOwner'
  OBVIOUS
<1>1. ASSUME NEW l \in Lessee, Lease(l) PROVE OneOwner'
  <2>1. CASE Acquire(l) \/ GiveUp(l)
    BY <2>1, UnitsSame DEF Acquire, GiveUp
  <2>2. CASE Reserve(l)
    BY <2>2, ReserveOwner, UnitsSame DEF Reserve, units
  <2>3. CASE Release(l)
    BY <2>3, ReleaseOwner
  <2>4. QED
    BY <1>1, <2>1, <2>2, <2>3 DEF Lease
<1>2. ASSUME NEW d \in Dispatch, Finish(d) PROVE OneOwner'
  BY <1>2, UnitsSame DEF Finish
<1>3. CASE Tick
  BY <1>3, TickOwner
<1>4. ASSUME NEW o \in Operator, Change(o) PROVE OneOwner'
  <2>1. CASE Apply(o)
    BY <2>1, ResizeOwner
  <2>2. CASE UNCHANGED units
    BY <2>2, UnitsSame
  <2>3. QED
    BY <1>4, <2>1, <2>2 DEF Change, Admit, Preview, Ask, Refuse, Leave
<1>5. CASE UNCHANGED vars
  BY <1>5, UnitsSame DEF vars
<1>6. QED
  BY <1>1, <1>2, <1>3, <1>4, <1>5 DEF Next

\* Units of a reduced and enlarged pool never get a second owner.
THEOREM SingleOwner == Spec => []OneOwner
<1>1. Spec => [](TypeOK /\ OneOwner)
  BY InitType, InitOwner, NextType, NextOwner, PTL DEF Spec
<1>2. QED
  BY <1>1, PTL

-----------------------------------------------------------------------------
(* As many units as the capacity says.                                     *)

LEMMA InitUnits == Init => UnitsMatchCapacity
<1> SUFFICES ASSUME Init PROVE Cardinality(Known) = capacity
  BY DEF UnitsMatchCapacity
<1>1. Leased = {} /\ Claimed = {}
  BY DEF Init, Leased, Leasing, Claimed
<1>2. Known = 0 .. Authored - 1 /\ capacity = Authored
  BY <1>1 DEF Init, Known
<1>3. QED
  BY <1>2, FS_Interval, CapacityAssumption

LEMMA KnownFinite ==
  ASSUME TypeOK
  PROVE  /\ Known \subseteq Unit
         /\ \A S \in SUBSET Unit : IsFiniteSet(S) /\ Cardinality(S) \in Nat
<1>1. Leased \subseteq Unit /\ Claimed \subseteq Unit
  BY DEF TypeOK, Leased, Leasing, Claimed
<1>2. \A S \in SUBSET Unit : IsFiniteSet(S)
  BY UnitFacts, FS_Subset
<1>3. QED
  BY <1>1, <1>2, FS_CardinalityType DEF Known, TypeOK

\* Only a capacity change makes or removes units.
LEMMA KnownSame ==
  ASSUME TypeOK, OneOwner, [Next]_vars, \A o \in Operator : ~Apply(o)
  PROVE  Known' = Known /\ capacity' = capacity
<1>1. ASSUME NEW l \in Lessee, Lease(l) PROVE Known' = Known /\ capacity' = capacity
  <2>1. CASE Acquire(l) \/ GiveUp(l)
    BY <2>1, UnitsSame DEF Acquire, GiveUp, units
  <2>2. CASE Reserve(l)
    BY <2>2, ReserveOwner, UnitsSame DEF Reserve, units
  <2>3. CASE Release(l)
    BY <2>3, ReleaseOwner DEF Release
  <2>4. QED
    BY <1>1, <2>1, <2>2, <2>3 DEF Lease
<1>2. ASSUME NEW d \in Dispatch, Finish(d) PROVE Known' = Known /\ capacity' = capacity
  BY <1>2, UnitsSame DEF Finish, units
<1>3. CASE Tick
  BY <1>3, TickOwner DEF Tick
<1>4. ASSUME NEW o \in Operator, Change(o) PROVE Known' = Known /\ capacity' = capacity
  BY <1>4, UnitsSame DEF Change, Admit, Preview, Ask, Refuse, Leave, units
<1>5. CASE UNCHANGED vars
  BY <1>5, UnitsSame DEF vars, units
<1>6. QED
  BY <1>1, <1>2, <1>3, <1>4, <1>5 DEF Next

LEMMA ApplyUnits ==
  ASSUME TypeOK, OneOwner, UnitsMatchCapacity, NEW o \in Operator, Apply(o)
  PROVE  UnitsMatchCapacity'
<1> DEFINE n == request[o]
<1>1. n \in Nat /\ capacity \in Nat /\ n # capacity
  BY CapacityAssumption DEF TypeOK, Apply
<1>2. Leased' = Leased /\ Claimed' = Claimed
  BY DEF Apply, Leased, Leasing, Claimed
<1>3. PICK part \in SUBSET Unit :
        IF n < capacity
        THEN IsHighest(capacity - n, part, available) /\ available' = available \ part
        ELSE IsLowest(n - capacity, part, Unit \ Known) /\ available' = available \cup part
  BY DEF Apply, Resize
<1>4. /\ IsFiniteSet(Known) /\ IsFiniteSet(part)
      /\ Cardinality(Known) = capacity /\ capacity' = n
  BY KnownFinite DEF UnitsMatchCapacity, Apply, Resize
<1>5. CASE n < capacity
  <2>1. part \subseteq available /\ Cardinality(part) = capacity - n /\ available' = available \ part
    BY <1>3, <1>5 DEF IsHighest
  <2>2. Known' = Known \ part /\ part \subseteq Known /\ Known \cap part = part
    BY <1>2, <2>1 DEF Known, OneOwner
  <2>3. Cardinality(Known') = Cardinality(Known) - Cardinality(part)
    BY <1>4, <2>2, FS_Difference
  <2>4. QED
    BY <1>1, <1>4, <2>1, <2>3 DEF UnitsMatchCapacity
<1>6. CASE ~(n < capacity)
  <2>1. part \subseteq Unit \ Known /\ Cardinality(part) = n - capacity /\ available' = available \cup part
    BY <1>3, <1>6 DEF IsLowest
  <2>2. Known' = Known \cup part /\ Known \cap part = {}
    BY <1>2, <2>1 DEF Known
  <2>3. Cardinality(Known') = Cardinality(Known) + Cardinality(part)
    <3>1. Cardinality(Known \cup part)
            = Cardinality(Known) + Cardinality(part) - Cardinality(Known \cap part)
      BY <1>4, FS_Union
    <3>2. Cardinality(Known \cap part) = 0
      BY <2>2, FS_EmptySet
    <3>3. Cardinality(Known) \in Int /\ Cardinality(part) \in Int
      BY <1>1, <1>4, <2>1
    <3>4. QED
      BY <2>2, <3>1, <3>2, <3>3
  <2>4. QED
    BY <1>1, <1>4, <2>1, <2>3 DEF UnitsMatchCapacity
<1>7. QED
  BY <1>5, <1>6

LEMMA NextUnits ==
  TypeOK /\ OneOwner /\ UnitsMatchCapacity /\ [Next]_vars => UnitsMatchCapacity'
  BY KnownSame, ApplyUnits DEF UnitsMatchCapacity

\* The number of units always equals the capacity in force.
THEOREM UnitsConserved == Spec => []UnitsMatchCapacity
<1>1. Spec => [](TypeOK /\ OneOwner /\ UnitsMatchCapacity)
  BY InitType, InitOwner, InitUnits, NextType, NextOwner, NextUnits, PTL DEF Spec
<1>2. QED
  BY <1>1, PTL

-----------------------------------------------------------------------------
(* The gate makes a previewed capacity binding.                            *)

\* While an operator keeps the gate, the units stay as they are until it applies
\* its own change.
LEMMA GateHolds ==
  ASSUME TypeOK, NEW o \in Operator, gate = o, [Next]_vars, ~Apply(o)
  PROVE  UNCHANGED units
<1>1. gate # None /\ \A p \in Operator : opc[p] # "idle" => p = o
  BY OwnerAssumption DEF TypeOK
<1>2. ASSUME NEW l \in Lessee, Lease(l) PROVE UNCHANGED units
  BY <1>1, <1>2 DEF Lease, Acquire, Reserve, GiveUp, Release
<1>3. ASSUME NEW p \in Operator, Change(p) PROVE UNCHANGED units
  <2>1. CASE Apply(p)
    BY <1>1, <2>1 DEF Apply
  <2>2. QED
    BY <1>3, <2>1 DEF Change, Admit, Preview, Ask, Refuse, Leave
<1>4. QED
  BY <1>1, <1>2, <1>3 DEF Next, Finish, Tick, vars

LEMMA NextPreview ==
  TypeOK /\ PreviewIsBinding /\ [Next]_vars => PreviewIsBinding'
<1> SUFFICES ASSUME TypeOK, PreviewIsBinding, [Next]_vars,
                    NEW o \in Operator, opc'[o] = "previewed"
             PROVE  request'[o] >= InUse' /\ request'[o] # capacity'
  BY Zenon DEF PreviewIsBinding
<1>1. CASE \E n \in 0 .. MaxCapacity : Preview(o, n)
  BY <1>1, UnitsSame DEF Preview, units, TypeOK
<1>2. CASE ~ \E n \in 0 .. MaxCapacity : Preview(o, n)
  <2>1. opc[o] = "previewed" /\ request'[o] = request[o] /\ ~Apply(o)
    <3>1. ASSUME NEW p \in Operator, Change(p)
          PROVE  opc[o] = "previewed" /\ request'[o] = request[o] /\ ~Apply(o)
      BY <1>2, <3>1 DEF Change, Admit, Preview, Ask, Apply, Refuse, Leave, TypeOK
    <3>2. ASSUME UNCHANGED <<opc, request>>
          PROVE  opc[o] = "previewed" /\ request'[o] = request[o] /\ ~Apply(o)
      BY <3>2 DEF Apply, TypeOK
    <3>3. QED
      BY <3>1, <3>2 DEF Next, Lease, Acquire, Reserve, GiveUp, Release, Finish, Tick, vars
  <2>2. gate = o
    BY <2>1 DEF TypeOK
  <2>3. UNCHANGED units
    BY <2>1, <2>2, GateHolds
  <2>4. InUse' = InUse /\ capacity' = capacity
    BY <2>3, UnitsSame DEF units
  <2>5. QED
    BY <2>1, <2>4 DEF PreviewIsBinding
<1>3. QED
  BY <1>1, <1>2

\* A change that was previewed, and whose request event was appended, is applied
\* as previewed.
THEOREM PreviewBinds == Spec => []PreviewIsBinding
<1>1. Init => PreviewIsBinding
  BY DEF Init, PreviewIsBinding
<1>2. Spec => [](TypeOK /\ PreviewIsBinding)
  BY InitType, NextType, <1>1, NextPreview, PTL DEF Spec
<1>3. QED
  BY <1>2, PTL

-----------------------------------------------------------------------------
(* Wake-ups of lessees.                                                    *)

LEMMA StepWakes ==
  ASSUME TypeOK, [Next]_vars, ~Tick,
         NEW l \in Lessee, lpc'[l] = "waiting", available' # {}
  PROVE  lpc[l] = "waiting" /\ available # {}
<1>1. CASE UNCHANGED <<lpc, available>>
  BY <1>1
<1>2. ASSUME NEW m \in Lessee, Lease(m) PROVE lpc[l] = "waiting" /\ available # {}
  <2>1. CASE Acquire(m) \/ GiveUp(m)
    BY <2>1 DEF Acquire, GiveUp, units, TypeOK
  <2>2. CASE Reserve(m)
    BY <2>2 DEF Reserve, TypeOK
  <2>3. CASE Release(m)
    BY <2>3 DEF Release, Signal, TypeOK
  <2>4. QED
    BY <1>2, <2>1, <2>2, <2>3 DEF Lease
<1>3. ASSUME NEW o \in Operator, Change(o) PROVE lpc[l] = "waiting" /\ available # {}
  <2>1. CASE Apply(o)
    BY <2>1 DEF Apply, Signal
  <2>2. QED
    BY <1>1, <1>3, <2>1 DEF Change, Admit, Preview, Ask, Refuse, Leave, units
<1>4. QED
  BY <1>1, <1>2, <1>3 DEF Next, Finish, vars, units

\* Whatever else happens at the gate, only a tick leaves a lessee asleep beside a
\* unit that became available.
THEOREM LeasesWake == Spec => NoLostWakeup
<1>1. TypeOK /\ [Next]_vars =>
        [\A l \in Lessee :
           ~Tick /\ lpc'[l] = "waiting" /\ available' # {}
             => lpc[l] = "waiting" /\ available # {}]_vars
  BY StepWakes
<1>2. QED
  BY InitType, NextType, <1>1, PTL DEF Spec, NoLostWakeup
=============================================================================
