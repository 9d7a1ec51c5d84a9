-------------------------- MODULE ResourceCapacity --------------------------
(***************************************************************************)
(* One authored resource of a factory: the pool of its resource tokens in  *)
(* FactoryEngine, which three kinds of actors share.  The engine's tick    *)
(* claims units for dispatches and gives them back with their results;     *)
(* workers of JavaScript sessions hold one unit as a lease; operators      *)
(* change the capacity of the running factory.  The tick, a lease          *)
(* operation and a whole live change each hold the admission gate, a       *)
(* channel with one token; the first two hold e.mu throughout as well and  *)
(* are single actions here, while a live change keeps the gate over        *)
(* several.                                                                *)
(*                                                                         *)
(* A unit is the index of its token ID, <resource>:resource:<index>.  The  *)
(* code orders the units by ID, which is the order of the indices as long  *)
(* as they have one digit; no property depends on that order.              *)
(***************************************************************************)
EXTENDS Integers, FiniteSets

CONSTANTS
  Lessee,       \* goroutines that acquire a lease
  Dispatch,     \* dispatches that may be in flight; a retired one is reused
  Operator,     \* goroutines that change the capacity
  None,         \* no unit; nobody
  MaxCapacity,  \* bound: capacities that are authored or requested
  Authored      \* the capacity the factory starts with

ASSUME CapacityAssumption == MaxCapacity \in Nat /\ Authored \in 0 .. MaxCapacity
ASSUME OwnerAssumption    == None \notin Operator \cup Int

VARIABLES
  capacity,   \* state.Net.Resources[resource].Capacity
  available,  \* units in the marking, at the resource's available place
  lease,      \* resourceLeases: the unit of each lessee
  claim,      \* Dispatches[d].ConsumedTokens: the units of each dispatch
  ended,      \* dispatches whose result is buffered
  gate,       \* who keeps the token of admissionGate between two actions
  lpc,        \* where each lessee is in AcquireResourceCapacityLease
  opc,        \* where each operator is in its change
  request     \* the capacity each operator asks for

units == <<capacity, available, lease, claim>>
vars  == <<units, ended, gate, lpc, opc, request>>

Unit       == 0 .. MaxCapacity - 1
LesseePC   == {"idle", "ready", "waiting", "holding"}
OperatorPC == {"idle", "admitted", "previewed", "requested", "decided"}

Leasing == {l \in Lessee : lease[l] # None}
Leased  == {lease[l] : l \in Leasing}
Claimed == UNION {claim[d] : d \in Dispatch}
Known   == available \cup Leased \cup Claimed

\* resourceInUseCountLocked: the units of the dispatches in flight, each counted
\* once, and the leases.
InUse == Cardinality(Claimed) + Cardinality(Leasing)

\* The n first units of S in one direction of their order.
IsLowest(n, part, S)  == /\ part \subseteq S /\ Cardinality(part) = n
                         /\ \A u \in part, v \in S \ part : u < v
IsHighest(n, part, S) == /\ part \subseteq S /\ Cardinality(part) = n
                         /\ \A u \in part, v \in S \ part : u > v

-----------------------------------------------------------------------------

Init ==
  /\ capacity = Authored
  /\ available = 0 .. Authored - 1
  /\ lease = [l \in Lessee |-> None]
  /\ claim = [d \in Dispatch |-> {}]
  /\ ended = {}
  /\ gate = None
  /\ lpc = [l \in Lessee |-> "idle"]
  /\ opc = [o \in Operator |-> "idle"]
  /\ request = [o \in Operator |-> 0]

\* Mutation: the notification channel is replaced but not closed.
SignalNobody(pcs) == pcs

\* signalResourceCapacityChangedLocked closes the channel every waiting lessee
\* has its hands on.
Signal(pcs) == [l \in Lessee |-> IF pcs[l] = "waiting" THEN "ready" ELSE pcs[l]]

-----------------------------------------------------------------------------
(* Leases.                                                                 *)

Acquire(l) ==
  /\ lpc[l] = "idle"
  /\ lpc' = [lpc EXCEPT ![l] = "ready"]
  /\ UNCHANGED <<units, ended, gate, opc, request>>

\* Mutation: the lease is reserved without the admission gate.
ReserveUngated(l) ==
  /\ lpc[l] = "ready"
  /\ \E u \in available :
       /\ lease' = [lease EXCEPT ![l] = u]
       /\ available' = available \ {u}
  /\ lpc' = [lpc EXCEPT ![l] = "holding"]
  /\ UNCHANGED <<capacity, claim, ended, gate, opc, request>>

\* One turn of the loop of AcquireResourceCapacityLease: the first available unit
\* becomes the lease, or the lessee goes to sleep on the current channel.
Reserve(l) ==
  /\ lpc[l] = "ready"
  /\ gate = None
  /\ \/ \E u \in available :
          /\ IsLowest(1, {u}, available)
          /\ lease' = [lease EXCEPT ![l] = u]
          /\ available' = available \ {u}
          /\ lpc' = [lpc EXCEPT ![l] = "holding"]
     \/ /\ available = {}
        /\ lpc' = [lpc EXCEPT ![l] = "waiting"]
        /\ UNCHANGED <<lease, available>>
  /\ UNCHANGED <<capacity, claim, ended, gate, opc, request>>

\* The context of the lessee ends before it has a unit.
GiveUp(l) ==
  /\ lpc[l] \in {"ready", "waiting"}
  /\ lpc' = [lpc EXCEPT ![l] = "idle"]
  /\ UNCHANGED <<units, ended, gate, opc, request>>

\* The first Release of a lease; the others do nothing.
Release(l) ==
  /\ lpc[l] = "holding"
  /\ gate = None
  /\ available' = available \cup {lease[l]}
  /\ lease' = [lease EXCEPT ![l] = None]
  /\ lpc' = Signal([lpc EXCEPT ![l] = "idle"])
  /\ UNCHANGED <<capacity, claim, ended, gate, opc, request>>

-----------------------------------------------------------------------------
(* Dispatches.                                                             *)

\* The result of a dispatch in flight enters the result buffer.
Finish(d) ==
  /\ claim[d] # {}
  /\ d \notin ended
  /\ ended' = ended \cup {d}
  /\ UNCHANGED <<units, gate, lpc, opc, request>>

\* Mutation: a requeued or failed dispatch is retired without its units.
TickKeepsUnits ==
  /\ gate = None
  /\ \E use \in [Dispatch -> SUBSET available] :
       /\ \A d \in Dispatch : use[d] # {} => claim[d] = {}
       /\ \A d, e \in Dispatch : d # e => use[d] \cap use[e] = {}
       /\ claim' = [d \in Dispatch |-> IF d \in ended THEN {} ELSE claim[d] \cup use[d]]
       /\ available' = available \ UNION {use[d] : d \in Dispatch}
  /\ ended' = {}
  /\ UNCHANGED <<capacity, lease, gate, lpc, opc, request>>

\* A tick: the Dispatcher starts dispatches with available units, the
\* Transitioner then gives back the units of every buffered result, whatever its
\* outcome, and those dispatches are retired.
Tick ==
  /\ gate = None
  /\ \E use \in [Dispatch -> SUBSET available] :
       /\ \A d \in Dispatch : use[d] # {} => claim[d] = {}
       /\ \A d, e \in Dispatch : d # e => use[d] \cap use[e] = {}
       /\ claim' = [d \in Dispatch |-> IF d \in ended THEN {} ELSE claim[d] \cup use[d]]
       /\ available' = (available \ UNION {use[d] : d \in Dispatch})
                          \cup UNION {claim[d] : d \in ended}
  /\ ended' = {}
  /\ UNCHANGED <<capacity, lease, gate, lpc, opc, request>>

-----------------------------------------------------------------------------
(* Capacity changes.                                                       *)

Admit(o) ==
  /\ opc[o] = "idle"
  /\ gate = None
  /\ gate' = o
  /\ opc' = [opc EXCEPT ![o] = "admitted"]
  /\ UNCHANGED <<units, ended, lpc, request>>

\* A live change previews a capacity n it may set and goes on to append its
\* request event; a refused or void change ends here (Leave).
Preview(o, n) ==
  /\ opc[o] = "admitted"
  /\ n >= InUse
  /\ n # capacity
  /\ request' = [request EXCEPT ![o] = n]
  /\ opc' = [opc EXCEPT ![o] = "previewed"]
  /\ UNCHANGED <<units, ended, gate, lpc>>

\* SetResourceCapacity, and the recovery of a live change whose request event is
\* in the log already, have no preview.
Ask(o, n) ==
  /\ opc[o] = "admitted"
  /\ request' = [request EXCEPT ![o] = n]
  /\ opc' = [opc EXCEPT ![o] = "requested"]
  /\ UNCHANGED <<units, ended, gate, lpc>>

\* Mutation: the identities of leased units count as unused.
ResizeReusesLeased(n) ==
  /\ \E part \in SUBSET Unit :
       IF n < capacity
       THEN IsHighest(capacity - n, part, available) /\ available' = available \ part
       ELSE /\ IsLowest(n - capacity, part, Unit \ (available \cup Claimed))
            /\ available' = available \cup part
  /\ capacity' = n

\* The token changes of SetResourceCapacityAdmitted: the last idle units go, or
\* units with the first unused identities come.
Resize(n) ==
  /\ \E part \in SUBSET Unit :
       IF n < capacity
       THEN IsHighest(capacity - n, part, available) /\ available' = available \ part
       ELSE IsLowest(n - capacity, part, Unit \ Known) /\ available' = available \cup part
  /\ capacity' = n

\* SetResourceCapacityAdmitted decides again and applies the change.
Apply(o) ==
  /\ opc[o] \in {"previewed", "requested"}
  /\ request[o] >= InUse
  /\ request[o] # capacity
  /\ Resize(request[o])
  /\ lpc' = Signal(lpc)
  /\ opc' = [opc EXCEPT ![o] = "decided"]
  /\ UNCHANGED <<lease, claim, ended, gate, request>>

\* The same call when it refuses the change or finds it void.
Refuse(o) ==
  /\ opc[o] \in {"previewed", "requested"}
  /\ request[o] < InUse \/ request[o] = capacity
  /\ opc' = [opc EXCEPT ![o] = "decided"]
  /\ UNCHANGED <<units, ended, gate, lpc, request>>

\* Mutation: an early return forgets the gate.
LeaveLocked(o) ==
  /\ opc[o] # "idle"
  /\ gate' = IF opc[o] = "decided" THEN None ELSE gate
  /\ opc' = [opc EXCEPT ![o] = "idle"]
  /\ UNCHANGED <<units, ended, lpc, request>>

\* The deferred release of the gate, after the last step or an early return.
Leave(o) ==
  /\ opc[o] # "idle"
  /\ gate' = None
  /\ opc' = [opc EXCEPT ![o] = "idle"]
  /\ UNCHANGED <<units, ended, lpc, request>>

-----------------------------------------------------------------------------

Lease(l)  == Acquire(l) \/ Reserve(l) \/ GiveUp(l) \/ Release(l)
Change(o) == Admit(o) \/ (\E n \in 0 .. MaxCapacity : Preview(o, n) \/ Ask(o, n))
               \/ Apply(o) \/ Refuse(o) \/ Leave(o)

Next ==
  \/ \E l \in Lessee : Lease(l)
  \/ \E d \in Dispatch : Finish(d)
  \/ Tick
  \/ \E o \in Operator : Change(o)

Spec == Init /\ [][Next]_vars

(* A goroutine blocked on the gate is served in its turn (receivers on a   *)
(* Go channel form a queue), hence strong fairness; a change returns and   *)
(* frees the gate.  Nobody has to give a unit back.                        *)
Fairness ==
  /\ \A l \in Lessee : SF_vars(Reserve(l))
  /\ \A o \in Operator : WF_vars(Leave(o))

FairSpec == Spec /\ Fairness

-----------------------------------------------------------------------------
(* Properties.                                                             *)

\* The shape of the state; the gate is held exactly by the operator inside a
\* change, and a lessee has a unit exactly while it holds its lease.
TypeOK ==
  /\ capacity \in 0 .. MaxCapacity
  /\ available \subseteq Unit
  /\ lease \in [Lessee -> Unit \cup {None}]
  /\ claim \in [Dispatch -> SUBSET Unit]
  /\ ended \subseteq {d \in Dispatch : claim[d] # {}}
  /\ gate \in Operator \cup {None}
  /\ lpc \in [Lessee -> LesseePC]
  /\ opc \in [Operator -> OperatorPC]
  /\ request \in [Operator -> 0 .. MaxCapacity]
  /\ \A o \in Operator : opc[o] # "idle" <=> gate = o
  /\ \A l \in Lessee : lease[l] # None <=> lpc[l] = "holding"

\* No unit has two owners: whatever units came, went and came back under an old
\* identity, the pool, the leases and the dispatches are pairwise disjoint.
OneOwner ==
  /\ available \cap Leased = {}
  /\ available \cap Claimed = {}
  /\ Leased \cap Claimed = {}
  /\ \A l, m \in Leasing : l # m => lease[l] # lease[m]
  /\ \A d, e \in Dispatch : d # e => claim[d] \cap claim[e] = {}

\* The authored or last set capacity is the number of units there are: none is
\* lost with a failed, requeued or canceled dispatch, by an abandoned wait or by
\* a reduction that meets units in use, and none is made up.
UnitsMatchCapacity == Cardinality(Known) = capacity

\* What a live change previewed still holds when it applies the change, after it
\* has appended its request event: use of the resource cannot have grown past it.
PreviewIsBinding ==
  \A o \in Operator :
    opc[o] = "previewed" => request[o] >= InUse /\ request[o] # capacity

\* No lease operation and no capacity change loses a wake-up: only a tick, which
\* signals nobody, can leave a lessee asleep on its channel when units become
\* available.
NoLostWakeup ==
  [][\A l \in Lessee :
       ~Tick /\ lpc'[l] = "waiting" /\ available' # {}
         => lpc[l] = "waiting" /\ available # {}]_vars

\* A lessee that has asked for a unit or was woken is answered, with a unit, a
\* channel to wait on or the end of its context: nobody who passes through the
\* gate, live changes with their early returns included, keeps it.
AskerAnswered ==
  \A l \in Lessee : lpc[l] = "ready" ~> lpc[l] # "ready"

\* What AcquireResourceCapacityLease announces ("waits for one available unit"):
\* it does not go on waiting beside a unit that stays available.
WaitsOnlyForUnit ==
  \A l \in Lessee :
    (lpc[l] = "waiting" /\ available # {}) ~> (lpc[l] # "waiting" \/ available = {})
=============================================================================
