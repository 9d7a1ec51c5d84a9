----------------------- MODULE DispatchAttemptProofs -----------------------
(***************************************************************************)
(* Proofs about DispatchAttempt for any dispatches, callers and answers,   *)
(* any lineage and any capacity.                                           *)
(***************************************************************************)
EXTENDS DispatchAttempt, FiniteSetTheorems, TLAPS

Busy == {"executing", "answering"}

\* Where the publisher, the attempt and the intent of d are at the same time.
Placed(d) ==
  /\ offer[d] # "none" => status[d] \in {"PUBLISHING", "RETIRED"}
  /\ attempt[d] = "preparing" <=> offer[d] = "preparing"
  /\ attempt[d] \in Busy => /\ offer[d] \in {"none", "offered"}
                            /\ status[d] \in {"PUBLISHING", "PUBLISHED", "RETIRED"}
  /\ attempt[d] \in {"answering", "done"} => d \in terminal
  /\ attempt[d] = "done" => status[d] = "RETIRED"
  /\ d \in gone => attempt[d] = "executing"
  /\ attempt[d] = "none" /\ d \in terminal =>
       d \in unprepared \/ status[d] = "RETIRED" \/ offer[d] = "accepting"
  /\ offer[d] = "offered" \/ status[d] = "PUBLISHED" =>
       status[d] = "RETIRED" \/ attempt[d] \in Busy \/ d \in unprepared

PlaceInv == \A d \in Dispatch : Placed(d)

\* A dispatch has an acceptance of its own exactly while its callback is made;
\* it speaks for the dispatch, and only it materializes.
CallbackInv == \A d \in Dispatch :
  /\ acceptor[d] # "idle" <=> attempt[d] = "answering" \/ offer[d] = "accepting"
  /\ acceptor[d] # "idle" => claim[d].dispatch = d /\ claim[d].work = First
  /\ shared[d] = "materializing" <=> acceptor[d] = "materializing"

\* The result of a dispatch is the shared one, from the first contender that
\* retires it; that contender alone routes it.
ResultInv ==
  /\ \A d \in Dispatch :
       /\ result[d] # None <=> status[d] = "RETIRED"
       /\ result[d] # None => result[d].work \in Lineage /\ result[d].outcome = shared[d]
  /\ \A a \in Acceptor : acceptor[a] \in {"retiring", "routing"} =>
       shared[claim[a].dispatch] = claim[a].outcome
  /\ \A a \in Acceptor : acceptor[a] = "routing" =>
       /\ result[claim[a].dispatch] = Submitted(a)
       /\ routed[claim[a].dispatch] = << >>
  /\ \A a, b \in Acceptor : acceptor[a] = "routing" /\ acceptor[b] = "routing" /\ a # b =>
       claim[a].dispatch # claim[b].dispatch
  /\ RoutedOnce

\* What a stop that has had no error has reached.
StopInv ==
  /\ ctl # "idle" => sealed
  /\ ctl \in {"closing", "canceling", "stopping", "joining", "stopped"} /\ ~stopErr =>
       \A d \in Dispatch : attempt[d] # "preparing"
  /\ ctl \in {"canceling", "stopping", "joining", "stopped"} /\ ~stopErr => mode = "STOPPED"
  /\ ctl = "stopped" => ~stopErr /\ \A d \in Dispatch : attempt[d] \in {"none", "done"}

Inv == TypeOK /\ IsFiniteSet(Active) /\ PlaceInv /\ CallbackInv /\ ResultInv /\ StopInv
         /\ JoinIsQuiet

-----------------------------------------------------------------------------
(* Types.                                                                  *)

\* The types but for the capacity, which is about the set of active attempts.
Shape ==
  /\ mode \in {"OPEN", "STOPPED"}
  /\ status \in [Dispatch -> Status]
  /\ result \in [Dispatch -> Terminal \cup {None}]
  /\ offer \in [Dispatch -> Offer]
  /\ sealed \in BOOLEAN
  /\ attempt \in [Dispatch -> AttemptPC]
  /\ terminal \in SUBSET Dispatch
  /\ canceled \in SUBSET Dispatch
  /\ gone \in SUBSET canceled
  /\ unprepared \in SUBSET terminal

ClaimShape ==
  /\ acceptor \in [Acceptor -> AcceptorPC]
  /\ claim \in [Acceptor -> Claim \cup {None}]
  /\ \A a \in Acceptor : claim[a] = None <=> acceptor[a] = "idle"
  /\ shared \in [Dispatch -> Outcome \cup {"open", "materializing"}]
  /\ routed \in [Dispatch -> Seq(Outcome)]
  /\ asyncErr \in BOOLEAN

StopShape == ctl \in StopPC /\ stopErr \in BOOLEAN /\ expired \in BOOLEAN

LEMMA TypeParts ==
  TypeOK <=> Shape /\ ClaimShape /\ StopShape /\ Cardinality(Active) <= Capacity
  BY DEF TypeOK, Shape, ClaimShape, StopShape

\* An acceptance under way has a claim.
LEMMA ClaimFacts ==
  ASSUME ClaimShape, NEW a \in Acceptor, acceptor[a] # "idle"
  PROVE  claim[a] \in Claim /\ claim[a] # None /\ claim[a].dispatch \in Dispatch
  BY DEF ClaimShape, Claim

\* The answer of a contender is a result, and a claim with it is none.
LEMMA SubmittedType ==
  ASSUME ClaimShape, NEW a \in Acceptor, acceptor[a] # "idle"
  PROVE  Submitted(a) \in Terminal /\ Submitted(a) # None
<1>1. claim[a] \in Claim
  BY ClaimFacts
<1> QED BY <1>1, NoneAssumption DEF Submitted, Terminal, Claim

LEMMA InitInv == Init => Inv
<1> SUFFICES ASSUME Init PROVE Inv
  OBVIOUS
<1>1. Active = {}
  BY DEF Init, Active
<1>2. IsFiniteSet(Active) /\ Cardinality(Active) <= Capacity
  BY <1>1, FS_EmptySet, CapacityAssumption
<1>3. Shape
  BY DEF Init, Shape, Status, Offer, AttemptPC
<1>4. ClaimShape
  <2>1. << >> \in Seq(Outcome)
    OBVIOUS
  <2>2. routed \in [Dispatch -> Seq(Outcome)]
    BY <2>1 DEF Init
  <2>3. acceptor \in [Acceptor -> AcceptorPC] /\ claim \in [Acceptor -> Claim \cup {None}]
    BY DEF Init, AcceptorPC
  <2> QED BY <2>2, <2>3 DEF Init, ClaimShape
<1>5. StopShape
  BY DEF Init, StopShape, StopPC
<1>6. PlaceInv
  BY DEF Init, PlaceInv, Placed, Busy
<1>7. CallbackInv
  BY DEF Init, CallbackInv, Acceptor
<1>8. ResultInv
  BY DEF Init, ResultInv, RoutedOnce
<1>9. StopInv /\ JoinIsQuiet
  BY DEF Init, StopInv, JoinIsQuiet
<1> QED BY <1>2, <1>3, <1>4, <1>5, <1>6, <1>7, <1>8, <1>9, TypeParts DEF Inv

\* A claim an attempt's callback delivers is well formed.
LEMMA DeliverShape ==
  ASSUME ClaimShape, NEW d \in Dispatch, NEW o \in Outcome, Deliver(d, o),
         UNCHANGED <<shared, routed, asyncErr>>
  PROVE  ClaimShape'
<1>1. [dispatch |-> d, work |-> First, outcome |-> o] \in Claim
  BY LineageAssumption DEF Claim
<1>2. [dispatch |-> d, work |-> First, outcome |-> o] # None
  BY <1>1, NoneAssumption
<1> QED BY <1>1, <1>2 DEF ClaimShape, Deliver, Acceptor, AcceptorPC

\* An acceptance that ends leaves its claim behind.
LEMMA AnsweredShape ==
  ASSUME Shape, ClaimShape, NEW a \in Acceptor, Answered(a), UNCHANGED <<shared, mode, status,
         result, sealed, terminal, canceled, gone, unprepared>>,
         routed' \in [Dispatch -> Seq(Outcome)], asyncErr' \in BOOLEAN
  PROVE  Shape' /\ ClaimShape'
<1>1. ClaimShape'
  BY DEF ClaimShape, Answered, AcceptorPC
<1>2. offer' \in [Dispatch -> Offer] /\ attempt' \in [Dispatch -> AttemptPC]
  BY DEF Shape, Answered, Offer, AttemptPC
<1> QED BY <1>1, <1>2 DEF Shape

LEMMA OfferType ==
  ASSUME Shape, ClaimShape, PlaceInv, NEW d \in Dispatch, OfferStep(d)
  PROVE  Shape' /\ ClaimShape'
<1>1. CASE StartFails(d) \/ StartAgain(d) \/ EndOffer(d)
  BY <1>1 DEF StartFails, StartAgain, EndOffer, Shape, ClaimShape, Offer, Status, Acceptor,
              intent, attempts, accepts
<1>0. offer[d] = "preparing" => d \notin gone
  BY DEF PlaceInv, Placed
<1>2. CASE Admit(d) \/ Prepared(d) \/ PrepareFails(d)
  <2>1. ClaimShape'
    BY <1>2 DEF Admit, Prepared, PrepareFails, ClaimShape, accepts
  <2>2. CASE Admit(d)
    BY <2>1, <2>2 DEF Admit, Shape, Offer, AttemptPC, intent
  <2>3. CASE Prepared(d)
    BY <2>1, <2>3 DEF Prepared, Shape, Offer, AttemptPC, intent
  <2>4. CASE PrepareFails(d)
    BY <1>0, <2>1, <2>4 DEF PrepareFails, Shape, Offer, AttemptPC, intent
  <2> QED BY <1>2, <2>2, <2>3, <2>4
<1>3. ASSUME NEW o \in {"COMPLETED", "FAILED"}, AnswerInline(d, o)
      PROVE  Shape' /\ ClaimShape'
  <2>1. ClaimShape'
    BY <1>3, DeliverShape DEF AnswerInline, Outcome
  <2> QED BY <1>3, <2>1 DEF AnswerInline, Shape, Offer, intent, attempts
<1>4. CASE PrepareRefused(d)
  <2>1. ClaimShape'
    BY <1>4, DeliverShape DEF PrepareRefused, Outcome
  <2> QED BY <1>0, <1>4, <2>1 DEF PrepareRefused, Shape, Offer, AttemptPC, intent
<1> QED BY <1>1, <1>2, <1>3, <1>4 DEF OfferStep

LEMMA AttemptType ==
  ASSUME Shape, ClaimShape, NEW d \in Dispatch,
         Accept(d) \/ BeginOffer(d) \/ Cancel(d) \/ ProcessGone(d) \/ \E o \in Outcome : Finish(d, o)
  PROVE  Shape' /\ ClaimShape'
<1>1. CASE Accept(d) \/ BeginOffer(d) \/ Cancel(d) \/ ProcessGone(d)
  <2>1. ClaimShape'
    BY <1>1 DEF Accept, BeginOffer, Cancel, ProcessGone, ClaimShape, accepts
  <2>2. CASE Accept(d) \/ BeginOffer(d)
    BY <2>1, <2>2 DEF Accept, BeginOffer, Shape, Status, Offer, attempts
  <2>3. CASE Cancel(d) \/ ProcessGone(d)
    BY <2>1, <2>3 DEF Cancel, ProcessGone, Shape, intent, Active
  <2> QED BY <1>1, <2>2, <2>3
<1>2. ASSUME NEW o \in Outcome, Finish(d, o) PROVE Shape' /\ ClaimShape'
  <2>1. ClaimShape'
    BY <1>2, DeliverShape DEF Finish
  <2> QED BY <1>2, <2>1 DEF Finish, Shape, AttemptPC, intent
<1> QED BY <1>1, <1>2

LEMMA AcceptType ==
  ASSUME Shape, ClaimShape, CallbackInv,
         \/ \E d \in Dispatch : WorkerStep(d)
         \/ \E c \in Caller, d \in Dispatch, r \in Answer : CallAccept(c, d, r)
         \/ \E c \in Caller : CallerStep(c)
         \/ \E a \in Acceptor : AcceptStep(a)
  PROVE  Shape' /\ ClaimShape'
<1>0. /\ \A d \in Dispatch : d \in Acceptor
      /\ \A c \in Caller : c \in Acceptor
  BY DEF Acceptor
<1>1. ASSUME NEW d \in Dispatch, Look(d) PROVE Shape' /\ ClaimShape'
  <2>1. CASE result[d] # None
    BY <1>0, <1>1, <2>1, AnsweredShape DEF Look, ClaimShape, intent
  <2>2. CASE result[d] = None
    BY <1>0, <1>1, <2>2 DEF Look, Shape, ClaimShape, AcceptorPC, intent
  <2> QED BY <2>1, <2>2
<1>2. ASSUME NEW a \in Acceptor, acceptor[a] # "idle", TakeShared(a),
             shared[claim[a].dispatch] \in Outcome, UNCHANGED <<shared, routed, asyncErr>>
      PROVE  ClaimShape'
  <2>1. claim[a] \in Claim
    BY <1>2, ClaimFacts
  <2>2. [claim[a] EXCEPT !.outcome = shared[claim[a].dispatch]] \in Claim
    BY <1>2, <2>1 DEF Claim
  <2>3. claim' = [claim EXCEPT ![a] = [claim[a] EXCEPT !.outcome = shared[claim[a].dispatch]]]
    BY <1>2 DEF TakeShared, ClaimShape
  <2>4. \A x \in Claim : x # None
    BY NoneAssumption
  <2> QED BY <1>2, <2>2, <2>3, <2>4 DEF ClaimShape, TakeShared, AcceptorPC
<1>3. ASSUME NEW d \in Dispatch, ClaimWorker(d) PROVE Shape' /\ ClaimShape'
  <2>1. Shape'
    BY <1>3 DEF ClaimWorker, Shape, intent, attempts
  <2>2. CASE shared[d] = "open"
    BY <1>0, <1>3, <2>1, <2>2 DEF ClaimWorker, ClaimShape, AcceptorPC
  <2>3. CASE shared[d] # "open"
    <3>1. acceptor[d] = "claiming" /\ TakeShared(d) /\ UNCHANGED <<shared, routed, asyncErr>>
      BY <1>3, <2>3 DEF ClaimWorker
    <3>2. claim[d].dispatch = d /\ shared[d] \in Outcome
      BY <2>3, <3>1 DEF CallbackInv, ClaimShape
    <3> QED BY <1>0, <1>2, <2>1, <3>1, <3>2
  <2> QED BY <2>2, <2>3
<1>4. ASSUME NEW d \in Dispatch, NEW o \in Outcome, Materialize(d, o) PROVE Shape' /\ ClaimShape'
  <2>1. claim[d] \in Claim
    BY <1>0, <1>4, ClaimFacts DEF Materialize
  <2>2. [claim[d] EXCEPT !.outcome = o] \in Claim
    BY <2>1 DEF Claim
  <2>3. claim' = [claim EXCEPT ![d] = [claim[d] EXCEPT !.outcome = o]]
    BY <1>0, <1>4 DEF Materialize, ClaimShape
  <2>4. \A x \in Claim : x # None
    BY NoneAssumption
  <2>5. ClaimShape'
    BY <1>0, <1>4, <2>2, <2>3, <2>4 DEF ClaimShape, Materialize, AcceptorPC
  <2> QED BY <1>4, <2>5 DEF Materialize, Shape, intent, attempts
<1>5. ASSUME NEW c \in Caller, NEW d \in Dispatch, NEW r \in Answer, CallAccept(c, d, r)
      PROVE  Shape' /\ ClaimShape'
  <2>1. r \in Terminal
    BY AnswerAssumption
  <2>2. [dispatch |-> d, work |-> r.work, outcome |-> r.outcome] \in Claim
    BY <2>1 DEF Terminal, Claim
  <2>3. \A x \in Claim : x # None
    BY NoneAssumption
  <2>4. ClaimShape'
    BY <1>0, <1>5, <2>2, <2>3 DEF CallAccept, ClaimShape, AcceptorPC
  <2> QED BY <1>5, <2>4 DEF CallAccept, Shape, intent, attempts
<1>6. ASSUME NEW c \in Caller, ClaimRoot(c) PROVE Shape' /\ ClaimShape'
  <2>1. Shape'
    BY <1>6 DEF ClaimRoot, Shape, intent, attempts
  <2>2. acceptor[c] = "claiming" /\ claim[c] \in Claim /\ claim[c].dispatch \in Dispatch
        /\ UNCHANGED <<routed, asyncErr>>
    BY <1>0, <1>6, ClaimFacts DEF ClaimRoot
  <2>3. CASE shared[claim[c].dispatch] = "open"
    BY <1>0, <1>6, <2>1, <2>2, <2>3 DEF ClaimRoot, ClaimShape, AcceptorPC, Claim
  <2>4. CASE shared[claim[c].dispatch] = "materializing"
    BY <1>0, <1>6, <2>1, <2>2, <2>4 DEF ClaimRoot, ClaimShape, AcceptorPC
  <2>5. CASE shared[claim[c].dispatch] \notin {"open", "materializing"}
    <3>1. TakeShared(c) /\ shared' = shared
      BY <1>6, <2>5 DEF ClaimRoot
    <3>2. shared[claim[c].dispatch] \in Outcome
      BY <2>2, <2>5 DEF ClaimShape
    <3> QED BY <1>0, <1>2, <2>1, <2>2, <3>1, <3>2
  <2> QED BY <2>3, <2>4, <2>5
<1>7. ASSUME NEW c \in Caller, Ready(c) PROVE Shape' /\ ClaimShape'
  <2>1. ClaimShape'
    BY <1>0, <1>2, <1>7 DEF Ready
  <2> QED BY <1>7, <2>1 DEF Ready, Shape, intent, attempts
<1>8. ASSUME NEW a \in Acceptor, Retire(a) PROVE Shape' /\ ClaimShape'
  <2>1. Submitted(a) \in Terminal
    BY <1>8, SubmittedType DEF Retire
  <2>2. Shape'
    BY <1>8, <2>1 DEF Retire, Shape, Status, attempts
  <2> QED BY <1>8, <2>2 DEF Retire, ClaimShape, AcceptorPC
<1>9. ASSUME NEW a \in Acceptor, Refuse(a) PROVE Shape' /\ ClaimShape'
  BY <1>9, AnsweredShape DEF Refuse, ClaimShape, intent
<1>10. ASSUME NEW a \in Acceptor, Route(a) PROVE Shape' /\ ClaimShape'
  <2>1. claim[a] \in Claim
    BY <1>10, ClaimFacts DEF Route
  <2>2. \A q \in Seq(Outcome) : Append(q, claim[a].outcome) \in Seq(Outcome)
    BY <2>1 DEF Claim
  <2>3. routed' \in [Dispatch -> Seq(Outcome)]
    BY <1>10, <2>2 DEF Route, ClaimShape
  <2> QED BY <1>10, <2>3, AnsweredShape DEF Route, ClaimShape, intent
<1> QED BY <1>1, <1>3, <1>4, <1>5, <1>6, <1>7, <1>8, <1>9, <1>10
      DEF WorkerStep, CallerStep, AcceptStep

LEMMA StopType ==
  ASSUME Shape, ClaimShape, StopShape, Seal \/ StopStep \/ StopExpires
  PROVE  Shape' /\ ClaimShape' /\ StopShape'
<1>1. ClaimShape'
  BY DEF Seal, StopStep, StopExpires, OpeningsJoined, StopOutbox, CancelPublished, StopAttempts,
         AttemptsJoined, StopGivesUp, GiveUp, accepts, ClaimShape
<1>2. StopShape'
  BY DEF Seal, StopStep, StopExpires, OpeningsJoined, StopOutbox, CancelPublished, StopAttempts,
         AttemptsJoined, StopGivesUp, GiveUp, StopAt, StopShape, StopPC
<1>3. Shape'
  <2>1. CASE Seal \/ \E ok \in BOOLEAN : StopOutbox(ok)
    BY <2>1 DEF Seal, StopOutbox, Shape, attempts, intent
  <2>2. CASE CancelPublished \/ StopAttempts
    BY <2>2 DEF CancelPublished, StopAttempts, Shape, Active, intent
  <2>3. CASE OpeningsJoined \/ AttemptsJoined \/ StopGivesUp \/ StopExpires
    BY <2>3 DEF OpeningsJoined, AttemptsJoined, StopGivesUp, GiveUp, StopExpires, Shape, attempts, intent
  <2> QED BY <2>1, <2>2, <2>3 DEF StopStep
<1> QED BY <1>1, <1>2, <1>3

\* The stop is moved on by its own steps only.
LEMMA StopElsewhere ==
  ASSUME [Next]_vars, ~(Seal \/ StopStep \/ StopExpires)
  PROVE  UNCHANGED <<mode, sealed, ctl, stopErr, expired>>
  BY DEF Next, vars, intent, attempts, accepts, stop, Accept, BeginOffer, Cancel, ProcessGone,
         Finish, OfferStep, StartFails, StartAgain, Admit, AnswerInline, Prepared, PrepareFails,
         PrepareRefused, EndOffer, WorkerStep, Look, ClaimWorker, Materialize, CallAccept,
         CallerStep, ClaimRoot, Ready, AcceptStep, Retire, Refuse, Route

LEMMA NextShape ==
  ASSUME Inv, [Next]_vars
  PROVE  Shape' /\ ClaimShape' /\ StopShape'
<1>0. Shape /\ ClaimShape /\ StopShape /\ PlaceInv /\ CallbackInv
  BY TypeParts DEF Inv
<1>1. CASE Seal \/ StopStep \/ StopExpires
  BY <1>0, <1>1, StopType
<1>2. CASE ~(Seal \/ StopStep \/ StopExpires)
  <2>1. StopShape'
    BY <1>0, <1>2, StopElsewhere DEF StopShape
  <2>2. CASE UNCHANGED vars
    BY <1>0, <2>1, <2>2 DEF vars, intent, attempts, accepts, Shape, ClaimShape
  <2>3. CASE \E d \in Dispatch : OfferStep(d)
    BY <1>0, <2>1, <2>3, OfferType
  <2>4. CASE \E d \in Dispatch : \/ Accept(d) \/ BeginOffer(d) \/ Cancel(d) \/ ProcessGone(d)
                                 \/ \E o \in Outcome : Finish(d, o)
    BY <1>0, <2>1, <2>4, AttemptType
  <2>5. CASE \/ \E d \in Dispatch : WorkerStep(d)
             \/ \E c \in Caller, d \in Dispatch, r \in Answer : CallAccept(c, d, r)
             \/ \E c \in Caller : CallerStep(c)
             \/ \E a \in Acceptor : AcceptStep(a)
    BY <1>0, <2>1, <2>5, AcceptType
  <2> QED BY <1>2, <2>2, <2>3, <2>4, <2>5 DEF Next
<1> QED BY <1>1, <1>2

\* Admission looks at the capacity; nothing else makes an attempt active.
LEMMA NextCapacity ==
  ASSUME Inv, [Next]_vars
  PROVE  IsFiniteSet(Active') /\ Cardinality(Active') <= Capacity
<1>0. Shape /\ IsFiniteSet(Active) /\ Cardinality(Active) <= Capacity /\ PlaceInv
  BY TypeParts DEF Inv
<1>1. ASSUME Active' \subseteq Active
      PROVE  IsFiniteSet(Active') /\ Cardinality(Active') <= Capacity
  <2>1. IsFiniteSet(Active') /\ Cardinality(Active') <= Cardinality(Active)
    BY <1>0, <1>1, FS_Subset
  <2>2. Cardinality(Active') \in Nat /\ Cardinality(Active) \in Nat
    BY <1>0, <2>1, FS_CardinalityType
  <2> QED BY <1>0, <2>1, <2>2, CapacityAssumption
<1>2. ASSUME NEW d \in Dispatch, Admit(d)
      PROVE  IsFiniteSet(Active') /\ Cardinality(Active') <= Capacity
  <2>1. Active' = Active \cup {d} /\ d \notin Active /\ Cardinality(Active) < Capacity
    BY <1>0, <1>2 DEF Admit, Active, Shape
  <2>2. IsFiniteSet(Active') /\ Cardinality(Active') = Cardinality(Active) + 1
    BY <1>0, <2>1, FS_AddElement
  <2>3. Cardinality(Active) \in Nat
    BY <1>0, FS_CardinalityType
  <2> QED BY <2>1, <2>2, <2>3, CapacityAssumption
<1>3. ASSUME NEW d \in Dispatch,
             Prepared(d) \/ PrepareFails(d) \/ PrepareRefused(d) \/ \E o \in Outcome : Finish(d, o)
      PROVE  Active' \subseteq Active
  BY <1>0, <1>3 DEF Prepared, PrepareFails, PrepareRefused, Finish, Active, Shape, PlaceInv, Placed
<1>4. ASSUME NEW a \in Acceptor, Answered(a) PROVE Active' \subseteq Active
  BY <1>0, <1>4 DEF Answered, Active, Shape
<1>5. CASE attempt' = attempt
  BY <1>1, <1>5 DEF Active
<1>6. \/ attempt' = attempt
      \/ \E a \in Acceptor : Answered(a)
      \/ \E d \in Dispatch : \/ Admit(d) \/ Prepared(d) \/ PrepareFails(d) \/ PrepareRefused(d)
                             \/ \E o \in Outcome : Finish(d, o)
  BY DEF Next, vars, intent, attempts, accepts, Accept, BeginOffer, Cancel, ProcessGone,
         OfferStep, StartFails, StartAgain, AnswerInline, EndOffer, WorkerStep, Look,
         ClaimWorker, Materialize, CallAccept, CallerStep, ClaimRoot, Ready, AcceptStep,
         Retire, Refuse, Route, Seal, StopStep, OpeningsJoined, StopOutbox, CancelPublished,
         StopAttempts, AttemptsJoined, StopGivesUp, GiveUp, StopExpires, Acceptor
<1> QED BY <1>1, <1>2, <1>3, <1>4, <1>5, <1>6

-----------------------------------------------------------------------------
(* Publisher, attempt and intent.                                          *)

\* The callback of a dispatch ends only when the dispatch has its result.
LEMMA AnsweredRetired ==
  ASSUME Inv, NEW d \in Dispatch,
         \/ acceptor[d] = "looking" /\ result[d] # None
         \/ acceptor[d] = "retiring" /\ ~Retires(d)
         \/ acceptor[d] = "routing"
  PROVE  status[d] = "RETIRED"
<1>0. d \in Acceptor
  BY DEF Acceptor
<1>1. claim[d].dispatch = d /\ claim[d].work = First
  BY <1>0 DEF Inv, CallbackInv
<1>2. attempt[d] = "answering" \/ offer[d] = "accepting"
  BY DEF Inv, CallbackInv
<1>3. status[d] \in {"PUBLISHING", "PUBLISHED", "RETIRED"}
  BY <1>2 DEF Inv, PlaceInv, Placed, Busy
<1>4. CASE acceptor[d] = "looking" /\ result[d] # None
  BY <1>4 DEF Inv, ResultInv
<1>5. CASE acceptor[d] = "retiring" /\ ~Retires(d)
  BY <1>1, <1>3, <1>5, LineageAssumption DEF Retires, Inv, ResultInv
<1>6. CASE acceptor[d] = "routing"
  <2>1. result[d] = Submitted(d)
    BY <1>0, <1>1, <1>6 DEF Inv, ResultInv
  <2>2. Submitted(d) # None
    BY <1>0, <1>6, SubmittedType, TypeParts DEF Inv
  <2> QED BY <2>1, <2>2 DEF Inv, ResultInv
<1> QED BY <1>4, <1>5, <1>6

LEMMA AnsweredPlace ==
  ASSUME Inv, NEW a \in Acceptor, Answered(a), a \in Dispatch => status[a] = "RETIRED",
         UNCHANGED <<status, terminal, gone, unprepared>>
  PROVE  PlaceInv'
<1> SUFFICES ASSUME NEW d \in Dispatch PROVE Placed(d)'
  BY DEF PlaceInv
<1>1. Placed(d)
  BY DEF Inv, PlaceInv
<1>2. CASE d = a
  <2>1. status'[d] = "RETIRED"
    BY <1>2
  <2>2. /\ attempt'[d] = IF attempt[d] = "answering" THEN "done" ELSE attempt[d]
        /\ offer'[d] = IF offer[d] = "accepting" THEN "offered" ELSE offer[d]
    BY <1>2 DEF Answered
  <2> QED BY <1>1, <2>1, <2>2 DEF Placed, Busy
<1>3. CASE d # a
  <2>1. attempt'[d] = attempt[d] /\ offer'[d] = offer[d]
    BY <1>3 DEF Answered
  <2> QED BY <1>1, <2>1 DEF Placed
<1> QED BY <1>2, <1>3

\* The steps that do not end an acceptance move one dispatch.
LEMMA StepPlace ==
  ASSUME Inv, Shape', NEW d \in Dispatch,
         OfferStep(d) \/ Accept(d) \/ BeginOffer(d) \/ ProcessGone(d) \/ \E o \in Outcome : Finish(d, o)
  PROVE  PlaceInv'
<1>0. Shape /\ PlaceInv
  BY TypeParts DEF Inv
<1> SUFFICES ASSUME NEW e \in Dispatch PROVE Placed(e)'
  BY DEF PlaceInv
<1>1. Placed(e) /\ Placed(d)
  BY <1>0 DEF PlaceInv
<1>2. CASE Accept(d) \/ BeginOffer(d)
  BY <1>0, <1>1, <1>2 DEF Accept, BeginOffer, Placed, Shape, Busy, attempts
<1>3. CASE ProcessGone(d)
  BY <1>0, <1>1, <1>3 DEF ProcessGone, Placed, Shape, intent
<1>4. ASSUME NEW o \in Outcome, Finish(d, o) PROVE Placed(e)'
  BY <1>0, <1>1, <1>4 DEF Finish, Placed, Shape, Busy, intent
<1>5. CASE StartFails(d)
  BY <1>0, <1>1, <1>5 DEF StartFails, Placed, Shape, Busy, intent, attempts
<1>6. CASE StartAgain(d)
  BY <1>0, <1>1, <1>6 DEF StartAgain, Placed, Shape, Busy, Active, AttemptPC, intent, attempts
<1>7. CASE Admit(d)
  BY <1>0, <1>1, <1>7 DEF Admit, Placed, Shape, Busy, Active, intent
<1>8. ASSUME NEW o \in {"COMPLETED", "FAILED"}, AnswerInline(d, o) PROVE Placed(e)'
  BY <1>0, <1>1, <1>8 DEF AnswerInline, Placed, Shape, Busy, intent, attempts
<1>9. CASE Prepared(d)
  BY <1>0, <1>1, <1>9 DEF Prepared, Placed, Shape, Busy, intent
<1>10. CASE PrepareFails(d)
  BY <1>0, <1>1, <1>10 DEF PrepareFails, Placed, Shape, Busy, intent
<1>11. CASE PrepareRefused(d)
  BY <1>0, <1>1, <1>11 DEF PrepareRefused, Placed, Shape, Busy, intent
<1>12. CASE EndOffer(d)
  BY <1>0, <1>1, <1>12 DEF EndOffer, Placed, Shape, Busy, attempts
<1> QED BY <1>2, <1>3, <1>4, <1>5, <1>6, <1>7, <1>8, <1>9, <1>10, <1>11, <1>12 DEF OfferStep

LEMMA NextPlace ==
  ASSUME Inv, [Next]_vars
  PROVE  PlaceInv'
<1>0. PlaceInv /\ Shape /\ ClaimShape
  BY TypeParts DEF Inv
<1>1. CASE UNCHANGED <<status, offer, attempt, terminal, gone, unprepared>>
  BY <1>0, <1>1 DEF PlaceInv, Placed
<1>2. ASSUME NEW d \in Dispatch,
             \/ OfferStep(d) \/ Accept(d) \/ BeginOffer(d) \/ ProcessGone(d)
             \/ \E o \in Outcome : Finish(d, o)
      PROVE  PlaceInv'
  BY <1>2, StepPlace, NextShape
<1>3. ASSUME NEW d \in Dispatch, Look(d) PROVE PlaceInv'
  <2>1. CASE result[d] = None
    BY <1>1, <1>3, <2>1 DEF Look, intent
  <2>2. CASE result[d] # None
    <3>1. status[d] = "RETIRED" /\ d \in Acceptor
      BY <1>3, <2>2, AnsweredRetired DEF Look, Acceptor
    <3> QED BY <1>3, <2>2, <3>1, AnsweredPlace DEF Look, intent
  <2> QED BY <2>1, <2>2
<1>4. ASSUME NEW a \in Acceptor, Refuse(a) \/ Route(a) PROVE PlaceInv'
  <2>1. a \in Dispatch => status[a] = "RETIRED"
    BY <1>4, AnsweredRetired DEF Refuse, Route
  <2> QED BY <1>4, <2>1, AnsweredPlace DEF Refuse, Route, intent
<1>5. ASSUME NEW a \in Acceptor, Retire(a) PROVE PlaceInv'
  <2>1. claim[a].dispatch \in Dispatch
    BY <1>0, <1>5, ClaimFacts DEF Retire
  <2>2. status' = [status EXCEPT ![claim[a].dispatch] = "RETIRED"]
        /\ UNCHANGED <<offer, attempt, terminal, gone, unprepared>>
    BY <1>5 DEF Retire, attempts
  <2>3. \A d \in Dispatch : status'[d] \in {status[d], "RETIRED"}
    BY <1>0, <2>1, <2>2 DEF Shape
  <2> QED BY <1>0, <2>2, <2>3 DEF PlaceInv, Placed, Busy
<1>6. ASSUME NEW d \in Dispatch,
             Cancel(d) \/ ClaimWorker(d) \/ \E o \in Outcome : Materialize(d, o)
      PROVE  UNCHANGED <<status, offer, attempt, terminal, gone, unprepared>>
  BY <1>6 DEF Cancel, ClaimWorker, Materialize, intent, attempts
<1>7. ASSUME NEW c \in Caller,
             CallerStep(c) \/ \E d \in Dispatch, r \in Answer : CallAccept(c, d, r)
      PROVE  UNCHANGED <<status, offer, attempt, terminal, gone, unprepared>>
  BY <1>7 DEF CallerStep, ClaimRoot, Ready, CallAccept, intent, attempts
<1>8. CASE Seal \/ StopStep \/ StopExpires \/ UNCHANGED vars
  <2>1. UNCHANGED <<status, offer, attempt, terminal, gone, unprepared>>
    BY <1>8 DEF Seal, StopStep, OpeningsJoined, StopOutbox, CancelPublished, StopAttempts,
                AttemptsJoined, StopGivesUp, GiveUp, StopExpires, intent, attempts, vars
  <2> QED BY <1>1, <2>1
<1> QED BY <1>1, <1>2, <1>3, <1>4, <1>5, <1>6, <1>7, <1>8 DEF Next, WorkerStep, AcceptStep

-----------------------------------------------------------------------------
(* Callbacks.                                                              *)

Called(d) ==
  /\ acceptor[d] # "idle" <=> attempt[d] = "answering" \/ offer[d] = "accepting"
  /\ acceptor[d] # "idle" => claim[d].dispatch = d /\ claim[d].work = First
  /\ shared[d] = "materializing" <=> acceptor[d] = "materializing"

LEMMA CallbackParts == CallbackInv <=> \A d \in Dispatch : Called(d)
  BY DEF CallbackInv, Called

LEMMA AnsweredCallback ==
  ASSUME Inv, NEW a \in Acceptor, Answered(a), acceptor[a] # "materializing",
         UNCHANGED shared, NEW d \in Dispatch
  PROVE  Called(d)'
<1>0. Called(d) /\ d \in Acceptor /\ ClaimShape /\ Shape
  BY CallbackParts, TypeParts DEF Inv, Acceptor
<1>1. CASE d = a
  BY <1>0, <1>1 DEF Answered, Called, ClaimShape
<1>2. CASE d # a
  BY <1>0, <1>2 DEF Answered, Called, ClaimShape
<1> QED BY <1>1, <1>2

\* A step of another acceptance, a step that leaves the phase of the callback alone.
LEMMA OthersCallback ==
  ASSUME Inv, NEW d \in Dispatch, acceptor'[d] = acceptor[d], claim'[d] = claim[d],
         (attempt[d] = "answering" \/ offer[d] = "accepting")'
            <=> (attempt[d] = "answering" \/ offer[d] = "accepting"),
         shared'[d] = "materializing" <=> shared[d] = "materializing"
  PROVE  Called(d)'
<1>1. Called(d)
  BY CallbackParts DEF Inv
<1> QED BY <1>1 DEF Called

LEMMA StartCallback ==
  ASSUME Inv, NEW d \in Dispatch, NEW e \in Dispatch,
         OfferStep(d) \/ Accept(d) \/ BeginOffer(d) \/ Cancel(d) \/ ProcessGone(d)
           \/ \E o \in Outcome : Finish(d, o)
  PROVE  Called(e)'
<1>0. /\ d \in Acceptor /\ e \in Acceptor /\ Shape /\ ClaimShape
      /\ Placed(d) /\ Called(d) /\ Called(e)
  BY CallbackParts, TypeParts DEF Inv, Acceptor, PlaceInv
<1>1. ASSUME NEW o \in Outcome, Deliver(d, o), UNCHANGED shared, acceptor[d] = "idle",
             attempt'[d] = "answering" \/ offer'[d] = "accepting",
             e # d => attempt'[e] = attempt[e] /\ offer'[e] = offer[e]
      PROVE  Called(e)'
  <2>1. CASE e = d
    <3>1. acceptor'[d] = "looking" /\ claim'[d] = [dispatch |-> d, work |-> First, outcome |-> o]
      BY <1>0, <1>1 DEF Deliver, ClaimShape
    <3> QED BY <1>0, <1>1, <2>1, <3>1 DEF Called
  <2>2. CASE e # d
    <3>1. acceptor'[e] = acceptor[e] /\ claim'[e] = claim[e]
      BY <1>0, <1>1, <2>2 DEF Deliver, ClaimShape
    <3> QED BY <1>1, <2>2, <3>1, OthersCallback
  <2> QED BY <2>1, <2>2
<1>2. CASE Accept(d) \/ BeginOffer(d) \/ Cancel(d) \/ ProcessGone(d)
  BY <1>0, <1>2 DEF Accept, BeginOffer, Cancel, ProcessGone, Called, Placed, Shape, attempts,
                    accepts
<1>3. ASSUME NEW o \in Outcome, Finish(d, o) PROVE Called(e)'
  <2>1. acceptor[d] = "idle"
    BY <1>0, <1>3 DEF Finish, Called, Placed, Busy
  <2>2. Deliver(d, o) /\ UNCHANGED <<shared, offer>> /\ attempt' = [attempt EXCEPT ![d] = "answering"]
    BY <1>3 DEF Finish
  <2> QED BY <1>0, <1>1, <2>1, <2>2 DEF Shape
<1>4. ASSUME NEW o \in {"COMPLETED", "FAILED"}, AnswerInline(d, o) PROVE Called(e)'
  <2>1. acceptor[d] = "idle"
    BY <1>0, <1>4 DEF AnswerInline, Called, Placed, Busy
  <2>2. Deliver(d, o) /\ UNCHANGED <<shared, attempt>> /\ offer' = [offer EXCEPT ![d] = "accepting"]
    BY <1>4 DEF AnswerInline, attempts
  <2> QED BY <1>0, <1>1, <2>1, <2>2 DEF Shape, Outcome
<1>5. CASE PrepareRefused(d)
  <2>1. acceptor[d] = "idle"
    BY <1>0, <1>5 DEF PrepareRefused, Called, Placed, Busy
  <2>2. /\ Deliver(d, "FAILED") /\ UNCHANGED shared
        /\ offer' = [offer EXCEPT ![d] = "accepting"] /\ attempt' = [attempt EXCEPT ![d] = "none"]
    BY <1>5 DEF PrepareRefused
  <2> QED BY <1>0, <1>1, <2>1, <2>2 DEF Shape, Outcome
<1>6. CASE StartFails(d) \/ StartAgain(d) \/ EndOffer(d)
  BY <1>0, <1>6 DEF StartFails, StartAgain, EndOffer, Called, Shape, attempts, accepts
<1>7. CASE Admit(d)
  BY <1>0, <1>7 DEF Admit, Called, Placed, Shape, Active, accepts
<1>8. CASE Prepared(d) \/ PrepareFails(d)
  BY <1>0, <1>8 DEF Prepared, PrepareFails, Called, Placed, Shape, accepts
<1> QED BY <1>2, <1>3, <1>4, <1>5, <1>6, <1>7, <1>8 DEF OfferStep

LEMMA NextCallback ==
  ASSUME Inv, [Next]_vars
  PROVE  CallbackInv'
<1> SUFFICES ASSUME NEW e \in Dispatch PROVE Called(e)'
  BY DEF CallbackInv, Called
<1>0. /\ Shape /\ ClaimShape /\ e \in Acceptor /\ Called(e)
      /\ \A c \in Caller : c \in Acceptor /\ c # e
  BY CallbackParts, TypeParts, CallerAssumption DEF Inv, Acceptor
<1>1. CASE UNCHANGED <<acceptor, claim, shared, attempt, offer>>
  BY <1>1, OthersCallback
<1>2. ASSUME NEW d \in Dispatch,
             \/ OfferStep(d) \/ Accept(d) \/ BeginOffer(d) \/ Cancel(d) \/ ProcessGone(d)
             \/ \E o \in Outcome : Finish(d, o)
      PROVE  Called(e)'
  BY <1>2, StartCallback
<1>3. ASSUME NEW d \in Dispatch, Look(d) PROVE Called(e)'
  <2>0. d \in Acceptor /\ Called(d)
    BY CallbackParts DEF Acceptor, Inv
  <2>1. CASE result[d] = None
    BY <1>0, <1>3, <2>0, <2>1 DEF Look, Called, ClaimShape
  <2>2. CASE result[d] # None
    BY <1>3, <2>0, <2>2, AnsweredCallback DEF Look
  <2> QED BY <2>1, <2>2
<1>4. ASSUME NEW d \in Dispatch, ClaimWorker(d) \/ \E o \in Outcome : Materialize(d, o)
      PROVE  Called(e)'
  <2>0. d \in Acceptor /\ Called(d) /\ claim[d] \in Claim
    <3>1. d \in Acceptor /\ Called(d) /\ acceptor[d] # "idle"
      BY <1>4, CallbackParts DEF Acceptor, Inv, ClaimWorker, Materialize
    <3> QED BY <1>0, <3>1, ClaimFacts
  <2>1. CASE d = e
    <3>1. attempt' = attempt /\ offer' = offer
      BY <1>4 DEF ClaimWorker, Materialize, attempts
    <3>2. claim'[d].dispatch = claim[d].dispatch /\ claim'[d].work = claim[d].work
      BY <1>0, <1>4, <2>0 DEF ClaimWorker, Materialize, TakeShared, ClaimShape, Claim
    <3>3. acceptor'[d] # "idle" /\ acceptor[d] # "idle"
      BY <1>0, <1>4, <2>0 DEF ClaimWorker, Materialize, TakeShared, ClaimShape
    <3>4. shared'[d] = "materializing" <=> acceptor'[d] = "materializing"
      BY <1>0, <1>4, <2>0 DEF ClaimWorker, Materialize, TakeShared, ClaimShape, Called, Outcome
    <3> QED BY <2>0, <2>1, <3>1, <3>2, <3>3, <3>4 DEF Called
  <2>2. CASE d # e
    <3>1. /\ acceptor'[e] = acceptor[e] /\ claim'[e] = claim[e] /\ shared'[e] = shared[e]
          /\ UNCHANGED <<attempt, offer>>
      BY <1>0, <1>4, <2>2 DEF ClaimWorker, Materialize, TakeShared, ClaimShape, attempts
    <3> QED BY <3>1, OthersCallback
  <2> QED BY <2>1, <2>2
<1>5. ASSUME NEW c \in Caller,
             CallerStep(c) \/ \E d \in Dispatch, r \in Answer : CallAccept(c, d, r)
      PROVE  Called(e)'
  <2>1. c \in Acceptor /\ c # e /\ UNCHANGED <<attempt, offer>>
    BY <1>0, <1>5 DEF CallerStep, ClaimRoot, Ready, CallAccept, attempts
  <2>2. acceptor'[e] = acceptor[e] /\ claim'[e] = claim[e]
    BY <1>0, <1>5, <2>1 DEF CallerStep, ClaimRoot, Ready, CallAccept, TakeShared, ClaimShape
  <2>3. shared'[e] = "materializing" <=> shared[e] = "materializing"
    <3>1. CASE ClaimRoot(c)
      <4>1. claim[c].outcome \in Outcome /\ claim[c].dispatch \in Dispatch
        <5>1. claim[c] \in Claim
          BY <1>0, <2>1, <3>1, ClaimFacts DEF ClaimRoot
        <5> QED BY <5>1 DEF Claim
      <4> QED BY <1>0, <3>1, <4>1 DEF ClaimRoot, ClaimShape, Outcome
    <3>2. CASE ~ClaimRoot(c)
      BY <1>5, <3>2 DEF CallerStep, Ready, CallAccept
    <3> QED BY <3>1, <3>2
  <2> QED BY <2>1, <2>2, <2>3, OthersCallback
<1>6. ASSUME NEW a \in Acceptor, Refuse(a) \/ Route(a) PROVE Called(e)'
  BY <1>6, AnsweredCallback DEF Refuse, Route
<1>7. ASSUME NEW a \in Acceptor, Retire(a) PROVE Called(e)'
  BY <1>0, <1>7 DEF Retire, Called, ClaimShape, attempts
<1>8. CASE Seal \/ StopStep \/ StopExpires \/ UNCHANGED vars
  <2>1. UNCHANGED <<acceptor, claim, shared, attempt, offer>>
    BY <1>8 DEF Seal, StopStep, OpeningsJoined, StopOutbox, CancelPublished, StopAttempts,
                AttemptsJoined, StopGivesUp, GiveUp, StopExpires, accepts, attempts, vars
  <2> QED BY <1>1, <2>1
<1> QED BY <1>2, <1>3, <1>4, <1>5, <1>6, <1>7, <1>8 DEF Next, WorkerStep, AcceptStep

-----------------------------------------------------------------------------
(* Results.                                                                *)

\* Steps after which nobody is closer to retiring a result.
LEMMA ResultStays ==
  ASSUME Inv, UNCHANGED <<result, shared, routed>>,
         \A d \in Dispatch : status'[d] = "RETIRED" <=> status[d] = "RETIRED",
         \A a \in Acceptor : acceptor'[a] \in {"retiring", "routing"} =>
           acceptor'[a] = acceptor[a] /\ claim'[a] = claim[a]
  PROVE  ResultInv'
<1>0. ResultInv /\ ClaimShape
  BY TypeParts DEF Inv
<1>1. \A a \in Acceptor : acceptor'[a] = "routing" => Submitted(a)' = Submitted(a)
  BY DEF Submitted
<1> QED BY <1>0, <1>1 DEF ResultInv, RoutedOnce

\* A contender takes the shared result x of d, or is the first to settle what it is.
Settles(d, x) ==
  /\ shared[d] = x \/ shared[d] \in {"open", "materializing"}
  /\ shared' = [shared EXCEPT ![d] = x]
  /\ UNCHANGED <<status, result, routed>>
  /\ \A a \in Acceptor : acceptor'[a] \in {"retiring", "routing"} =>
       \/ acceptor'[a] = acceptor[a] /\ claim'[a] = claim[a]
       \/ acceptor'[a] = "retiring" /\ claim'[a].dispatch = d /\ claim'[a].outcome = x

LEMMA SharedSettled ==
  ASSUME Inv, NEW d \in Dispatch, NEW x, Settles(d, x)
  PROVE  ResultInv'
<1> USE DEF Settles
<1>0. ResultInv /\ ClaimShape /\ Shape
  BY TypeParts DEF Inv
<1>1. ASSUME NEW a \in Acceptor, acceptor[a] \in {"retiring", "routing"}
      PROVE  claim[a].dispatch \in Dispatch /\ claim[a].outcome \in Outcome
  BY <1>0, <1>1, ClaimFacts DEF Claim
<1>2. ASSUME NEW e \in Dispatch, shared[e] \in Outcome PROVE shared'[e] = shared[e]
  BY <1>0, <1>2 DEF ClaimShape, Outcome
<1>3. \A e \in Dispatch : result'[e] # None => result'[e].outcome = shared'[e]
  <2> SUFFICES ASSUME NEW e \in Dispatch, result[e] # None PROVE result[e].outcome = shared'[e]
    OBVIOUS
  <2>1. result[e].outcome \in Outcome /\ result[e].outcome = shared[e]
    BY <1>0 DEF ResultInv, Shape, Terminal
  <2> QED BY <1>2, <2>1
<1>4. ASSUME NEW a \in Acceptor, acceptor'[a] \in {"retiring", "routing"}
      PROVE  shared'[claim'[a].dispatch] = claim'[a].outcome
  <2>1. CASE acceptor'[a] = acceptor[a] /\ claim'[a] = claim[a]
    BY <1>0, <1>1, <1>2, <1>4, <2>1 DEF ResultInv
  <2>2. CASE claim'[a].dispatch = d /\ claim'[a].outcome = x
    BY <1>0, <2>2 DEF ClaimShape
  <2> QED BY <1>4, <2>1, <2>2
<1>5. \A a \in Acceptor : acceptor'[a] = "routing" =>
         acceptor[a] = "routing" /\ claim'[a] = claim[a] /\ Submitted(a)' = Submitted(a)
  BY DEF Submitted
<1> QED BY <1>0, <1>3, <1>4, <1>5 DEF ResultInv, RoutedOnce

LEMMA RetireResult ==
  ASSUME Inv, NEW a \in Acceptor, Retire(a)
  PROVE  ResultInv'
<1> DEFINE d == claim[a].dispatch
<1>0. ResultInv /\ ClaimShape /\ Shape
  BY TypeParts DEF Inv
<1>1. d \in Dispatch /\ Submitted(a) \in Terminal /\ Submitted(a) # None
  BY <1>0, ClaimFacts, SubmittedType DEF Retire
<1>2. /\ claim[a].work \in Lineage /\ result[d] = None /\ status[d] # "RETIRED"
      /\ acceptor[a] = "retiring"
  BY DEF Retire, Retires
<1>3. /\ result' = [result EXCEPT ![d] = Submitted(a)]
      /\ status' = [status EXCEPT ![d] = "RETIRED"]
      /\ acceptor' = [acceptor EXCEPT ![a] = "routing"]
      /\ UNCHANGED <<claim, shared, routed>>
  BY DEF Retire
<1>4. Submitted(a).outcome = shared[d] /\ Submitted(a).work \in Lineage
  BY <1>0, <1>2 DEF ResultInv, Submitted
<1>5. routed[d] = << >>
  BY <1>0, <1>1, <1>2 DEF ResultInv, RoutedOnce
<1>6. \A b \in Acceptor : Submitted(b)' = Submitted(b)
  BY <1>3 DEF Submitted
<1>7. ASSUME NEW b \in Acceptor, acceptor[b] = "routing"
      PROVE  claim[b].dispatch # d /\ claim[b].dispatch \in Dispatch
  BY <1>0, <1>2, <1>7, ClaimFacts, SubmittedType DEF ResultInv
<1>8. \A b \in Acceptor : acceptor'[b] = IF b = a THEN "routing" ELSE acceptor[b]
  BY <1>0, <1>3 DEF ClaimShape
<1>9. \A e \in Dispatch : /\ result'[e] = IF e = d THEN Submitted(a) ELSE result[e]
                          /\ status'[e] = IF e = d THEN "RETIRED" ELSE status[e]
  BY <1>0, <1>3 DEF Shape
<1> HIDE DEF d
<1>10. \A e \in Dispatch :
         /\ result'[e] # None <=> status'[e] = "RETIRED"
         /\ result'[e] # None => result'[e].work \in Lineage /\ result'[e].outcome = shared'[e]
  BY <1>0, <1>1, <1>3, <1>4, <1>9 DEF ResultInv
<1>11. \A b \in Acceptor : acceptor'[b] \in {"retiring", "routing"} =>
         shared'[claim'[b].dispatch] = claim'[b].outcome
  BY <1>0, <1>2, <1>3, <1>8 DEF ResultInv
<1>12. \A b \in Acceptor : acceptor'[b] = "routing" =>
         /\ result'[claim'[b].dispatch] = Submitted(b)'
         /\ routed'[claim'[b].dispatch] = << >>
  <2> SUFFICES ASSUME NEW b \in Acceptor, acceptor'[b] = "routing"
               PROVE  /\ result'[claim[b].dispatch] = Submitted(b)
                      /\ routed[claim[b].dispatch] = << >>
    BY <1>3, <1>6
  <2>1. CASE b = a
    BY <1>1, <1>5, <1>9, <2>1 DEF d
  <2>2. CASE b # a
    BY <1>0, <1>7, <1>8, <1>9, <2>2 DEF ResultInv
  <2> QED BY <2>1, <2>2
<1>13. \A b, c \in Acceptor : acceptor'[b] = "routing" /\ acceptor'[c] = "routing" /\ b # c =>
         claim'[b].dispatch # claim'[c].dispatch
  BY <1>0, <1>3, <1>7, <1>8 DEF ResultInv, d
<1>14. RoutedOnce'
  BY <1>0, <1>3, <1>5, <1>9 DEF ResultInv, RoutedOnce
<1> QED BY <1>10, <1>11, <1>12, <1>13, <1>14 DEF ResultInv

LEMMA RouteResult ==
  ASSUME Inv, NEW a \in Acceptor, Route(a)
  PROVE  ResultInv'
<1> DEFINE d == claim[a].dispatch
<1>0. ResultInv /\ ClaimShape /\ Shape
  BY TypeParts DEF Inv
<1>1. /\ d \in Dispatch /\ acceptor[a] = "routing"
      /\ result[d] = Submitted(a) /\ routed[d] = << >> /\ Submitted(a) # None
  BY <1>0, ClaimFacts, SubmittedType DEF Route, ResultInv
<1>2. \A b \in Acceptor : /\ acceptor'[b] = IF b = a THEN "idle" ELSE acceptor[b]
                          /\ b # a => claim'[b] = claim[b] /\ Submitted(b)' = Submitted(b)
  BY <1>0 DEF Route, Answered, ClaimShape, Submitted
<1>3. UNCHANGED <<status, result, shared>>
  BY DEF Route, intent
<1>4. Append(<< >>, claim[a].outcome) = << claim[a].outcome >>
  OBVIOUS
<1>5. \A e \in Dispatch : routed'[e] = IF e = d THEN << claim[a].outcome >> ELSE routed[e]
  BY <1>0, <1>1, <1>4 DEF Route, ClaimShape
<1>6. Submitted(a).outcome = claim[a].outcome
  BY DEF Submitted
<1> HIDE DEF d
<1>7. RoutedOnce'
  BY <1>0, <1>1, <1>3, <1>5, <1>6 DEF ResultInv, RoutedOnce
<1>8. \A b \in Acceptor : acceptor'[b] = "routing" =>
        /\ result'[claim'[b].dispatch] = Submitted(b)'
        /\ routed'[claim'[b].dispatch] = << >>
  <2> SUFFICES ASSUME NEW b \in Acceptor, acceptor'[b] = "routing"
               PROVE  /\ result'[claim'[b].dispatch] = Submitted(b)'
                      /\ routed'[claim'[b].dispatch] = << >>
    OBVIOUS
  <2>1. b # a /\ acceptor[b] = "routing" /\ claim'[b] = claim[b] /\ Submitted(b)' = Submitted(b)
    BY <1>2
  <2>2. claim[b].dispatch # d /\ claim[b].dispatch \in Dispatch
    BY <1>0, <1>1, <2>1, ClaimFacts DEF ResultInv, d
  <2> QED BY <1>0, <1>3, <1>5, <2>1, <2>2 DEF ResultInv
<1>9. \A b \in Acceptor : acceptor'[b] \in {"retiring", "routing"} =>
        shared'[claim'[b].dispatch] = claim'[b].outcome
  BY <1>0, <1>2, <1>3 DEF ResultInv
<1>10. \A b, c \in Acceptor : acceptor'[b] = "routing" /\ acceptor'[c] = "routing" /\ b # c =>
         claim'[b].dispatch # claim'[c].dispatch
  BY <1>0, <1>2 DEF ResultInv
<1> QED BY <1>0, <1>3, <1>7, <1>8, <1>9, <1>10 DEF ResultInv

LEMMA AnsweredResult ==
  ASSUME Inv, NEW a \in Acceptor, Answered(a), UNCHANGED <<status, result, shared, routed>>
  PROVE  ResultInv'
<1>1. ClaimShape
  BY TypeParts DEF Inv
<1>2. \A b \in Acceptor : acceptor'[b] \in {"retiring", "routing"} =>
        acceptor'[b] = acceptor[b] /\ claim'[b] = claim[b]
  BY <1>1 DEF Answered, ClaimShape
<1> QED BY <1>2, ResultStays

\* A delivery, or any step that is not about acceptances, retires nothing.
LEMMA StartResult ==
  ASSUME Inv, NEW d \in Dispatch,
         OfferStep(d) \/ Accept(d) \/ BeginOffer(d) \/ Cancel(d) \/ ProcessGone(d)
           \/ \E o \in Outcome : Finish(d, o)
  PROVE  ResultInv'
<1>0. Shape /\ ClaimShape /\ d \in Acceptor
  BY TypeParts DEF Inv, Acceptor
<1>1. UNCHANGED <<result, shared, routed>>
  BY DEF OfferStep, StartFails, StartAgain, Admit, AnswerInline, Prepared, PrepareFails,
         PrepareRefused, EndOffer, Accept, BeginOffer, Cancel, ProcessGone, Finish, intent, accepts
<1>2. \A e \in Dispatch : status'[e] = "RETIRED" <=> status[e] = "RETIRED"
  <2>1. CASE Accept(d) \/ BeginOffer(d) \/ EndOffer(d)
    BY <1>0, <2>1 DEF Accept, BeginOffer, EndOffer, Shape
  <2>2. CASE ~(Accept(d) \/ BeginOffer(d) \/ EndOffer(d))
    BY <2>2 DEF OfferStep, StartFails, StartAgain, Admit, AnswerInline, Prepared, PrepareFails,
                PrepareRefused, Cancel, ProcessGone, Finish, intent
  <2> QED BY <2>1, <2>2
<1>3. (\E o : Deliver(d, o)) \/ UNCHANGED <<acceptor, claim>>
  BY DEF OfferStep, StartFails, StartAgain, Admit, AnswerInline, Prepared, PrepareFails,
         PrepareRefused, EndOffer, Accept, BeginOffer, Cancel, ProcessGone, Finish, accepts
<1>4. \A a \in Acceptor : acceptor'[a] \in {"retiring", "routing"} =>
        acceptor'[a] = acceptor[a] /\ claim'[a] = claim[a]
  BY <1>0, <1>3 DEF Deliver, ClaimShape
<1> QED BY <1>1, <1>2, <1>4, ResultStays

\* A contender that takes the shared result.
LEMMA TakenResult ==
  ASSUME Inv, NEW a \in Acceptor, acceptor[a] # "idle", TakeShared(a),
         UNCHANGED <<status, result, shared, routed>>
  PROVE  ResultInv'
<1> DEFINE d == claim[a].dispatch
<1>0. ClaimShape /\ claim[a] \in Claim /\ d \in Dispatch
  BY TypeParts, ClaimFacts DEF Inv
<1>1. shared' = [shared EXCEPT ![d] = shared[d]]
  BY <1>0 DEF ClaimShape
<1>2. claim'[a].dispatch = d /\ claim'[a].outcome = shared[d]
  BY <1>0 DEF TakeShared, ClaimShape, Claim
<1>3. \A b \in Acceptor : b # a => acceptor'[b] = acceptor[b] /\ claim'[b] = claim[b]
  BY <1>0 DEF TakeShared, ClaimShape
<1>4. acceptor'[a] = "retiring"
  BY <1>0 DEF TakeShared, ClaimShape
<1> HIDE DEF d
<1>5. Settles(d, shared[d])
  BY <1>1, <1>2, <1>3, <1>4 DEF Settles
<1> QED BY <1>0, <1>5, SharedSettled

LEMMA ContenderResult ==
  ASSUME Inv,
         \/ \E d \in Dispatch : ClaimWorker(d) \/ \E o \in Outcome : Materialize(d, o)
         \/ \E c \in Caller : CallerStep(c)
         \/ \E c \in Caller, d \in Dispatch, r \in Answer : CallAccept(c, d, r)
  PROVE  ResultInv'
<1>0. /\ ClaimShape /\ CallbackInv
      /\ \A d \in Dispatch : d \in Acceptor
      /\ \A c \in Caller : c \in Acceptor
  BY TypeParts DEF Inv, Acceptor
<1>1. ASSUME NEW d \in Dispatch, ClaimWorker(d) PROVE ResultInv'
  <2>0. acceptor[d] = "claiming" /\ UNCHANGED <<status, result, routed>>
    BY <1>1 DEF ClaimWorker, intent
  <2>1. CASE shared[d] = "open"
    <3>1. /\ shared' = [shared EXCEPT ![d] = "materializing"]
          /\ acceptor' = [acceptor EXCEPT ![d] = "materializing"] /\ claim' = claim
      BY <1>1, <2>1 DEF ClaimWorker
    <3>2. \A a \in Acceptor : acceptor'[a] \in {"retiring", "routing"} =>
            acceptor'[a] = acceptor[a] /\ claim'[a] = claim[a]
      BY <1>0, <3>1 DEF ClaimShape
    <3>3. Settles(d, "materializing")
      BY <2>0, <2>1, <3>1, <3>2 DEF Settles
    <3> QED BY <3>3, SharedSettled
  <2>2. CASE shared[d] # "open"
    BY <1>0, <1>1, <2>0, <2>2, TakenResult DEF ClaimWorker
  <2> QED BY <2>1, <2>2
<1>2. ASSUME NEW d \in Dispatch, NEW o \in Outcome, Materialize(d, o) PROVE ResultInv'
  <2>1. /\ shared[d] = "materializing" /\ claim[d].dispatch = d /\ claim[d] \in Claim
        /\ d \in Acceptor
    BY <1>0, <1>2, ClaimFacts DEF Materialize, CallbackInv
  <2>2. /\ shared' = [shared EXCEPT ![d] = o] /\ UNCHANGED <<status, result, routed>>
        /\ acceptor' = [acceptor EXCEPT ![d] = "retiring"]
        /\ claim' = [claim EXCEPT ![d].outcome = o]
    BY <1>2 DEF Materialize, intent
  <2>3. claim'[d].dispatch = d /\ claim'[d].outcome = o /\ acceptor'[d] = "retiring"
    BY <1>0, <2>1, <2>2 DEF ClaimShape, Claim
  <2>4. \A a \in Acceptor : a # d => acceptor'[a] = acceptor[a] /\ claim'[a] = claim[a]
    BY <1>0, <2>2 DEF ClaimShape
  <2>5. \A a \in Acceptor : acceptor'[a] \in {"retiring", "routing"} =>
          \/ acceptor'[a] = acceptor[a] /\ claim'[a] = claim[a]
          \/ acceptor'[a] = "retiring" /\ claim'[a].dispatch = d /\ claim'[a].outcome = o
    BY <2>3, <2>4
  <2>6. Settles(d, o)
    BY <2>1, <2>2, <2>5 DEF Settles
  <2> QED BY <2>6, SharedSettled
<1>3. ASSUME NEW c \in Caller, ClaimRoot(c) PROVE ResultInv'
  <2> DEFINE d == claim[c].dispatch
  <2>0. /\ acceptor[c] = "claiming" /\ UNCHANGED <<status, result, routed>>
        /\ d \in Dispatch /\ c \in Acceptor
    BY <1>0, <1>3, ClaimFacts DEF ClaimRoot, intent
  <2>1. CASE shared[d] = "open"
    <3>1. /\ shared' = [shared EXCEPT ![d] = claim[c].outcome]
          /\ acceptor' = [acceptor EXCEPT ![c] = "retiring"] /\ claim' = claim
      BY <1>3, <2>1 DEF ClaimRoot
    <3>2. \A a \in Acceptor : acceptor'[a] \in {"retiring", "routing"} =>
            \/ acceptor'[a] = acceptor[a] /\ claim'[a] = claim[a]
            \/ acceptor'[a] = "retiring" /\ claim'[a].dispatch = d
                 /\ claim'[a].outcome = claim[c].outcome
      BY <1>0, <3>1 DEF ClaimShape
    <3> HIDE DEF d
    <3>3. Settles(d, claim[c].outcome)
      BY <2>0, <2>1, <3>1, <3>2 DEF Settles
    <3> QED BY <2>0, <3>3, SharedSettled
  <2>2. CASE shared[d] = "materializing"
    <3>1. acceptor' = [acceptor EXCEPT ![c] = "waiting"] /\ UNCHANGED <<claim, shared>>
      BY <1>3, <2>2 DEF ClaimRoot
    <3>2. \A a \in Acceptor : acceptor'[a] \in {"retiring", "routing"} =>
            acceptor'[a] = acceptor[a] /\ claim'[a] = claim[a]
      BY <1>0, <3>1 DEF ClaimShape
    <3> QED BY <2>0, <3>1, <3>2, ResultStays
  <2>3. CASE shared[d] \notin {"open", "materializing"}
    <3>1. TakeShared(c) /\ shared' = shared
      BY <1>3, <2>3 DEF ClaimRoot
    <3> QED BY <2>0, <3>1, TakenResult
  <2> QED BY <2>1, <2>2, <2>3
<1>4. ASSUME NEW c \in Caller, Ready(c) PROVE ResultInv'
  BY <1>0, <1>4, TakenResult DEF Ready, intent
<1>5. ASSUME NEW c \in Caller, NEW d \in Dispatch, NEW r \in Answer, CallAccept(c, d, r)
      PROVE  ResultInv'
  <2>1. \A a \in Acceptor : acceptor'[a] \in {"retiring", "routing"} =>
          acceptor'[a] = acceptor[a] /\ claim'[a] = claim[a]
    BY <1>0, <1>5 DEF CallAccept, ClaimShape
  <2> QED BY <1>5, <2>1, ResultStays DEF CallAccept, intent
<1> QED BY <1>1, <1>2, <1>3, <1>4, <1>5 DEF CallerStep

LEMMA NextResult ==
  ASSUME Inv, [Next]_vars
  PROVE  ResultInv'
<1>0. \A d \in Dispatch : d \in Acceptor
  BY DEF Acceptor
<1>1. ASSUME NEW d \in Dispatch,
             \/ OfferStep(d) \/ Accept(d) \/ BeginOffer(d) \/ Cancel(d) \/ ProcessGone(d)
             \/ \E o \in Outcome : Finish(d, o)
      PROVE  ResultInv'
  BY <1>1, StartResult
<1>2. ASSUME NEW d \in Dispatch, Look(d) PROVE ResultInv'
  <2>1. CASE result[d] # None
    BY <1>0, <1>2, <2>1, AnsweredResult DEF Look, intent
  <2>2. CASE result[d] = None
    <3>1. ClaimShape
      BY TypeParts DEF Inv
    <3>2. \A a \in Acceptor : acceptor'[a] \in {"retiring", "routing"} =>
            acceptor'[a] = acceptor[a] /\ claim'[a] = claim[a]
      BY <1>2, <2>2, <3>1 DEF Look, ClaimShape
    <3> QED BY <1>2, <3>2, ResultStays DEF Look, intent
  <2> QED BY <2>1, <2>2
<1>3. ASSUME NEW a \in Acceptor, Refuse(a) PROVE ResultInv'
  BY <1>3, AnsweredResult DEF Refuse, intent
<1>4. CASE Seal \/ StopStep \/ StopExpires \/ UNCHANGED vars
  <2>1. UNCHANGED <<status, result, shared, routed, acceptor, claim>>
    BY <1>4 DEF Seal, StopStep, OpeningsJoined, StopOutbox, CancelPublished, StopAttempts,
                AttemptsJoined, StopGivesUp, GiveUp, StopExpires, accepts, intent, vars
  <2> QED BY <2>1, ResultStays
<1> QED BY <1>1, <1>2, <1>3, <1>4, ContenderResult, RetireResult, RouteResult
      DEF Next, WorkerStep, AcceptStep

\* The callback of a dispatch with one Work is refused as a duplicate only.
LEMMA NextQuiet ==
  ASSUME Inv, [Next]_vars
  PROVE  JoinIsQuiet'
<1> SUFFICES ASSUME Lineage = {First} PROVE ~asyncErr'
  BY DEF JoinIsQuiet
<1>0. ~asyncErr /\ Shape
  BY TypeParts DEF Inv, JoinIsQuiet
<1>1. ASSUME NEW a \in Dispatch, Refuse(a) PROVE Duplicates(a)
  <2>1. status[a] = "RETIRED" /\ claim[a].dispatch = a /\ claim[a].work = First
    BY <1>1, AnsweredRetired DEF Refuse, Inv, CallbackInv
  <2>2. shared[a] = claim[a].outcome
    BY <1>1, <2>1 DEF Refuse, Inv, ResultInv, Acceptor
  <2>3. result[a] \in Terminal /\ result[a].work = First /\ result[a].outcome = shared[a]
    BY <1>0, <2>1 DEF Inv, ResultInv, Shape
  <2>4. result[a] = Submitted(a)
    BY <2>1, <2>2, <2>3 DEF Terminal, Submitted
  <2> QED BY <2>1, <2>4, LineageAssumption DEF Duplicates
<1>2. ASSUME NEW a \in Acceptor, Refuse(a) PROVE ~asyncErr'
  BY <1>0, <1>1, <1>2 DEF Refuse
<1>3. (\E a \in Acceptor : Refuse(a)) \/ asyncErr' = asyncErr
  BY DEF Next, vars, intent, attempts, accepts, Accept, BeginOffer, Cancel, ProcessGone,
         Finish, OfferStep, StartFails, StartAgain, Admit, AnswerInline, Prepared, PrepareFails,
         PrepareRefused, EndOffer, WorkerStep, Look, ClaimWorker, Materialize, CallAccept,
         CallerStep, ClaimRoot, Ready, AcceptStep, Retire, Route, Seal, StopStep, OpeningsJoined,
         StopOutbox, CancelPublished, StopAttempts, AttemptsJoined, StopGivesUp, GiveUp, StopExpires
<1> QED BY <1>0, <1>2, <1>3

-----------------------------------------------------------------------------
(* The stop.                                                               *)

\* Away from the stop, once admission is sealed, no attempt starts to prepare and
\* none that is over runs again.
LEMMA SealedAttempts ==
  ASSUME Inv, [Next]_vars, ~(Seal \/ StopStep \/ StopExpires), sealed, NEW d \in Dispatch
  PROVE  /\ attempt[d] # "preparing" => attempt'[d] # "preparing"
         /\ attempt[d] \in {"none", "done"} => attempt'[d] = attempt[d]
<1>0. Shape /\ Placed(d)
  BY TypeParts DEF Inv, PlaceInv
<1>1. ASSUME NEW e \in Dispatch, Prepared(e) \/ PrepareFails(e) \/ PrepareRefused(e)
      PROVE  attempt[e] = "preparing" /\ attempt'[e] # "preparing"
               /\ \A f \in Dispatch : f # e => attempt'[f] = attempt[f]
  BY <1>0, <1>1 DEF Prepared, PrepareFails, PrepareRefused, Shape, Inv, PlaceInv, Placed
<1>2. ASSUME NEW e \in Dispatch, NEW o \in Outcome, Finish(e, o)
      PROVE  attempt[e] = "executing" /\ attempt'[e] = "answering"
               /\ \A f \in Dispatch : f # e => attempt'[f] = attempt[f]
  BY <1>0, <1>2 DEF Finish, Shape
<1>3. ASSUME NEW a \in Acceptor, Answered(a)
      PROVE  attempt'[d] = attempt[d] \/ (attempt[d] = "answering" /\ attempt'[d] = "done")
  BY <1>0, <1>3 DEF Answered
<1>4. \/ attempt' = attempt
      \/ \E a \in Acceptor : Answered(a)
      \/ \E e \in Dispatch : \/ Prepared(e) \/ PrepareFails(e) \/ PrepareRefused(e)
                             \/ \E o \in Outcome : Finish(e, o)
  BY DEF Next, vars, intent, attempts, accepts, Accept, BeginOffer, Cancel, ProcessGone,
         OfferStep, StartFails, StartAgain, Admit, AnswerInline, EndOffer, WorkerStep, Look,
         ClaimWorker, Materialize, CallAccept, CallerStep, ClaimRoot, Ready, AcceptStep,
         Retire, Refuse, Route, Acceptor
<1>5. CASE \E e \in Dispatch : Prepared(e) \/ PrepareFails(e) \/ PrepareRefused(e)
  BY <1>1, <1>5
<1>6. CASE \E e \in Dispatch, o \in Outcome : Finish(e, o)
  BY <1>2, <1>6
<1> QED BY <1>3, <1>4, <1>5, <1>6

LEMMA NextStop ==
  ASSUME Inv, [Next]_vars
  PROVE  StopInv'
<1>0. StopInv /\ StopShape
  BY TypeParts DEF Inv
<1>1. CASE ~(Seal \/ StopStep \/ StopExpires)
  <2>1. UNCHANGED <<mode, sealed, ctl, stopErr>>
    BY <1>1, StopElsewhere
  <2>2. CASE ctl = "idle"
    BY <2>1, <2>2 DEF StopInv
  <2>3. CASE ctl # "idle"
    <3>1. sealed
      BY <1>0, <2>3 DEF StopInv
    <3>2. \A d \in Dispatch :
            /\ attempt[d] # "preparing" => attempt'[d] # "preparing"
            /\ attempt[d] \in {"none", "done"} => attempt'[d] = attempt[d]
      BY <1>1, <3>1, SealedAttempts
    <3> QED BY <1>0, <2>1, <3>2 DEF StopInv
  <2> QED BY <2>2, <2>3
<1>2. CASE Seal
  BY <1>2 DEF Seal, StopInv
<1>3. CASE OpeningsJoined
  BY <1>0, <1>3 DEF OpeningsJoined, StopAt, StopInv, intent, attempts
<1>4. CASE \E ok \in BOOLEAN : StopOutbox(ok)
  BY <1>0, <1>4 DEF StopOutbox, StopInv, StopShape, attempts
<1>5. CASE CancelPublished \/ StopAttempts
  BY <1>0, <1>5 DEF CancelPublished, StopAttempts, StopAt, StopInv, intent
<1>6. CASE AttemptsJoined
  BY <1>0, <1>6 DEF AttemptsJoined, StopAt, StopInv, StopShape, intent, attempts
<1>7. CASE StopGivesUp
  BY <1>0, <1>7 DEF StopGivesUp, GiveUp, StopInv, intent, attempts
<1>8. CASE StopExpires
  BY <1>0, <1>8 DEF StopExpires, StopInv, intent, attempts
<1> QED BY <1>1, <1>2, <1>3, <1>4, <1>5, <1>6, <1>7, <1>8 DEF StopStep

-----------------------------------------------------------------------------
(* The theorems.                                                           *)

LEMMA NextInv ==
  ASSUME Inv, [Next]_vars
  PROVE  Inv'
<1>1. TypeOK'
  BY NextShape, NextCapacity DEF TypeOK, Shape, ClaimShape, StopShape
<1> QED BY <1>1, NextCapacity, NextPlace, NextCallback, NextResult, NextStop, NextQuiet DEF Inv

LEMMA SpecInv == Spec => []Inv
  BY InitInv, NextInv, PTL DEF Spec

\* Every reachable state has its shape, and the active attempts never exceed the
\* capacity that admitAttempt looks at.
THEOREM TypeCorrect == Spec => []TypeOK
<1>1. Inv => TypeOK
  BY DEF Inv
<1> QED BY <1>1, SpecInv, PTL

\* However many callers compete with the callback of an attempt, and whatever
\* they submit, the engine gets one result per dispatch, the one the outbox keeps.
THEOREM ResultRoutedOnce == Spec => []RoutedOnce
<1>1. Inv => RoutedOnce
  BY DEF Inv, ResultInv
<1> QED BY <1>1, SpecInv, PTL

\* No intent counts as published while nothing carries it to a result: its attempt
\* runs or makes its callback, unless the preparation failed.
THEOREM PublishedCarried == Spec => []PublishedIsCarried
<1>1. ASSUME Inv PROVE PublishedIsCarried
  <2> SUFFICES ASSUME NEW d \in Dispatch, status[d] = "PUBLISHED"
               PROVE  /\ attempt[d] \in Busy \/ d \in unprepared
                      /\ d \in Active \cup terminal
    BY DEF PublishedIsCarried, Busy
  <2>1. Placed(d) /\ unprepared \subseteq terminal
    BY <1>1, TypeParts DEF Inv, PlaceInv, Shape
  <2>2. attempt[d] \in Busy \/ d \in unprepared
    BY <2>1 DEF Placed
  <2> QED BY <2>1, <2>2 DEF Placed, Busy, Active
<1> QED BY <1>1, SpecInv, PTL

\* A stop without error has joined every preparation before it closes the Worker
\* Sessions, and every callback before it ends; nothing is offered afterwards, and no
\* published intent is left without its result.
THEOREM StopJoins == Spec => []StopJoinsAttempts
<1>1. ASSUME Inv PROVE StopJoinsAttempts
  <2>1. StopInv
    BY <1>1 DEF Inv
  <2>2. ASSUME NEW d \in Dispatch, status[d] = "PUBLISHED", attempt[d] \in {"none", "done"}
        PROVE  d \in unprepared
    BY <1>1, <2>2 DEF Inv, PlaceInv, Placed, Busy
  <2> QED BY <2>1, <2>2 DEF StopInv, StopJoinsAttempts
<1> QED BY <1>1, SpecInv, PTL

\* The callback of a dispatch that carries one Work never records an error, with
\* any number of callers: a result that comes before it is the one it submits.
THEOREM QuietJoin == Spec => []JoinIsQuiet
<1>1. Inv => JoinIsQuiet
  BY DEF Inv
<1> QED BY <1>1, SpecInv, PTL
=============================================================================
