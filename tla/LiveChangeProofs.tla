-------------------------- MODULE LiveChangeProofs --------------------------
(***************************************************************************)
(* Proofs about LiveChange, for any operators, requests, resources and     *)
(* bodies, and any number of crashes and failed writes.                    *)
(***************************************************************************)
EXTENDS LiveChange, SequenceTheorems, TLAPS

-----------------------------------------------------------------------------
(* The log.                                                                *)

\* The positions and the events of a log to which e is appended.
LEMMA AppendFacts ==
  ASSUME log \in Seq(Event), NEW e \in Event, log' = Append(log, e)
  PROVE  /\ log' \in Seq(Event)
         /\ DOMAIN log = 1 .. Len(log)
         /\ DOMAIN log' = 1 .. Len(log) + 1
         /\ Len(log) \in Nat
         /\ Len(log') = Len(log) + 1
         /\ \A i \in DOMAIN log : log'[i] = log[i]
         /\ log'[Len(log) + 1] = e
<1>1. Len(log) \in Nat /\ DOMAIN log = 1 .. Len(log)
  OBVIOUS
<1>2. log' \in Seq(Event) /\ Len(log') = Len(log) + 1
  OBVIOUS
<1>3. \A i \in 1 .. Len(log) : log'[i] = log[i]
  OBVIOUS
<1>4. log'[Len(log) + 1] = e
  OBVIOUS
<1> QED BY <1>1, <1>2, <1>3, <1>4

\* An event of the log: a request with a body, or a result with a revision.
LEMMA EventFacts ==
  ASSUME log \in Seq(Event), NEW i \in DOMAIN log
  PROVE  /\ log[i].id \in Request
         /\ log[i].type = "request" => log[i].body \in Body
         /\ log[i].type # "request" => log[i].revision \in Nat
         /\ log[i].type \in {"request", "success", "failure"}
<1>1. log[i] \in Event
  OBVIOUS
<1> QED BY <1>1 DEF Event

\* The recorded body of a request is that of one of its request events.
LEMMA RecordedFacts ==
  ASSUME log \in Seq(Event), NEW q, HasRequest(q)
  PROVE  /\ Recorded(q) \in Body
         /\ \E i \in DOMAIN log : RequestAt(i, q) /\ Recorded(q) = log[i].body
<1> DEFINE k == CHOOSE i \in DOMAIN log : RequestAt(i, q)
<1>1. k \in DOMAIN log /\ RequestAt(k, q)
  BY DEF HasRequest
<1>2. Recorded(q) = log[k].body
  BY DEF Recorded
<1> QED BY <1>1, <1>2, EventFacts DEF RequestAt

\* What the log knows of a request once e is appended.
LEMMA KnownAfter ==
  ASSUME log \in Seq(Event), NEW e \in Event, log' = Append(log, e), NEW q
  PROVE  /\ HasRequest(q)' <=> HasRequest(q) \/ (e.type = "request" /\ e.id = q)
         /\ HasTerminal(q)' <=> HasTerminal(q) \/ (e.type # "request" /\ e.id = q)
         /\ HasSuccess(q)' <=> HasSuccess(q) \/ (e.type = "success" /\ e.id = q)
<1>1. /\ DOMAIN log' = DOMAIN log \cup {Len(log) + 1}
      /\ \A i \in DOMAIN log : log'[i] = log[i]
      /\ log'[Len(log) + 1] = e
  BY AppendFacts
<1>2. HasRequest(q)' <=> HasRequest(q) \/ (e.type = "request" /\ e.id = q)
  BY <1>1 DEF HasRequest, RequestAt
<1>3. HasTerminal(q)' <=> HasTerminal(q) \/ (e.type # "request" /\ e.id = q)
  BY <1>1 DEF HasTerminal, TerminalAt
<1>4. HasSuccess(q)' <=> HasSuccess(q) \/ (e.type = "success" /\ e.id = q)
  BY <1>1 DEF HasSuccess, TerminalAt
<1> QED BY <1>2, <1>3, <1>4

-----------------------------------------------------------------------------
(* Types.                                                                  *)

LEMMA InitType == Init => TypeOK
BY NoneAssumption, AuthoredAssumption DEF Init, TypeOK, PC, Inside, Bodied

\* An event that is written keeps the types of the log.
LEMMA RecordType ==
  ASSUME TypeOK, NEW e \in Event, Record(e)
  PROVE  log' \in Seq(Event) /\ effective' \in Nat /\ started \in 0 .. Len(log')
<1>1. log' \in Seq(Event) /\ Len(log') = Len(log) + 1 /\ Len(log) \in Nat
  BY AppendFacts DEF TypeOK, Record
<1>2. effective' \in Nat
  BY DEF TypeOK, Record, Event
<1> QED BY <1>1, <1>2 DEF TypeOK

\* The operators and the mutex, after the step of the one that goes to p or returns.
Control ==
  /\ holder \in Operator \cup {None}
  /\ pc \in [Operator -> PC]
  /\ call \in [Operator -> Call \cup {None}]
  /\ \A o \in Operator :
       /\ call[o] = None <=> pc[o] = "idle"
       /\ holder = o <=> pc[o] \in Inside
       /\ pc[o] \in Bodied => call[o].body # None

LEMMA ReturnControl ==
  ASSUME Control, NEW o \in Operator, pc[o] \in Inside, Return(o)
  PROVE  Control'
BY NoneAssumption DEF Control, Return, Goto, PC, Inside, Bodied

LEMMA GotoControl ==
  ASSUME Control, NEW o \in Operator, pc[o] \in Inside, call[o].body # None,
         NEW p \in Bodied, Goto(o, p), UNCHANGED <<holder, call>>
  PROVE  Control'
BY NoneAssumption DEF Control, Goto, PC, Inside, Bodied

\* What the call of an operator is between Lock and Unlock.
LEMMA CallFacts ==
  ASSUME TypeOK, NEW o \in Operator, pc[o] \in Inside
  PROVE  /\ call[o] \in Call
         /\ call[o].id \in Request
         /\ call[o].body \in Body \cup {None}
         /\ pc[o] \in Bodied => /\ call[o].body \in Body
                                /\ call[o].body.target \in Resource
                                /\ call[o].body.value \in Nat
                                /\ call[o].body.expected \in Nat
<1>1. call[o] \in Call
  BY DEF TypeOK, Inside, PC
<1>2. call[o].id \in Request /\ call[o].body \in Body \cup {None}
  BY <1>1 DEF Call
<1> QED BY <1>1, <1>2, BodyAssumption DEF TypeOK
\* TypeOK is the types of the log and of the Runtime, and Control.
DataType ==
  /\ log \in Seq(Event)
  /\ effective \in Nat
  /\ capacity \in [Resource -> Nat]
  /\ watermark \in Nat
  /\ started \in 0 .. Len(log)
  /\ unrecorded \in SUBSET Request

LEMMA TypeSplit == TypeOK <=> DataType /\ Control
BY DEF TypeOK, DataType, Control

\* Every step of a call, and a crash, keep the types.
LEMMA StepType ==
  ASSUME TypeOK, [Next]_vars
  PROVE  TypeOK'
<1> USE DEF history, runtime, control
<1>0. DataType /\ Control
  BY TypeSplit
<1>1. ASSUME NEW o \in Operator, NEW q \in Request, NEW b \in Body \cup {None}, Submit(o, q, b)
      PROVE TypeOK'
  <2>1. [id |-> q, body |-> b] \in Call
    BY DEF Call
  <2>2. Control'
    BY <1>0, <1>1, <2>1, NoneAssumption DEF Submit, Goto, Control, PC, Inside, Bodied
  <2>3. DataType'
    BY <1>0, <1>1 DEF Submit, DataType
  <2> QED BY <2>2, <2>3 DEF TypeOK, DataType, Control
<1>2. ASSUME NEW o \in Operator, Lock(o) PROVE TypeOK'
  <2>1. Control'
    BY <1>0, <1>2, NoneAssumption DEF Lock, Goto, Control, PC, Inside, Bodied
  <2>2. DataType'
    BY <1>0, <1>2 DEF Lock, DataType
  <2> QED BY <2>1, <2>2 DEF TypeOK, DataType, Control
<1>3. ASSUME NEW o \in Operator, Reject(o) PROVE TypeOK'
  <2>1. Control'
    BY <1>0, <1>3, ReturnControl DEF Reject, Inside, PC
  <2>2. DataType'
    BY <1>0, <1>3 DEF Reject, DataType
  <2> QED BY <2>1, <2>2 DEF TypeOK, DataType, Control
<1>4. ASSUME NEW o \in Operator, Replay(o) PROVE TypeOK'
  <2>1. Control'
    BY <1>0, <1>4, ReturnControl DEF Replay, Inside, PC
  <2>2. watermark' \in Nat
    BY <1>0, <1>4, EventFacts DEF Replay, Advance, DataType, TerminalAt
  <2>3. DataType'
    BY <1>0, <1>4, <2>2 DEF Replay, DataType
  <2> QED BY <2>1, <2>3 DEF TypeOK, DataType, Control
<1>5. ASSUME NEW o \in Operator, NoOp(o) PROVE TypeOK'
  <2>1. Control'
    BY <1>0, <1>5, ReturnControl DEF NoOp, Fresh, Inside, PC
  <2>2. DataType'
    BY <1>0, <1>5 DEF NoOp, Advance, DataType
  <2> QED BY <2>1, <2>2 DEF TypeOK, DataType, Control
<1>6. ASSUME NEW o \in Operator, Admit(o) PROVE TypeOK'
  <2>1. Control'
    BY <1>0, <1>6, GotoControl DEF Admit, Fresh, Inside, Bodied, PC
  <2>2. DataType'
    BY <1>0, <1>6 DEF Admit, DataType
  <2> QED BY <2>1, <2>2 DEF TypeOK, DataType, Control
<1>7. ASSUME NEW o \in Operator, Resume(o) PROVE TypeOK'
  <2>1. pc[o] = "deciding" /\ call[o] \in Call
    BY <1>7, CallFacts DEF Resume, Pending, Inside, PC
  <2>2. Recorded(call[o].id) \in Body /\ Recorded(call[o].id) # None
    BY <1>0, <1>7, RecordedFacts, NoneAssumption DEF Resume, Pending, DataType
  <2>3. [call[o] EXCEPT !.body = Recorded(call[o].id)] \in Call
    BY <2>1, <2>2 DEF Call
  <2>4. /\ call'[o] # None /\ call'[o].body # None /\ pc'[o] \in {"applying", "failing"}
        /\ \A u \in Operator \ {o} : call'[u] = call[u] /\ pc'[u] = pc[u]
        /\ call' \in [Operator -> Call \cup {None}] /\ pc' \in [Operator -> PC]
    <3>1. call' = [call EXCEPT ![o] = [call[o] EXCEPT !.body = Recorded(call[o].id)]]
      BY <1>7 DEF Resume
    <3>2. call'[o] = [call[o] EXCEPT !.body = Recorded(call[o].id)]
      BY <1>0, <3>1 DEF Control
    <3>3. call'[o] # None
      BY <2>3, <3>2, NoneAssumption
    <3>4. call'[o].body = Recorded(call[o].id)
      BY <2>1, <3>2 DEF Call
    <3>5. pc'[o] \in {"applying", "failing"} /\ pc' \in [Operator -> PC]
      BY <1>0, <1>7 DEF Resume, Goto, Control, PC
    <3>6. \A u \in Operator \ {o} : call'[u] = call[u] /\ pc'[u] = pc[u]
      BY <1>0, <1>7, <3>1 DEF Resume, Goto, Control
    <3>7. call' \in [Operator -> Call \cup {None}]
      BY <1>0, <2>3, <3>1 DEF Control
    <3> QED BY <2>2, <3>3, <3>4, <3>5, <3>6, <3>7
  <2>5. Control'
    BY <1>0, <1>7, <2>1, <2>4 DEF Resume, Control, PC, Inside, Bodied
  <2>6. DataType'
    BY <1>0, <1>7 DEF Resume, DataType
  <2> QED BY <2>5, <2>6 DEF TypeOK, DataType, Control
<1>8. ASSUME NEW o \in Operator, NEW ok \in BOOLEAN, AppendRequest(o, ok) PROVE TypeOK'
  <2>1. pc[o] \in Bodied
    BY <1>8 DEF AppendRequest, Bodied, Inside, PC
  <2>2. Control'
    BY <1>0, <1>8, <2>1, ReturnControl, GotoControl DEF AppendRequest, Control, Bodied, Inside, PC
  <2>3. [type |-> "request", id |-> call[o].id, body |-> call[o].body] \in Event
    BY <2>1, CallFacts DEF Event, Bodied
  <2>4. DataType'
    BY <1>0, <1>8, <2>3, RecordType DEF AppendRequest, DataType
  <2> QED BY <2>2, <2>4 DEF TypeOK, DataType, Control
<1>9. ASSUME NEW o \in Operator, NEW ok \in BOOLEAN, Apply(o, ok) PROVE TypeOK'
  <2>1. pc[o] \in Bodied
    BY <1>9 DEF Apply, Bodied, Inside, PC
  <2>2. Control'
    BY <1>0, <1>9, <2>1, GotoControl DEF Apply, Control, Bodied, Inside, PC
  <2>3. DataType'
    BY <1>0, <1>9, <2>1, CallFacts DEF Apply, DataType, Bodied
  <2> QED BY <2>2, <2>3 DEF TypeOK, DataType, Control
<1>10. ASSUME NEW o \in Operator, ApplyRefused(o) PROVE TypeOK'
  <2>1. Control'
    BY <1>0, <1>10, GotoControl DEF ApplyRefused, Control, Bodied, Inside, PC
  <2>2. DataType'
    BY <1>0, <1>10 DEF ApplyRefused, DataType
  <2> QED BY <2>1, <2>2 DEF TypeOK, DataType, Control
<1>11. ASSUME NEW o \in Operator, NEW ok \in BOOLEAN, CloseSuccess(o, ok) PROVE TypeOK'
  <2>1. pc[o] \in Bodied
    BY <1>11 DEF CloseSuccess, Bodied, Inside, PC
  <2>2. Control'
    BY <1>0, <1>11, <2>1, ReturnControl, GotoControl DEF CloseSuccess, Control, Bodied, Inside, PC
  <2>3. [type |-> "success", id |-> call[o].id, revision |-> call[o].body.expected + 1] \in Event
    BY <2>1, CallFacts DEF Event, Bodied
  <2>4. DataType'
    BY <1>0, <1>11, <2>3, RecordType DEF CloseSuccess, DataType
  <2> QED BY <2>2, <2>4 DEF TypeOK, DataType, Control
<1>12. ASSUME NEW o \in Operator, NEW ok \in BOOLEAN, CloseFailure(o, ok) PROVE TypeOK'
  <2>1. pc[o] \in Bodied
    BY <1>12 DEF CloseFailure, Bodied, Inside, PC
  <2>2. Control'
    BY <1>0, <1>12, <2>1, ReturnControl DEF CloseFailure, Bodied
  <2>3. [type |-> "failure", id |-> call[o].id, revision |-> effective] \in Event
    BY <1>0, <2>1, CallFacts DEF Event, Bodied, DataType
  <2>4. DataType'
    BY <1>0, <1>12, <2>3, RecordType DEF CloseFailure, DataType
  <2> QED BY <2>2, <2>4 DEF TypeOK, DataType, Control
<1>13. ASSUME NEW o \in Operator, Publish(o) PROVE TypeOK'
  <2>1. pc[o] \in Bodied
    BY <1>13 DEF Publish, Bodied, Inside, PC
  <2>2. Control'
    BY <1>0, <1>13, <2>1, ReturnControl DEF Publish, Bodied
  <2>3. DataType'
    BY <1>0, <1>13, <2>1, CallFacts DEF Publish, Advance, DataType, Bodied
  <2> QED BY <2>2, <2>3 DEF TypeOK, DataType, Control
<1>14. CASE Crash
  <2>1. Control'
    BY <1>14, NoneAssumption DEF Crash, Control, PC, Inside, Bodied
  <2>2. DataType'
    BY <1>0, <1>14, AuthoredAssumption DEF Crash, DataType
  <2> QED BY <2>1, <2>2 DEF TypeOK, DataType, Control
<1>15. CASE UNCHANGED vars
  BY <1>15 DEF vars, TypeOK
<1> QED BY <1>1, <1>2, <1>3, <1>4, <1>5, <1>6, <1>7, <1>8, <1>9, <1>10, <1>11, <1>12, <1>13,
           <1>14, <1>15 DEF Next, Step

\* Every reachable state of a live change has its type, and exactly the call between
\* Lock and Unlock holds the mutex (liveChangeMu and the admission gate).
THEOREM TypeCorrect == Spec => []TypeOK
BY InitType, StepType, PTL DEF Spec

-----------------------------------------------------------------------------
(* Appending to the log.                                                   *)

\* What may follow the events of the log: the request of an unknown ID, or the first
\* result of a requested one.
Follows(e) ==
  \/ e.type = "request" /\ ~HasRequest(e.id)
  \/ e.type # "request" /\ HasRequest(e.id) /\ ~HasTerminal(e.id)

\* A result has a request.
LEMMA TerminalHasRequest ==
  ASSUME LogRecoverable, NEW q, HasTerminal(q)
  PROVE  HasRequest(q)
<1>1. PICK i \in DOMAIN log : TerminalAt(i, q)
  BY DEF HasTerminal
<1>2. HasRequest(log[i].id)
  BY <1>1 DEF LogRecoverable, TerminalAt
<1> QED BY <1>1, <1>2 DEF TerminalAt

LEMMA RecoverableAfter ==
  ASSUME log \in Seq(Event), LogRecoverable, NEW e \in Event, Follows(e), log' = Append(log, e)
  PROVE  LogRecoverable'
<1> DEFINE n == Len(log) + 1
           Requested(q) == \E k \in DOMAIN log' : log'[k].type = "request" /\ log'[k].id = q
<1>1. /\ DOMAIN log' = DOMAIN log \cup {n}
      /\ \A i \in DOMAIN log : log'[i] = log[i] /\ i < n
      /\ log'[n] = e
  BY AppendFacts
<1>2. SUFFICES ASSUME NEW i \in DOMAIN log', NEW j \in DOMAIN log', log'[i].id = log'[j].id
               PROVE  /\ log'[i].type = "request" /\ log'[j].type = "request" => i = j
                      /\ log'[i].type # "request" /\ log'[j].type # "request" => i = j
                      /\ log'[i].type # "request" => Requested(log'[i].id)
                      /\ log'[i].type = "request" /\ log'[j].type # "request" => i < j
  BY DEF LogRecoverable, HasRequest, RequestAt
<1>3. \A q : HasRequest(q) => Requested(q)
  BY <1>1 DEF HasRequest, RequestAt
<1>4. CASE i \in DOMAIN log /\ j \in DOMAIN log
  BY <1>1, <1>2, <1>3, <1>4 DEF LogRecoverable
<1>5. CASE i = n /\ j = n
  BY <1>1, <1>3, <1>5 DEF Follows
<1>6. CASE i \in DOMAIN log /\ j = n
  <2>1. log[i].id = e.id /\ log'[i] = log[i] /\ log'[j] = e /\ i < j
    BY <1>1, <1>2, <1>6
  <2>2. log[i].type = "request" => e.type # "request"
    BY <2>1, <1>6 DEF Follows, HasRequest, RequestAt
  <2>3. log[i].type # "request" => e.type = "request" /\ HasRequest(log[i].id)
    BY <2>1, <1>6 DEF Follows, HasTerminal, TerminalAt, LogRecoverable
  <2> QED BY <1>3, <2>1, <2>2, <2>3
<1>7. CASE i = n /\ j \in DOMAIN log
  <2>1. log[j].id = e.id /\ log'[j] = log[j] /\ log'[i] = e
    BY <1>1, <1>2, <1>7
  <2>2. e.type = "request" => log[j].type # "request" /\ ~HasRequest(e.id)
    BY <2>1, <1>7 DEF Follows, HasRequest, RequestAt
  <2>3. log[j].type # "request" => HasRequest(e.id)
    BY <2>1, <1>7 DEF LogRecoverable
  <2>4. e.type # "request" => log[j].type = "request" /\ HasRequest(e.id)
    BY <2>1, <1>7 DEF Follows, HasTerminal, TerminalAt
  <2> QED BY <1>3, <2>1, <2>2, <2>3, <2>4
<1> QED BY <1>1, <1>4, <1>5, <1>6, <1>7

\* The body recorded for a request stays.
LEMMA RecordedStays ==
  ASSUME log \in Seq(Event), LogRecoverable, NEW e \in Event, Follows(e), log' = Append(log, e),
         NEW q, HasRequest(q)
  PROVE  Recorded(q)' = Recorded(q)
<1>1. PICK i \in DOMAIN log : RequestAt(i, q) /\ Recorded(q) = log[i].body
  BY RecordedFacts
<1> DEFINE k == CHOOSE j \in DOMAIN log' : log'[j].type = "request" /\ log'[j].id = q
<1>2. HasRequest(q)'
  BY KnownAfter
<1>3. k \in DOMAIN log' /\ log'[k].type = "request" /\ log'[k].id = q
  BY <1>2 DEF HasRequest, RequestAt
<1>4. Recorded(q)' = log'[k].body
  BY DEF Recorded, RequestAt
<1>5. k \in DOMAIN log
  <2>1. SUFFICES ASSUME k = Len(log) + 1 PROVE FALSE
    BY <1>3, AppendFacts
  <2>2. e.type = "request" /\ e.id = q
    BY <1>3, <2>1, AppendFacts DEF RequestAt
  <2> QED BY <2>2 DEF Follows
<1>6. log'[k] = log[k]
  BY <1>5, AppendFacts
<1>7. k = i
  BY <1>1, <1>3, <1>5, <1>6 DEF RequestAt, LogRecoverable
<1> QED BY <1>1, <1>4, <1>6, <1>7

\* The body of a request that is appended is the recorded one.
LEMMA RecordedNew ==
  ASSUME log \in Seq(Event), NEW e \in Event, log' = Append(log, e), e.type = "request",
         ~HasRequest(e.id)
  PROVE  Recorded(e.id)' = e.body
<1> DEFINE k == CHOOSE j \in DOMAIN log' : log'[j].type = "request" /\ log'[j].id = e.id
<1>1. HasRequest(e.id)'
  BY KnownAfter
<1>2. k \in DOMAIN log' /\ log'[k].type = "request" /\ log'[k].id = e.id
  BY <1>1 DEF HasRequest, RequestAt
<1>3. k \notin DOMAIN log
  BY <1>2, AppendFacts DEF HasRequest, RequestAt
<1>4. k = Len(log) + 1
  BY <1>2, <1>3, AppendFacts
<1> QED BY <1>4, AppendFacts DEF Recorded, RequestAt

-----------------------------------------------------------------------------
(* The inductive invariant.                                                *)

\* The effective revision is the last one of the log; a call that may still change it
\* was made for it, and one that is about to publish has made it.
RevisionInv ==
  /\ \A i \in DOMAIN log : log[i].type # "request" => log[i].revision <= effective
  /\ \A o \in Operator :
       /\ pc[o] \in {"admitting", "applying", "succeeding"} => call[o].body.expected = effective
       /\ pc[o] = "publishing" => call[o].body.expected + 1 = effective

\* What the log knows of the request of a call that is past its decision.
DecisionInv ==
  \A o \in Operator :
    /\ pc[o] = "admitting" => ~HasRequest(call[o].id)
    /\ pc[o] \in {"applying", "succeeding", "failing"} =>
         HasRequest(call[o].id) /\ ~HasTerminal(call[o].id) /\ call[o].body = Recorded(call[o].id)

Inv == TypeOK /\ LogRecoverable /\ WatermarkTrails /\ RevisionInv /\ DecisionInv

LEMMA InitInv == Init => Inv
BY InitType DEF Init, Inv, LogRecoverable, WatermarkTrails, RevisionInv, DecisionInv

\* What the log knows depends on the log only.
LEMMA SameLog ==
  ASSUME UNCHANGED log
  PROVE  /\ LogRecoverable' <=> LogRecoverable
         /\ \A q : HasRequest(q)' <=> HasRequest(q)
         /\ \A q : HasTerminal(q)' <=> HasTerminal(q)
         /\ \A q : HasSuccess(q)' <=> HasSuccess(q)
         /\ \A q : Recorded(q)' = Recorded(q)
<1>1. \A q : HasRequest(q)' <=> HasRequest(q)
  BY DEF HasRequest, RequestAt
<1>2. \A q : HasTerminal(q)' <=> HasTerminal(q)
  BY DEF HasTerminal, TerminalAt
<1>3. \A q : HasSuccess(q)' <=> HasSuccess(q)
  BY DEF HasSuccess, TerminalAt
<1>4. \A q : Recorded(q)' = Recorded(q)
  BY DEF Recorded, RequestAt
<1>5. LogRecoverable' <=> LogRecoverable
  BY DEF LogRecoverable, HasRequest, RequestAt
<1> QED BY <1>1, <1>2, <1>3, <1>4, <1>5

\* Only one call is between Lock and Unlock.
LEMMA Alone ==
  ASSUME TypeOK, NEW o \in Operator, pc[o] \in Inside, NEW u \in Operator, u # o
  PROVE  pc[u] \notin Inside
BY DEF TypeOK

\* A step that writes no event keeps what the log says; the invariant is left to show
\* for the operator that moved.
LEMMA QuietStep ==
  ASSUME Inv, [Next]_vars, UNCHANGED <<log, effective>>, WatermarkTrails',
         \A u \in Operator :
           \/ pc'[u] = pc[u] /\ call'[u] = call[u]
           \/ pc'[u] \in {"idle", "waiting", "deciding"}
           \/ /\ pc'[u] = "admitting" => call'[u].body.expected = effective /\ ~HasRequest(call'[u].id)
              /\ pc'[u] \in {"applying", "succeeding"} => call'[u].body.expected = effective
              /\ pc'[u] \in {"applying", "succeeding", "failing"} =>
                   /\ HasRequest(call'[u].id) /\ ~HasTerminal(call'[u].id)
                   /\ call'[u].body = Recorded(call'[u].id)
              /\ pc'[u] # "publishing"
  PROVE  Inv'
<1>1. TypeOK'
  BY StepType DEF Inv
<1>2. LogRecoverable'
  BY SameLog DEF Inv
<1>3. RevisionInv'
  BY DEF Inv, RevisionInv
<1>4. DecisionInv'
  <2> SUFFICES ASSUME NEW u \in Operator
               PROVE  /\ pc'[u] = "admitting" => ~HasRequest(call'[u].id)
                      /\ pc'[u] \in {"applying", "succeeding", "failing"} =>
                           /\ HasRequest(call'[u].id) /\ ~HasTerminal(call'[u].id)
                           /\ call'[u].body = Recorded(call'[u].id)
    BY SameLog DEF DecisionInv, HasRequest, HasTerminal, Recorded, RequestAt, TerminalAt
  <2>1. CASE pc'[u] = pc[u] /\ call'[u] = call[u]
    BY <2>1 DEF Inv, DecisionInv
  <2>2. CASE ~(pc'[u] = pc[u] /\ call'[u] = call[u])
    BY <2>2
  <2> QED BY <2>1, <2>2
<1> QED BY <1>1, <1>2, <1>3, <1>4 DEF Inv

\* A step of o that writes event e keeps the invariant, if it does for o itself.
LEMMA RecordStep ==
  ASSUME Inv, [Next]_vars, NEW o \in Operator, pc[o] \in Inside, NEW e \in Event, Follows(e), Record(e),
         e.type = "success" => e.revision = effective + 1,
         e.type = "failure" => e.revision = effective,
         UNCHANGED watermark,
         \A u \in Operator \ {o} : pc'[u] = pc[u] /\ call'[u] = call[u],
         \/ pc'[o] = "idle"
         \/ /\ pc'[o] = "applying" /\ e.type = "request"
            /\ call'[o].id = e.id /\ call'[o].body = e.body /\ e.body.expected = effective
         \/ pc'[o] = "publishing" /\ call'[o].body.expected + 1 = effective'
  PROVE  Inv'
<1>1. TypeOK'
  BY StepType DEF Inv
<1>2. log \in Seq(Event) /\ LogRecoverable /\ log' = Append(log, e) /\ effective \in Nat
  BY DEF Inv, TypeOK, Record
<1>3. LogRecoverable'
  BY <1>2, RecoverableAfter
<1>4. effective <= effective' /\ (e.type = "request" => effective' = effective)
  BY <1>2 DEF Record
<1>5. WatermarkTrails'
  BY <1>2, <1>4 DEF Inv, TypeOK, WatermarkTrails, Record
<1>6. \A u \in Operator \ {o} : pc'[u] \notin Inside
  BY Alone DEF Inv
<1>7. RevisionInv'
  <2>1. ASSUME NEW i \in DOMAIN log', log'[i].type # "request" PROVE log'[i].revision <= effective'
    <3>1. CASE i \in DOMAIN log
      <4>1. log'[i] = log[i] /\ log[i].revision <= effective /\ log[i].revision \in Nat
        BY <1>2, <2>1, <3>1, AppendFacts, EventFacts DEF Inv, RevisionInv
      <4> QED BY <1>1, <1>2, <1>4, <4>1 DEF TypeOK
    <3>2. CASE i \notin DOMAIN log
      <4>1. log'[i] = e
        BY <1>2, <2>1, <3>2, AppendFacts
      <4>2. e.type \in {"success", "failure"} /\ e.revision \in Nat
        BY <2>1, <4>1 DEF Event
      <4> QED BY <1>2, <4>1, <4>2 DEF Record
    <3> QED BY <3>1, <3>2
  <2>2. \A u \in Operator :
          /\ pc'[u] \in {"admitting", "applying", "succeeding"} => call'[u].body.expected = effective'
          /\ pc'[u] = "publishing" => call'[u].body.expected + 1 = effective'
    BY <1>4, <1>6 DEF Inside, PC
  <2> QED BY <2>1, <2>2 DEF RevisionInv
<1>8. DecisionInv'
  <2>1. CASE pc'[o] \in {"idle", "publishing"}
    BY <1>6, <2>1 DEF DecisionInv, Inside, PC
  <2>2. CASE pc'[o] = "applying"
    <3>1. e.type = "request" /\ ~HasRequest(e.id) /\ call'[o].id = e.id /\ call'[o].body = e.body
      BY <2>2 DEF Follows
    <3>2. ~HasTerminal(e.id)
      BY <1>2, <3>1, TerminalHasRequest
    <3>3. HasRequest(e.id)' /\ ~HasTerminal(e.id)' /\ Recorded(e.id)' = e.body
      BY <1>2, <3>1, <3>2, KnownAfter, RecordedNew
    <3>4. HasRequest(call[o].id)' /\ ~HasTerminal(call[o].id)' /\ (call[o].body = Recorded(call[o].id))'
      BY <3>1, <3>3 DEF HasRequest, HasTerminal, Recorded, RequestAt, TerminalAt
    <3> QED BY <1>6, <2>2, <3>4 DEF DecisionInv, Inside, PC
  <2> QED BY <2>1, <2>2
<1> QED BY <1>1, <1>3, <1>5, <1>7, <1>8 DEF Inv

LEMMA StepInv ==
  ASSUME Inv, [Next]_vars
  PROVE  Inv'
<1> USE DEF history, runtime, control
<1>0. TypeOK /\ pc \in [Operator -> PC] /\ call \in [Operator -> Call \cup {None}]
  BY DEF Inv, TypeOK
<1>w. watermark \in Nat /\ effective \in Nat /\ watermark <= effective
  BY DEF Inv, TypeOK, WatermarkTrails
<1>1. ASSUME NEW o \in Operator, NEW q \in Request, NEW b \in Body \cup {None}, Submit(o, q, b)
      PROVE Inv'
  BY <1>0, <1>w, <1>1, QuietStep DEF Submit, Goto, WatermarkTrails
<1>2. ASSUME NEW o \in Operator, Lock(o) PROVE Inv'
  BY <1>0, <1>w, <1>2, QuietStep DEF Lock, Goto, WatermarkTrails
<1>3. ASSUME NEW o \in Operator, Reject(o) PROVE Inv'
  BY <1>0, <1>w, <1>3, QuietStep DEF Reject, Return, Goto, WatermarkTrails
<1>4. ASSUME NEW o \in Operator, Replay(o) PROVE Inv'
  <2>1. watermark' <= effective
    <3>1. PICK i \in DOMAIN log : TerminalAt(i, call[o].id) /\ Advance(log[i].revision)
      BY <1>4 DEF Replay
    <3>2. log[i].revision <= effective
      BY <3>1 DEF Inv, RevisionInv, TerminalAt
    <3> QED BY <1>w, <3>1, <3>2 DEF Advance
  <2> QED BY <1>0, <1>4, <2>1, QuietStep DEF Replay, Return, Goto, WatermarkTrails
<1>5. ASSUME NEW o \in Operator, NoOp(o) PROVE Inv'
  BY <1>0, <1>w, <1>5, QuietStep DEF NoOp, Advance, Return, Goto, WatermarkTrails
<1>6. ASSUME NEW o \in Operator, Admit(o) PROVE Inv'
  BY <1>0, <1>w, <1>6, QuietStep DEF Admit, Fresh, Goto, WatermarkTrails
<1>7. ASSUME NEW o \in Operator, Resume(o) PROVE Inv'
  <2>1. call[o] \in Call /\ pc[o] = "deciding"
    BY <1>0, <1>7, CallFacts DEF Resume, Pending, Inside, PC
  <2>2. call'[o] = [call[o] EXCEPT !.body = Recorded(call[o].id)]
    BY <1>0, <1>7 DEF Resume
  <2>3. call'[o].id = call[o].id /\ call'[o].body = Recorded(call[o].id)
    BY <2>1, <2>2 DEF Call
  <2>4. pc'[o] = IF Recorded(call[o].id).expected = effective THEN "applying" ELSE "failing"
    BY <1>0, <1>7 DEF Resume, Goto
  <2>5. HasRequest(call[o].id) /\ ~HasTerminal(call[o].id)
    BY <1>7 DEF Resume, Pending
  <2>6. \A u \in Operator \ {o} : pc'[u] = pc[u] /\ call'[u] = call[u]
    BY <1>0, <1>7 DEF Resume, Goto
  <2> QED BY <1>7, <1>w, <2>3, <2>4, <2>5, <2>6, QuietStep DEF Resume, WatermarkTrails
<1>8. ASSUME NEW o \in Operator, NEW ok \in BOOLEAN, AppendRequest(o, ok) PROVE Inv'
  <2> DEFINE e == [type |-> "request", id |-> call[o].id, body |-> call[o].body]
  <2>1. pc[o] = "admitting" /\ pc[o] \in Inside /\ pc[o] \in Bodied
    BY <1>8 DEF AppendRequest, Bodied, Inside, PC
  <2>2. e \in Event
    BY <1>0, <2>1, CallFacts DEF Event
  <2>3. CASE ok
    <3>1. Follows(e) /\ e.body.expected = effective
      BY <2>1 DEF Inv, DecisionInv, RevisionInv, Follows
    <3>2. Record(e) /\ UNCHANGED watermark
      BY <1>8, <2>3 DEF AppendRequest
    <3>3. pc'[o] = "applying" /\ \A u \in Operator \ {o} : pc'[u] = pc[u] /\ call'[u] = call[u]
      BY <1>0, <1>8, <2>3 DEF AppendRequest, Goto
    <3>4. call'[o].id = e.id /\ call'[o].body = e.body
      BY <1>8, <2>3 DEF AppendRequest
    <3> QED BY <2>1, <2>2, <3>1, <3>2, <3>3, <3>4, RecordStep
  <2>4. CASE ~ok
    BY <1>0, <1>w, <1>8, <2>4, QuietStep DEF AppendRequest, Return, Goto, WatermarkTrails
  <2> QED BY <2>3, <2>4
<1>9. ASSUME NEW o \in Operator, NEW ok \in BOOLEAN, Apply(o, ok) PROVE Inv'
  <2>1. pc[o] = "applying" /\ pc'[o] \in {"succeeding", "failing"} /\ call' = call
          /\ \A u \in Operator \ {o} : pc'[u] = pc[u]
    BY <1>0, <1>9 DEF Apply, Goto
  <2> QED BY <1>0, <1>w, <1>9, <2>1, QuietStep
          DEF Apply, WatermarkTrails, Inv, DecisionInv, RevisionInv
<1>10. ASSUME NEW o \in Operator, ApplyRefused(o) PROVE Inv'
  <2>1. pc[o] = "applying" /\ pc'[o] = "failing" /\ call' = call
          /\ \A u \in Operator \ {o} : pc'[u] = pc[u]
    BY <1>0, <1>10 DEF ApplyRefused, Goto
  <2> QED BY <1>0, <1>w, <1>10, <2>1, QuietStep
          DEF ApplyRefused, WatermarkTrails, Inv, DecisionInv, RevisionInv
<1>11. ASSUME NEW o \in Operator, NEW ok \in BOOLEAN, CloseSuccess(o, ok) PROVE Inv'
  <2> DEFINE e == [type |-> "success", id |-> call[o].id, revision |-> call[o].body.expected + 1]
  <2>1. pc[o] = "succeeding" /\ pc[o] \in Inside /\ pc[o] \in Bodied
    BY <1>11 DEF CloseSuccess, Bodied, Inside, PC
  <2>2. e \in Event
    BY <1>0, <2>1, CallFacts DEF Event
  <2>3. CASE ok
    <3>1. Follows(e) /\ e.revision = effective + 1
      BY <2>1 DEF Inv, DecisionInv, RevisionInv, Follows
    <3>2. Record(e) /\ UNCHANGED watermark
      BY <1>11, <2>3 DEF CloseSuccess
    <3>3. pc'[o] = "publishing" /\ \A u \in Operator \ {o} : pc'[u] = pc[u] /\ call'[u] = call[u]
      BY <1>0, <1>11, <2>3 DEF CloseSuccess, Goto
    <3>4. call'[o].body.expected + 1 = effective'
      BY <1>11, <2>3, <3>2 DEF CloseSuccess, Record
    <3> QED BY <2>1, <2>2, <3>1, <3>2, <3>3, <3>4, RecordStep
  <2>4. CASE ~ok
    BY <1>0, <1>w, <1>11, <2>4, QuietStep DEF CloseSuccess, Return, Goto, WatermarkTrails
  <2> QED BY <2>3, <2>4
<1>12. ASSUME NEW o \in Operator, NEW ok \in BOOLEAN, CloseFailure(o, ok) PROVE Inv'
  <2> DEFINE e == [type |-> "failure", id |-> call[o].id, revision |-> effective]
  <2>1. pc[o] = "failing" /\ pc[o] \in Inside /\ pc[o] \in Bodied
    BY <1>12 DEF CloseFailure, Bodied, Inside, PC
  <2>2. e \in Event
    BY <1>0, <1>w, <2>1, CallFacts DEF Event
  <2>3. CASE ok
    <3>1. Follows(e)
      BY <2>1 DEF Inv, DecisionInv, Follows
    <3>2. Record(e) /\ UNCHANGED watermark
      BY <1>12, <2>3 DEF CloseFailure
    <3>3. pc'[o] = "idle" /\ \A u \in Operator \ {o} : pc'[u] = pc[u] /\ call'[u] = call[u]
      BY <1>0, <1>12 DEF CloseFailure, Return, Goto
    <3> QED BY <2>1, <2>2, <3>1, <3>2, <3>3, RecordStep
  <2>4. CASE ~ok
    BY <1>0, <1>w, <1>12, <2>4, QuietStep DEF CloseFailure, Return, Goto, WatermarkTrails
  <2> QED BY <2>3, <2>4
<1>13. ASSUME NEW o \in Operator, Publish(o) PROVE Inv'
  <2>1. call[o].body.expected + 1 = effective
    BY <1>13 DEF Publish, Inv, RevisionInv
  <2> QED BY <1>0, <1>w, <1>13, <2>1, QuietStep DEF Publish, Advance, Return, Goto, WatermarkTrails
<1>14. CASE Crash
  BY <1>0, <1>w, <1>14, QuietStep DEF Crash, WatermarkTrails
<1>15. CASE UNCHANGED vars
  BY <1>0, <1>w, <1>15, QuietStep DEF vars, WatermarkTrails
<1> QED BY <1>1, <1>2, <1>3, <1>4, <1>5, <1>6, <1>7, <1>8, <1>9, <1>10, <1>11, <1>12, <1>13,
           <1>14, <1>15 DEF Next, Step

LEMMA Invariance == Spec => []Inv
BY InitInv, StepInv, PTL DEF Spec

\* Whatever crashes, failed writes, retries and recoveries happen, the log holds one
\* request and at most one result per request, in that order (findRequest).
THEOREM LogStaysRecoverable == Spec => []LogRecoverable
<1>1. Inv => LogRecoverable
  BY DEF Inv
<1> QED BY <1>1, Invariance, PTL

\* The revision watermark of the Runtime never runs ahead of the log.
THEOREM WatermarkNeverAhead == Spec => []WatermarkTrails
<1>1. Inv => WatermarkTrails
  BY DEF Inv
<1> QED BY <1>1, Invariance, PTL

-----------------------------------------------------------------------------
(* Refinement of LiveChangeOnce.                                           *)

bodyOf(q) == IF HasRequest(q) THEN Recorded(q) ELSE None

\* A step that writes no event is a stutter.
LEMMA QuietStutters ==
  ASSUME UNCHANGED <<log, effective>>
  PROVE  UNCHANGED Abstract!vars
<1>1. \A q : phaseOf(q)' = phaseOf(q)
  BY SameLog DEF phaseOf
<1>2. \A q : (IF HasRequest(q) THEN Recorded(q) ELSE None)' = (IF HasRequest(q) THEN Recorded(q) ELSE None)
  BY SameLog
<1> QED BY <1>1, <1>2 DEF Abstract!vars

\* What an event says of its request; the other requests keep their phase and body.
LEMMA RecordMaps ==
  ASSUME Inv, NEW e \in Event, Follows(e), log' = Append(log, e)
  PROVE  /\ \A q \in Request \ {e.id} : phaseOf(q)' = phaseOf(q) /\ bodyOf(q)' = bodyOf(q)
         /\ e.type = "request" => /\ phaseOf(e.id) = "none" /\ phaseOf(e.id)' = "admitted"
                                  /\ bodyOf(e.id)' = e.body
         /\ e.type # "request" =>
              /\ phaseOf(e.id) = "admitted" /\ bodyOf(e.id) = Recorded(e.id)
              /\ phaseOf(e.id)' = IF e.type = "success" THEN "applied" ELSE "failed"
              /\ bodyOf(e.id)' = bodyOf(e.id)
<1>1. log \in Seq(Event) /\ LogRecoverable
  BY DEF Inv, TypeOK
<1>2. \A q : HasSuccess(q) => HasTerminal(q)
  BY DEF HasSuccess, HasTerminal
<1>3. \A q \in Request \ {e.id} : phaseOf(q)' = phaseOf(q) /\ bodyOf(q)' = bodyOf(q)
  <2> SUFFICES ASSUME NEW q \in Request \ {e.id}
               PROVE  phaseOf(q)' = phaseOf(q) /\ bodyOf(q)' = bodyOf(q)
    OBVIOUS
  <2>1. /\ HasRequest(q)' <=> HasRequest(q)
        /\ HasTerminal(q)' <=> HasTerminal(q)
        /\ HasSuccess(q)' <=> HasSuccess(q)
    BY <1>1, KnownAfter
  <2>2. HasRequest(q) => Recorded(q)' = Recorded(q)
    BY <1>1, RecordedStays
  <2> QED BY <2>1, <2>2 DEF phaseOf, bodyOf
<1>4. /\ HasRequest(e.id)' <=> HasRequest(e.id) \/ e.type = "request"
      /\ HasTerminal(e.id)' <=> HasTerminal(e.id) \/ e.type # "request"
      /\ HasSuccess(e.id)' <=> HasSuccess(e.id) \/ e.type = "success"
  BY <1>1, KnownAfter
<1>5. CASE e.type = "request"
  <2>1. ~HasRequest(e.id) /\ ~HasTerminal(e.id) /\ ~HasSuccess(e.id)
    BY <1>1, <1>2, <1>5, TerminalHasRequest DEF Follows
  <2>2. Recorded(e.id)' = e.body
    BY <1>1, <1>5, <2>1, RecordedNew
  <2>3. phaseOf(e.id) = "none" /\ phaseOf(e.id)' = "admitted"
    BY <1>4, <1>5, <2>1 DEF phaseOf
  <2>4. bodyOf(e.id)' = e.body
    BY <1>4, <1>5, <2>2 DEF bodyOf
  <2> QED BY <1>3, <1>5, <2>3, <2>4
<1>6. CASE e.type # "request"
  <2>1. HasRequest(e.id) /\ ~HasTerminal(e.id) /\ ~HasSuccess(e.id)
    BY <1>2, <1>6 DEF Follows
  <2>2. Recorded(e.id)' = Recorded(e.id)
    BY <1>1, <2>1, RecordedStays
  <2>3. phaseOf(e.id) = "admitted" /\ phaseOf(e.id)' = IF e.type = "success" THEN "applied" ELSE "failed"
    BY <1>4, <1>6, <2>1 DEF phaseOf
  <2>4. bodyOf(e.id) = Recorded(e.id) /\ bodyOf(e.id)' = bodyOf(e.id)
    BY <1>4, <2>1, <2>2 DEF bodyOf
  <2> QED BY <1>3, <1>6, <2>3, <2>4
<1> QED BY <1>5, <1>6

LEMMA InitMaps == Init => Abstract!Init
<1> SUFFICES ASSUME Init PROVE Abstract!Init
  OBVIOUS
<1>1. \A q : ~HasRequest(q) /\ ~HasTerminal(q) /\ ~HasSuccess(q)
  BY DEF Init, HasRequest, HasTerminal, HasSuccess
<1> QED BY <1>1 DEF Init, Abstract!Init, phaseOf

\* The log, the phases and the bodies as functions on requests.
phases == [q \in Request |-> phaseOf(q)]
bodies == [q \in Request |-> IF HasRequest(q) THEN Recorded(q) ELSE None]

LEMMA StepMaps ==
  ASSUME Inv, [Next]_vars
  PROVE  [Abstract!Next]_(Abstract!vars)
<1> USE DEF history, runtime, control
<1>1. CASE UNCHANGED <<log, effective>>
  BY <1>1, QuietStutters
<1>2. ASSUME NEW o \in Operator, AppendRequest(o, TRUE) PROVE Abstract!Next
  <2> DEFINE e == [type |-> "request", id |-> call[o].id, body |-> call[o].body]
  <2>1. pc[o] = "admitting" /\ pc[o] \in Bodied
    BY <1>2 DEF AppendRequest, Bodied, Inside, PC
  <2>2. e \in Event /\ e.id \in Request /\ e.body \in Body
    BY <2>1, CallFacts DEF Event, Bodied, Inv
  <2>3. Follows(e) /\ e.body.expected = effective
    BY <2>1 DEF Inv, DecisionInv, RevisionInv, Follows
  <2>4. log' = Append(log, e) /\ effective' = effective
    BY <1>2 DEF AppendRequest, Record
  <2>5. phases[e.id] = "none"
    BY <2>2, <2>3, <2>4, RecordMaps DEF phases
  <2>6. phases' = [phases EXCEPT ![e.id] = "admitted"]
    BY <2>2, <2>3, <2>4, RecordMaps DEF phases
  <2>7. bodies' = [bodies EXCEPT ![e.id] = e.body]
    BY <2>2, <2>3, <2>4, RecordMaps DEF bodies, bodyOf
  <2>8. Abstract!Admit(e.id, e.body)
    BY <2>3, <2>4, <2>5, <2>6, <2>7 DEF Abstract!Admit, phases, bodies
  <2> QED BY <2>2, <2>8 DEF Abstract!Next
<1>3. ASSUME NEW o \in Operator, CloseSuccess(o, TRUE) PROVE Abstract!Next
  <2> DEFINE e == [type |-> "success", id |-> call[o].id, revision |-> call[o].body.expected + 1]
  <2>1. pc[o] = "succeeding" /\ pc[o] \in Bodied
    BY <1>3 DEF CloseSuccess, Bodied, Inside, PC
  <2>2. e \in Event /\ e.id \in Request
    BY <2>1, CallFacts DEF Event, Bodied, Inv
  <2>3. Follows(e) /\ Recorded(e.id).expected = effective /\ e.revision = effective + 1
    BY <2>1 DEF Inv, DecisionInv, RevisionInv, Follows
  <2>4. log' = Append(log, e) /\ effective' = effective + 1
    BY <1>3, <2>3 DEF CloseSuccess, Record
  <2>5. phases[e.id] = "admitted" /\ bodies[e.id].expected = effective
    BY <2>2, <2>3, <2>4, RecordMaps DEF phases, bodies, bodyOf
  <2>6. phases' = [phases EXCEPT ![e.id] = "applied"]
    BY <2>2, <2>3, <2>4, RecordMaps DEF phases
  <2>7. bodies' = bodies
    BY <2>2, <2>3, <2>4, RecordMaps DEF bodies, bodyOf
  <2>8. Abstract!Apply(e.id)
    BY <2>4, <2>5, <2>6, <2>7 DEF Abstract!Apply, phases, bodies
  <2> QED BY <2>2, <2>8 DEF Abstract!Next
<1>4. ASSUME NEW o \in Operator, CloseFailure(o, TRUE) PROVE Abstract!Next
  <2> DEFINE e == [type |-> "failure", id |-> call[o].id, revision |-> effective]
  <2>1. pc[o] = "failing" /\ pc[o] \in Bodied
    BY <1>4 DEF CloseFailure, Bodied, Inside, PC
  <2>2. e \in Event /\ e.id \in Request
    BY <2>1, CallFacts DEF Event, Bodied, Inv, TypeOK
  <2>3. Follows(e)
    BY <2>1 DEF Inv, DecisionInv, Follows
  <2>4. log' = Append(log, e) /\ effective' = effective
    BY <1>4 DEF CloseFailure, Record
  <2>5. phases[e.id] = "admitted"
    BY <2>2, <2>3, <2>4, RecordMaps DEF phases
  <2>6. phases' = [phases EXCEPT ![e.id] = "failed"]
    BY <2>2, <2>3, <2>4, RecordMaps DEF phases
  <2>7. bodies' = bodies
    BY <2>2, <2>3, <2>4, RecordMaps DEF bodies, bodyOf
  <2>8. Abstract!Fail(e.id)
    BY <2>4, <2>5, <2>6, <2>7 DEF Abstract!Fail, phases, bodies
  <2> QED BY <2>2, <2>8 DEF Abstract!Next
<1>5. \/ UNCHANGED <<log, effective>>
      \/ \E o \in Operator : AppendRequest(o, TRUE) \/ CloseSuccess(o, TRUE) \/ CloseFailure(o, TRUE)
  <2>1. ASSUME NEW o \in Operator, Step(o)
        PROVE  UNCHANGED <<log, effective>> \/ AppendRequest(o, TRUE) \/ CloseSuccess(o, TRUE) \/ CloseFailure(o, TRUE)
    <3>1. ASSUME NEW ok \in BOOLEAN, AppendRequest(o, ok)
          PROVE  UNCHANGED <<log, effective>> \/ AppendRequest(o, TRUE)
      BY <3>1 DEF AppendRequest
    <3>2. ASSUME NEW ok \in BOOLEAN, CloseSuccess(o, ok)
          PROVE  UNCHANGED <<log, effective>> \/ CloseSuccess(o, TRUE)
      BY <3>2 DEF CloseSuccess
    <3>3. ASSUME NEW ok \in BOOLEAN, CloseFailure(o, ok)
          PROVE  UNCHANGED <<log, effective>> \/ CloseFailure(o, TRUE)
      BY <3>3 DEF CloseFailure
    <3>4. ASSUME \/ Reject(o) \/ Replay(o) \/ NoOp(o) \/ Admit(o) \/ Resume(o) \/ ApplyRefused(o) \/ Publish(o)
                 \/ \E ok \in BOOLEAN : Apply(o, ok)
          PROVE  UNCHANGED <<log, effective>>
      BY <3>4 DEF Reject, Replay, NoOp, Admit, Resume, ApplyRefused, Publish, Apply
    <3> QED BY <2>1, <3>1, <3>2, <3>3, <3>4 DEF Step
  <2> QED BY <2>1 DEF Next, Submit, Lock, Crash, vars
<1> QED BY <1>1, <1>2, <1>3, <1>4, <1>5

\* A live change is decided at most once, with the body and for the revision it was
\* admitted with: the coordinator implements LiveChangeOnce.
THEOREM ImplementsOnce == Spec => ImplementsLiveChangeOnce
<1>1. Spec => Abstract!Init /\ [][Abstract!Next]_(Abstract!vars)
  BY InitMaps, StepMaps, Invariance, PTL DEF Spec
<1> QED BY <1>1 DEF ImplementsLiveChangeOnce, Abstract!Spec

-----------------------------------------------------------------------------
(* What is in force is what the log says.                                  *)

\* A success event of this process about r at position i, and the last one.
SetsAt(i, r) ==
  i \in started + 1 .. Len(log) /\ log[i].type = "success" /\ Recorded(log[i].id).target = r
LastAt(i, r) == SetsAt(i, r) /\ \A j \in started + 1 .. Len(log) : SetsAt(j, r) => j <= i

\* The greatest of some integers is the only one.
LEMMA GreatestIsChosen ==
  ASSUME NEW S \in SUBSET Int, NEW i \in S, \A j \in S : j <= i
  PROVE  (CHOOSE k \in S : \A j \in S : j <= k) = i
<1> DEFINE k == CHOOSE k \in S : \A j \in S : j <= k
<1>1. k \in S /\ \A j \in S : j <= k
  OBVIOUS
<1>2. k <= i /\ i <= k /\ k \in Int /\ i \in Int
  BY <1>1
<1>3. k = i
  <2> HIDE DEF k
  <2> QED BY <1>2
<1> QED BY <1>3

\* LastSet is the authored value or that of the last success event.
LEMMA LastSetFacts ==
  ASSUME NEW r
  PROVE  /\ (\A i : ~SetsAt(i, r)) => LastSet(r) = Authored
         /\ \A i : LastAt(i, r) => LastSet(r) = Recorded(log[i].id).value
<1> DEFINE S == {i \in started + 1 .. Len(log) :
                   log[i].type = "success" /\ Recorded(log[i].id).target = r}
<1>1. S \in SUBSET Int /\ \A i : i \in S <=> SetsAt(i, r)
  BY DEF SetsAt
<1>2. \A i : LastAt(i, r) => i \in S /\ \A j \in S : j <= i
  BY <1>1 DEF LastAt
<1>3. \A i : LastAt(i, r) => (CHOOSE k \in S : \A j \in S : j <= k) = i
  <2> HIDE DEF S
  <2> QED BY <1>1, <1>2, GreatestIsChosen
<1>4. LastSet(r) = IF S = {} THEN Authored
                   ELSE Recorded(log[CHOOSE k \in S : \A j \in S : j <= k].id).value
  BY DEF LastSet
<1> HIDE DEF S
<1> QED BY <1>1, <1>2, <1>3, <1>4

\* The same of the next state.
LEMMA LastSetFactsNext ==
  ASSUME NEW r
  PROVE  /\ (\A i : ~SetsAt(i, r)') => LastSet(r)' = Authored
         /\ \A i : LastAt(i, r)' => LastSet(r)' = (Recorded(log[i].id).value)'
<1> DEFINE S == {i \in started' + 1 .. Len(log') :
                   log'[i].type = "success" /\ (Recorded(log[i].id).target)' = r}
<1>1. S \in SUBSET Int /\ \A i : i \in S <=> SetsAt(i, r)'
  BY DEF SetsAt
<1>2. \A i : LastAt(i, r)' => i \in S /\ \A j \in S : j <= i
  BY <1>1 DEF LastAt
<1>3. \A i : LastAt(i, r)' => (CHOOSE k \in S : \A j \in S : j <= k) = i
  <2> HIDE DEF S
  <2> QED BY <1>1, <1>2, GreatestIsChosen
<1>4. \A i : LastAt(i, r)' => LastSet(r)' = (Recorded(log[i].id).value)'
  <2> SUFFICES ASSUME NEW i, LastAt(i, r)' PROVE LastSet(r)' = (Recorded(log[i].id).value)'
    OBVIOUS
  <2>1. S # {} /\ (CHOOSE k \in S : \A j \in S : j <= k) = i
    BY <1>2, <1>3
  <2> QED BY <2>1 DEF LastSet, Recorded, RequestAt
<1>5. (\A i : ~SetsAt(i, r)') => LastSet(r)' = Authored
  <2> SUFFICES ASSUME \A i : ~SetsAt(i, r)' PROVE LastSet(r)' = Authored
    OBVIOUS
  <2>1. S = {}
    BY <1>1
  <2> QED BY <2>1 DEF LastSet, Recorded, RequestAt
<1> QED BY <1>4, <1>5

\* The last success event about a resource is there when there is one; what this
\* process put in force was requested; and a change that waits for its success event
\* is in force.
ForceInv ==
  /\ \A r \in Resource : (\E i : SetsAt(i, r)) => \E i : LastAt(i, r)
  /\ \A q \in unrecorded : HasRequest(q)
  /\ \A o \in Operator : pc[o] = "succeeding" =>
       capacity[call[o].body.target] = call[o].body.value

\* The success events about r, and the value of the last, stay when the log does.
LEMMA SameSets ==
  ASSUME UNCHANGED <<log, started>>, NEW r
  PROVE  /\ LastSet(r)' = LastSet(r)
         /\ \A i : SetsAt(i, r)' <=> SetsAt(i, r)
         /\ \A i : LastAt(i, r)' <=> LastAt(i, r)
<1>1. \A i : SetsAt(i, r)' <=> SetsAt(i, r)
  BY DEF SetsAt, Recorded, RequestAt
<1>2. \A i : LastAt(i, r)' <=> LastAt(i, r)
  BY DEF LastAt, SetsAt, Recorded, RequestAt
<1>3. LastSet(r)' = LastSet(r)
  BY DEF LastSet, Recorded, RequestAt
<1> QED BY <1>1, <1>2, <1>3

\* The success events about r once e is appended.
LEMMA SetsAfter ==
  ASSUME Inv, NEW e \in Event, Follows(e), log' = Append(log, e), UNCHANGED started, NEW r, NEW i
  PROVE  SetsAt(i, r)' <=> \/ SetsAt(i, r)
                           \/ /\ i = Len(log) + 1
                              /\ e.type = "success" /\ Recorded(e.id).target = r
<1>1. log \in Seq(Event) /\ LogRecoverable /\ started \in 0 .. Len(log)
  BY DEF Inv, TypeOK
<1>2. /\ DOMAIN log = 1 .. Len(log) /\ Len(log) \in Nat /\ Len(log') = Len(log) + 1
      /\ \A j \in DOMAIN log : log'[j] = log[j]
      /\ log'[Len(log) + 1] = e
  BY <1>1, AppendFacts
<1>3. CASE i \in started + 1 .. Len(log)
  <2>1. i \in DOMAIN log /\ log'[i] = log[i] /\ i \in started + 1 .. Len(log') /\ i # Len(log) + 1
    BY <1>1, <1>2, <1>3
  <2>2. CASE log[i].type # "success"
    BY <2>1, <2>2 DEF SetsAt
  <2>3. CASE log[i].type = "success"
    <3>1. PICK q : q = log[i].id
      OBVIOUS
    <3>2. HasRequest(q)
      BY <1>1, <2>1, <2>3, <3>1 DEF LogRecoverable
    <3>3. Recorded(q)' = Recorded(q)
      BY <1>1, <3>2, RecordedStays
    <3>4. Recorded(log[i].id)' = Recorded(log[i].id)
      BY <2>1, <3>1, <3>3 DEF Recorded, RequestAt
    <3> QED BY <1>3, <2>1, <2>3, <3>4 DEF SetsAt
  <2> QED BY <2>2, <2>3
<1>4. CASE i = Len(log) + 1
  <2>1. log'[i] = e /\ i \in started' + 1 .. Len(log') /\ i \notin started + 1 .. Len(log)
    BY <1>1, <1>2, <1>4
  <2>2. CASE e.type # "success"
    BY <2>1, <2>2 DEF SetsAt
  <2>3. CASE e.type = "success"
    <3>1. HasRequest(e.id)
      BY <2>3 DEF Follows
    <3>2. Recorded(e.id)' = Recorded(e.id)
      BY <1>1, <3>1, RecordedStays
    <3>3. Recorded(log[i].id)' = Recorded(e.id)
      BY <2>1, <3>2 DEF Recorded, RequestAt
    <3> QED BY <1>4, <2>1, <2>3, <3>3 DEF SetsAt
  <2> QED BY <2>2, <2>3
<1>5. CASE i \notin started + 1 .. Len(log) /\ i # Len(log) + 1
  <2>1. i \notin started' + 1 .. Len(log')
    BY <1>1, <1>2, <1>5
  <2> QED BY <1>5, <2>1 DEF SetsAt
<1> QED BY <1>3, <1>4, <1>5

\* Where the last success event about r is once e is appended.
LEMMA LastAfter ==
  ASSUME Inv, NEW e \in Event, Follows(e), log' = Append(log, e), UNCHANGED started, NEW r,
         NEW n, n = Len(log) + 1
  PROVE  /\ e.type = "success" /\ Recorded(e.id).target = r => LastAt(n, r)'
         /\ ~(e.type = "success" /\ Recorded(e.id).target = r) =>
              \A i : LastAt(i, r)' <=> LastAt(i, r)
<1>1. \A i : SetsAt(i, r)' <=> SetsAt(i, r)
                \/ (i = n /\ e.type = "success" /\ Recorded(e.id).target = r)
  BY SetsAfter
<1>2. started \in 0 .. Len(log) /\ Len(log) \in Nat /\ Len(log') = Len(log) + 1
  BY AppendFacts DEF Inv, TypeOK
<1>3. ASSUME e.type = "success" /\ Recorded(e.id).target = r PROVE LastAt(n, r)'
  <2>1. SetsAt(n, r)'
    BY <1>1, <1>3
  <2> QED BY <1>2, <2>1 DEF LastAt, SetsAt
<1>4. ASSUME ~(e.type = "success" /\ Recorded(e.id).target = r), NEW i
      PROVE  LastAt(i, r)' <=> LastAt(i, r)
  <2>1. \A j : SetsAt(j, r)' <=> SetsAt(j, r)
    BY <1>1, <1>4
  <2>2. \A j : SetsAt(j, r) => j \in started + 1 .. Len(log)
    BY DEF SetsAt
  <2> QED BY <1>2, <2>1, <2>2 DEF LastAt
<1> QED BY <1>3, <1>4

\* A step that writes event e keeps what is in force equal to what the log says.
LEMMA RecordForce ==
  ASSUME Inv, ForceInv, HistoryInForce, NEW e \in Event, Follows(e), log' = Append(log, e),
         UNCHANGED <<started, capacity>>,
         e.type # "success" => unrecorded' = unrecorded,
         e.type = "success" => /\ unrecorded' = unrecorded \ {e.id}
                               /\ capacity[Recorded(e.id).target] = Recorded(e.id).value
  PROVE  /\ HistoryInForce'
         /\ \A r \in Resource : (\E i : SetsAt(i, r)') => \E i : LastAt(i, r)'
         /\ \A q \in unrecorded' : HasRequest(q)'
<1>0. log \in Seq(Event) /\ LogRecoverable
  BY DEF Inv, TypeOK
<1>1. PICK n : n = Len(log) + 1
  OBVIOUS
<1>2. ASSUME NEW q, HasRequest(q) PROVE HasRequest(q)' /\ Recorded(q)' = Recorded(q)
  BY <1>0, <1>2, KnownAfter, RecordedStays
<1>3. ASSUME NEW r \in Resource, e.type = "success" /\ Recorded(e.id).target = r
      PROVE  LastAt(n, r)' /\ LastSet(r)' = capacity[r]
  <2>1. LastAt(n, r)'
    BY <1>1, <1>3, LastAfter
  <2>2. LastSet(r)' = (Recorded(log[n].id).value)'
    BY <2>1, LastSetFactsNext
  <2>3. log'[n] = e
    BY <1>0, <1>1, AppendFacts
  <2>4. Recorded(e.id)' = Recorded(e.id)
    BY <1>2, <1>3 DEF Follows
  <2>5. (Recorded(log[n].id).value)' = Recorded(e.id).value
    BY <2>3, <2>4 DEF Recorded, RequestAt
  <2> QED BY <1>3, <2>1, <2>2, <2>5
<1>4. ASSUME NEW r \in Resource, ~(e.type = "success" /\ Recorded(e.id).target = r)
      PROVE  /\ LastSet(r)' = LastSet(r)
             /\ (\E i : SetsAt(i, r)') => \E i : LastAt(i, r)'
  <2>1. CASE \E i : LastAt(i, r)
    <3>1. PICK i : LastAt(i, r)
      BY <2>1
    <3>2. LastAt(i, r)'
      BY <1>1, <1>4, <3>1, LastAfter
    <3>3. i \in DOMAIN log /\ log[i].type = "success"
      BY <1>0, <3>1, AppendFacts DEF LastAt, SetsAt, Inv, TypeOK
    <3>4. PICK q : q = log[i].id
      OBVIOUS
    <3>5. Recorded(q)' = Recorded(q)
      BY <1>0, <1>2, <3>3, <3>4 DEF LogRecoverable
    <3>6. log'[i] = log[i]
      BY <1>0, <3>3, AppendFacts
    <3>7. (Recorded(log[i].id).value)' = Recorded(log[i].id).value
      <4>1. (log[i].id)' = q
        BY <3>4, <3>6
      <4>2. Recorded(log[i].id)' = Recorded(q)'
        BY <4>1, Zenon DEF Recorded, RequestAt
      <4> QED BY <3>4, <3>5, <4>2, Zenon
    <3>8. LastSet(r) = Recorded(log[i].id).value
      BY <3>1, LastSetFacts
    <3>9. LastSet(r)' = (Recorded(log[i].id).value)'
      BY <3>2, LastSetFactsNext
    <3> QED BY <3>2, <3>7, <3>8, <3>9
  <2>2. CASE \A i : ~SetsAt(i, r)
    <3>1. \A i : ~SetsAt(i, r)'
      BY <1>4, <2>2, SetsAfter
    <3> QED BY <2>2, <3>1, LastSetFacts, LastSetFactsNext
  <2> QED BY <2>1, <2>2 DEF ForceInv
<1>5. \A q \in unrecorded' : HasRequest(q)' /\ Recorded(q)' = Recorded(q)
  BY <1>2 DEF ForceInv
<1>6. HistoryInForce'
  <2> SUFFICES ASSUME NEW r \in Resource, \A q \in unrecorded' : Recorded(q).target # r
               PROVE  capacity[r] = LastSet(r)'
    BY <1>5 DEF HistoryInForce
  <2>1. CASE e.type = "success" /\ Recorded(e.id).target = r
    BY <1>3, <2>1
  <2>2. CASE ~(e.type = "success" /\ Recorded(e.id).target = r)
    <3>1. \A q \in unrecorded : Recorded(q).target # r
      BY <2>2
    <3> QED BY <1>4, <2>2, <3>1 DEF HistoryInForce
  <2> QED BY <2>1, <2>2
<1> QED BY <1>3, <1>4, <1>5, <1>6

\* A step that changes neither the log nor what is in force keeps both related.
LEMMA QuietForce ==
  ASSUME ForceInv, HistoryInForce, UNCHANGED <<log, started, unrecorded, capacity>>,
         \A u \in Operator : pc'[u] = "succeeding" => pc[u] = "succeeding" /\ call'[u] = call[u]
  PROVE  HistoryInForce' /\ ForceInv'
<1>1. HistoryInForce'
  BY SameLog, SameSets DEF HistoryInForce
<1>2. \A q \in unrecorded' : HasRequest(q)'
  BY SameLog DEF ForceInv
<1>3. \A r \in Resource : (\E i : SetsAt(i, r)') => \E i : LastAt(i, r)'
  BY SameSets DEF ForceInv
<1>4. \A u \in Operator : pc'[u] = "succeeding" => capacity'[call'[u].body.target] = call'[u].body.value
  BY DEF ForceInv
<1> QED BY <1>1, <1>2, <1>3, <1>4 DEF ForceInv

LEMMA StepForce ==
  ASSUME Inv, ForceInv, HistoryInForce, [Next]_vars
  PROVE  HistoryInForce' /\ ForceInv'
<1> USE DEF history, runtime, control
<1>0. TypeOK /\ pc \in [Operator -> PC] /\ call \in [Operator -> Call \cup {None}]
  BY DEF Inv, TypeOK
<1>1. ASSUME NEW o \in Operator, NEW q \in Request, NEW b \in Body \cup {None}, Submit(o, q, b)
      PROVE HistoryInForce' /\ ForceInv'
  BY <1>0, <1>1, QuietForce DEF Submit, Goto
<1>2. ASSUME NEW o \in Operator, Lock(o) PROVE HistoryInForce' /\ ForceInv'
  BY <1>0, <1>2, QuietForce DEF Lock, Goto
<1>3. ASSUME NEW o \in Operator, Reject(o) PROVE HistoryInForce' /\ ForceInv'
  BY <1>0, <1>3, QuietForce DEF Reject, Return, Goto
<1>4. ASSUME NEW o \in Operator, Replay(o) PROVE HistoryInForce' /\ ForceInv'
  BY <1>0, <1>4, QuietForce DEF Replay, Return, Goto
<1>5. ASSUME NEW o \in Operator, NoOp(o) PROVE HistoryInForce' /\ ForceInv'
  BY <1>0, <1>5, QuietForce DEF NoOp, Return, Goto
<1>6. ASSUME NEW o \in Operator, Admit(o) PROVE HistoryInForce' /\ ForceInv'
  BY <1>0, <1>6, QuietForce DEF Admit, Goto
<1>7. ASSUME NEW o \in Operator, Resume(o) PROVE HistoryInForce' /\ ForceInv'
  BY <1>0, <1>7, QuietForce DEF Resume, Goto
<1>8. ASSUME NEW o \in Operator, NEW ok \in BOOLEAN, AppendRequest(o, ok)
      PROVE HistoryInForce' /\ ForceInv'
  <2> DEFINE e == [type |-> "request", id |-> call[o].id, body |-> call[o].body]
  <2>1. pc[o] = "admitting" /\ pc[o] \in Inside /\ pc[o] \in Bodied
    BY <1>8 DEF AppendRequest, Bodied, Inside, PC
  <2>2. CASE ok
    <3>1. e \in Event /\ Follows(e)
      BY <1>0, <2>1, CallFacts DEF Event, Inv, DecisionInv, Follows
    <3>2. log' = Append(log, e) /\ UNCHANGED <<started, capacity, unrecorded>>
      BY <1>8, <2>2 DEF AppendRequest, Record
    <3>3. \A u \in Operator : pc'[u] # "succeeding"
      BY <1>0, <1>8, <2>1, <2>2, Alone DEF AppendRequest, Goto, Inside, PC
    <3> QED BY <3>1, <3>2, <3>3, RecordForce DEF ForceInv
  <2>3. CASE ~ok
    BY <1>0, <1>8, <2>3, QuietForce DEF AppendRequest, Return, Goto
  <2> QED BY <2>2, <2>3
<1>9. ASSUME NEW o \in Operator, NEW ok \in BOOLEAN, Apply(o, ok)
      PROVE HistoryInForce' /\ ForceInv'
  <2> DEFINE q == call[o].id
             b == call[o].body
  <2>1. /\ pc[o] = "applying" /\ pc[o] \in Inside /\ pc[o] \in Bodied
        /\ HasRequest(q) /\ b = Recorded(q)
        /\ UNCHANGED <<log, started, call>> /\ unrecorded' = unrecorded \cup {q}
        /\ capacity' = [capacity EXCEPT ![b.target] = b.value]
    BY <1>9 DEF Apply, Bodied, Inside, PC, Inv, DecisionInv
  <2>2. b.target \in Resource /\ capacity \in [Resource -> Nat]
    BY <1>0, <2>1, CallFacts DEF TypeOK
  <2>3. HistoryInForce'
    <3> SUFFICES ASSUME NEW r \in Resource, \A u \in unrecorded' : Recorded(u).target # r
                 PROVE  capacity'[r] = LastSet(r)
      BY <2>1, SameLog, SameSets DEF HistoryInForce
    <3>1. r # b.target /\ \A u \in unrecorded : Recorded(u).target # r
      BY <2>1
    <3> QED BY <2>1, <2>2, <3>1 DEF HistoryInForce
  <2>4. \A u \in unrecorded' : HasRequest(u)'
    BY <2>1, SameLog DEF ForceInv
  <2>5. \A r \in Resource : (\E i : SetsAt(i, r)') => \E i : LastAt(i, r)'
    BY <2>1, SameSets DEF ForceInv
  <2>6. \A u \in Operator : pc'[u] = "succeeding" => capacity'[call'[u].body.target] = call'[u].body.value
    <3>1. \A u \in Operator \ {o} : pc'[u] = pc[u] /\ pc[u] # "succeeding"
      BY <1>0, <1>9, <2>1, Alone DEF Apply, Goto, Inside, PC
    <3> QED BY <2>1, <2>2, <3>1
  <2> QED BY <2>3, <2>4, <2>5, <2>6 DEF ForceInv
<1>10. ASSUME NEW o \in Operator, ApplyRefused(o) PROVE HistoryInForce' /\ ForceInv'
  BY <1>0, <1>10, QuietForce DEF ApplyRefused, Goto
<1>11. ASSUME NEW o \in Operator, NEW ok \in BOOLEAN, CloseSuccess(o, ok)
       PROVE HistoryInForce' /\ ForceInv'
  <2> DEFINE e == [type |-> "success", id |-> call[o].id, revision |-> call[o].body.expected + 1]
  <2>1. pc[o] = "succeeding" /\ pc[o] \in Inside /\ pc[o] \in Bodied
    BY <1>11 DEF CloseSuccess, Bodied, Inside, PC
  <2>2. CASE ok
    <3>1. e \in Event /\ Follows(e)
      BY <1>0, <2>1, CallFacts DEF Event, Inv, DecisionInv, Follows
    <3>2. log' = Append(log, e) /\ UNCHANGED <<started, capacity>> /\ unrecorded' = unrecorded \ {e.id}
      BY <1>11, <2>2 DEF CloseSuccess, Record
    <3>3. capacity[Recorded(e.id).target] = Recorded(e.id).value
      BY <2>1 DEF ForceInv, Inv, DecisionInv
    <3>4. \A u \in Operator : pc'[u] # "succeeding"
      BY <1>0, <1>11, <2>1, <2>2, Alone DEF CloseSuccess, Goto, Inside, PC
    <3> QED BY <3>1, <3>2, <3>3, <3>4, RecordForce DEF ForceInv
  <2>3. CASE ~ok
    BY <1>0, <1>11, <2>3, QuietForce DEF CloseSuccess, Return, Goto
  <2> QED BY <2>2, <2>3
<1>12. ASSUME NEW o \in Operator, NEW ok \in BOOLEAN, CloseFailure(o, ok)
       PROVE HistoryInForce' /\ ForceInv'
  <2> DEFINE e == [type |-> "failure", id |-> call[o].id, revision |-> effective]
  <2>1. pc[o] = "failing" /\ pc[o] \in Inside /\ pc[o] \in Bodied
    BY <1>12 DEF CloseFailure, Bodied, Inside, PC
  <2>2. CASE ok
    <3>1. e \in Event /\ Follows(e)
      BY <1>0, <2>1, CallFacts DEF Event, Inv, DecisionInv, Follows, TypeOK
    <3>2. log' = Append(log, e) /\ UNCHANGED <<started, capacity, unrecorded>>
      BY <1>12, <2>2 DEF CloseFailure, Record
    <3>3. \A u \in Operator : pc'[u] # "succeeding"
      BY <1>0, <1>12, <2>1, <2>2, Alone DEF CloseFailure, Return, Goto, Inside, PC
    <3> QED BY <3>1, <3>2, <3>3, RecordForce DEF ForceInv
  <2>3. CASE ~ok
    BY <1>0, <1>12, <2>3, QuietForce DEF CloseFailure, Return, Goto
  <2> QED BY <2>2, <2>3
<1>13. ASSUME NEW o \in Operator, Publish(o) PROVE HistoryInForce' /\ ForceInv'
  BY <1>0, <1>13, QuietForce DEF Publish, Return, Goto
<1>14. CASE Crash
  <2>1. \A i, r : ~SetsAt(i, r)'
    BY <1>0, <1>14 DEF Crash, SetsAt, TypeOK
  <2>2. HistoryInForce'
    BY <1>14, <2>1, LastSetFactsNext DEF Crash, HistoryInForce
  <2> QED BY <1>14, <2>1, <2>2 DEF Crash, ForceInv
<1>15. CASE UNCHANGED vars
  BY <1>15, QuietForce DEF vars
<1> QED BY <1>1, <1>2, <1>3, <1>4, <1>5, <1>6, <1>7, <1>8, <1>9, <1>10, <1>11, <1>12, <1>13,
           <1>14, <1>15 DEF Next, Step

\* For the life of a process the capacity in force is that of the last change its log
\* records as applied, except for changes that could not be recorded (closeSuccess,
\* closeFailure after applyApplication).
THEOREM InForceIsRecorded == Spec => []HistoryInForce
<1>1. Init => HistoryInForce /\ ForceInv
  <2>1. Init => \A i, r : ~SetsAt(i, r)
    BY DEF Init, SetsAt
  <2> QED BY <2>1, LastSetFacts DEF Init, HistoryInForce, ForceInv
<1>2. Inv /\ HistoryInForce /\ ForceInv /\ [Next]_vars => HistoryInForce' /\ ForceInv'
  BY StepForce
<1> QED BY <1>1, <1>2, Invariance, PTL DEF Spec
=============================================================================
