------------------------- MODULE EventTopicsProofs -------------------------
(***************************************************************************)
(* Proofs about EventTopics for any topics, events, callers and            *)
(* subscriptions, and any bounds.                                          *)
(***************************************************************************)
EXTENDS EventTopics, SequenceTheorems, TLAPS

\* One of the commits F is in t.
Holds(F, t) == \E i \in DOMAIN F : F[i].topic = t

\* The attachment a is under way and holds its source.
Links(a) == a # None /\ a.locked

\* The destinations of s in the attachments A.
To(A, s) == {d \in Topic : A[s][d] # None}

\* The commits F of caller c: each has its topic locked and goes on to the destinations of
\* that topic, and the next one is in one of them.
Chain(L, A, F, c) ==
  /\ \A i \in DOMAIN F : L[F[i].topic] = c /\ F[i].rest \subseteq To(A, F[i].topic)
  /\ \A i, j \in DOMAIN F : F[i].topic = F[j].topic => i = j
  /\ \A i \in DOMAIN F : i + 1 \in DOMAIN F => F[i + 1].topic \in To(A, F[i].topic)

FrameInv == \A c \in Caller : Chain(lock, attachments, frames[c], c)

\* A locked topic is locked by a caller that commits there or attaches it.
HolderInv == \A t \in Topic : lock[t] # None =>
  \/ Holds(frames[lock[t]], t)
  \/ lock[t] \in Linker /\ Links(attach[lock[t]]) /\ attach[lock[t]].source = t

\* What the attachment a of linker k, with the commits F, has found: with no topic left to
\* visit, the topics seen are closed under forwarding, hold the destination, and do not
\* hold the source.
Linked(a, k, L, A, F, mu) ==
  /\ a = None => F = << >>
  /\ a # None =>
       /\ mu = k
       /\ ~a.locked => F = << >> /\ a.backlog = << >>
       /\ a.locked => L[a.source] = k /\ a.todo = {} /\ ~Holds(F, a.source)
       /\ F # << >> => F[1].topic = a.dest
       /\ a.dest \in a.seen /\ a.source \notin a.seen /\ a.todo \subseteq a.seen
       /\ \A t \in a.seen \ a.todo : To(A, t) \subseteq a.seen

LinkInv == \A k \in Linker : Linked(attach[k], k, lock, attachments, frames[k], attachMu)

\* Records go from s to d now, or as soon as the attachment under way is made.
Edge(s, d) ==
  \/ attachments[s][d] # None
  \/ \E k \in Linker : Links(attach[k]) /\ attach[k].source = s /\ attach[k].dest = d

\* No record comes back to where it has been: among any topics there is one from which
\* it goes to none of them.
Acyclic == \A S \in (SUBSET Topic) \ {{}} : \E t \in S : \A d \in S : ~Edge(t, d)

\* The list q has the record e, and has nothing twice.
In(q, e)  == \E i \in DOMAIN q : q[i] = e
Unique(q) == \A i, j \in DOMAIN q : q[i] = q[j] => i = j

\* The commits F have the record e of s still to be forwarded to d.
Due(F, s, d, e) ==
  \E i \in DOMAIN F : F[i].topic = s /\ F[i].event = e /\ d \in F[i].rest

\* Whatever s accepted since it forwards to d is known there or on its way, and so is
\* what s retained when an attachment locked it.
HandoverInv ==
  /\ \A t \in Topic : Unique(entries[t])
  /\ \A s, d \in Topic : attachments[s][d] # None =>
       \A i \in DOMAIN entries[s] : i > attachments[s][d] =>
         \/ In(entries[d], entries[s][i])
         \/ \E c \in Caller : Due(frames[c], s, d, entries[s][i])
  /\ \A k \in Linker : Links(attach[k]) => LET a == attach[k] IN
       \A i \in DOMAIN entries[a.source] : i > a.start =>
         In(entries[a.dest], entries[a.source][i]) \/ In(a.backlog, entries[a.source][i])

\* The list q counts on from cur.
Counts(q, cur) == \A i \in DOMAIN q : q[i] = cur + i

\* A subscription of a topic with h records: what is ahead of its cursor counts on, up to h
\* while it is registered, and is charged to its budget; a consumer waits for the buffer
\* when it has nothing else, and whoever is to be told of the end of its topic is off it.
Intact(q, h) ==
  /\ q.pc = "waiting" => ~q.gap /\ q.catchup = << >> /\ q.inFlight = 0
  /\ q.doomed => ~q.registered
  /\ q.registered => q.kind = "open"
  /\ q.pc # "canceling" =>
       /\ Counts(q.catchup, q.cursor) /\ Counts(q.buffer, q.cursor + Len(q.catchup))
       /\ q.registered => q.cursor + Len(q.catchup) + Len(q.buffer) = h
       /\ q.pending = Len(q.catchup) + Len(q.buffer) + q.inFlight
       /\ q.pending <= Budget

LockInv == FrameInv /\ HolderInv /\ LinkInv
SubInv  == \A s \in Subscriber : sub[s] # None => Intact(sub[s], head(sub[s].topic))

-----------------------------------------------------------------------------
(* Types.                                                                  *)

TopicType ==
  /\ entries \in [Topic -> Seq(Event)]
  /\ attachments \in [Topic -> [Topic -> Nat \cup {None}]]
  /\ closed \subseteq Topic /\ closing \in BOOLEAN

CallType ==
  /\ lock \in [Topic -> Caller \cup {None}]
  /\ attachMu \in Linker \cup {None}
  /\ frames \in [Caller -> Seq(Frame)]
  /\ attach \in [Linker -> Attach \cup {None}]

SubType == sub \in [Subscriber -> Sub \cup {None}]

LEMMA TypeParts == TypeOK <=> TopicType /\ CallType /\ SubType
  BY DEF TypeOK, TopicType, CallType, SubType

\* The commits of a caller, and what forwarding to d does to the innermost one.
LEMMA FrameFacts ==
  ASSUME CallType, NEW c \in Caller
  PROVE  /\ Len(frames[c]) \in Nat /\ DOMAIN frames[c] = 1 .. Len(frames[c])
         /\ \A i \in DOMAIN frames[c] : frames[c][i] \in Frame
         /\ frames[c] # << >> => Len(frames[c]) \in DOMAIN frames[c]
<1>1. frames[c] \in Seq(Frame)
  BY DEF CallType
<1> QED BY <1>1

LEMMA ShrunkFacts ==
  ASSUME CallType, NEW c \in Caller, frames[c] # << >>, NEW d
  PROVE  /\ Shrunk(c, d) \in Seq(Frame)
         /\ Len(Shrunk(c, d)) = Len(frames[c])
         /\ \A i \in DOMAIN frames[c] :
              /\ Shrunk(c, d)[i].topic = frames[c][i].topic
              /\ Shrunk(c, d)[i].event = frames[c][i].event
              /\ Shrunk(c, d)[i].rest \subseteq frames[c][i].rest
              /\ i # Len(frames[c]) => Shrunk(c, d)[i].rest = frames[c][i].rest
              /\ i = Len(frames[c]) => Shrunk(c, d)[i].rest = frames[c][i].rest \ {d}
<1> DEFINE n == Len(frames[c])
           x == [frames[c][n] EXCEPT !.rest = @ \ {d}]
<1>1. frames[c] \in Seq(Frame) /\ n \in DOMAIN frames[c] /\ DOMAIN frames[c] = 1 .. n
  BY FrameFacts DEF CallType
<1>2. frames[c][n] \in Frame
  BY <1>1
<1>3. Shrunk(c, d) = [frames[c] EXCEPT ![n] = x]
  BY <1>1 DEF Shrunk
<1>4. /\ x \in Frame /\ x.rest = frames[c][n].rest \ {d}
      /\ x.topic = frames[c][n].topic /\ x.event = frames[c][n].event
  BY <1>2 DEF Frame
<1>5. n \in 1 .. Len(frames[c]) /\ Len(frames[c]) = n
  BY <1>1
<1> HIDE DEF n, x
<1>6. /\ Shrunk(c, d) \in Seq(Frame) /\ Len(Shrunk(c, d)) = n
      /\ \A i \in 1 .. n : Shrunk(c, d)[i] = IF i = n THEN x ELSE frames[c][i]
  <2>1. x \in Frame
    BY <1>4
  <2>2. /\ [frames[c] EXCEPT ![n] = x] \in Seq(Frame)
        /\ Len([frames[c] EXCEPT ![n] = x]) = Len(frames[c])
        /\ \A i \in 1 .. Len(frames[c]) :
             [frames[c] EXCEPT ![n] = x][i] = IF i = n THEN x ELSE frames[c][i]
    BY <1>1, <1>5, <2>1, ExceptSeq
  <2> QED BY <1>3, <1>5, <2>2
<1> QED BY <1>1, <1>4, <1>5, <1>6

\* What a subscription becomes when a record is offered to it.
LEMMA DeliverFacts ==
  ASSUME NEW q \in Sub, NEW position \in Nat
  PROVE  Deliver(q, position) \in Sub
<1>1. CASE q.pending < Budget /\ Len(q.buffer) < Limit
  <2>1. Append(q.buffer, position) \in Seq(Nat)
    BY DEF Sub
  <2>2. q.pending + 1 \in Int
    BY DEF Sub
  <2>3. ASSUME NEW x \in Seq(Nat), NEW y \in Int
        PROVE  [q EXCEPT !.buffer = x, !.pending = y] \in Sub
    BY DEF Sub
  <2>4. Deliver(q, position) = [q EXCEPT !.buffer = Append(@, position), !.pending = @ + 1]
    BY <1>1 DEF Deliver
  <2> QED BY <2>1, <2>2, <2>3, <2>4
<1>2. CASE ~(q.pending < Budget /\ Len(q.buffer) < Limit)
  BY <1>2 DEF Deliver, Sub, Kind
<1> QED BY <1>1, <1>2

LEMMA CommitType ==
  ASSUME TopicType, SubType, NEW t \in Topic, NEW e \in Event, Commit(t, e)
  PROVE  entries' \in [Topic -> Seq(Event)] /\ SubType'
<1>1. entries[t] \in Seq(Event) /\ head(t) + 1 \in Nat
  BY DEF TopicType, head
<1>2. Append(entries[t], e) \in Seq(Event)
  BY <1>1
<1>3. \A s \in Subscriber : sub[s] # None => Deliver(sub[s], head(t) + 1) \in Sub
  BY <1>1, DeliverFacts DEF SubType
<1> QED BY <1>2, <1>3 DEF Commit, TopicType, SubType

\* A commit adds one record and forgets none.
LEMMA CommitFacts ==
  ASSUME TopicType, NEW t \in Topic, NEW e \in Event, Commit(t, e)
  PROVE  /\ \A u \in Topic : u # t => entries'[u] = entries[u]
         /\ head(t) \in Nat
         /\ DOMAIN entries[t] = 1 .. head(t) /\ DOMAIN entries'[t] = 1 .. head(t) + 1
         /\ \A i \in 1 .. head(t) : entries'[t][i] = entries[t][i]
         /\ entries'[t][head(t) + 1] = e
         /\ In(entries'[t], e)
<1>1. entries[t] \in Seq(Event) /\ head(t) \in Nat /\ DOMAIN entries[t] = 1 .. head(t)
  BY DEF TopicType, head
<1>2. entries'[t] = Append(entries[t], e) /\ \A u \in Topic : u # t => entries'[u] = entries[u]
  BY DEF Commit, TopicType
<1>3. /\ DOMAIN entries'[t] = 1 .. head(t) + 1
      /\ \A i \in 1 .. head(t) : entries'[t][i] = entries[t][i]
      /\ entries'[t][head(t) + 1] = e
  BY <1>1, <1>2 DEF head
<1>4. In(entries'[t], e)
  <2>1. head(t) + 1 \in DOMAIN entries'[t]
    BY <1>1, <1>3
  <2> QED BY <1>3, <2>1 DEF In
<1> QED BY <1>1, <1>2, <1>3, <1>4

\* A new subscription begins with the retained records that fit its budget.
LEMMA CatchupFacts ==
  ASSUME NEW after \in Nat, NEW size \in Nat
  PROVE  /\ [i \in 1 .. size |-> after + i] \in Seq(Nat)
         /\ Len([i \in 1 .. size |-> after + i]) = size
         /\ \A i \in 1 .. size : [j \in 1 .. size |-> after + j][i] = after + i
  OBVIOUS

LEMMA EarliestFacts ==
  ASSUME TopicType, NEW t \in Topic
  PROVE  head(t) \in Nat /\ earliest(t) \in Nat /\ earliest(t) <= head(t) + 1
<1>1. head(t) \in Nat
  BY DEF TopicType, head
<1> QED BY <1>1, BoundAssumption DEF earliest, Smaller

LEMMA InitType == Init => TypeOK
<1> SUFFICES ASSUME Init PROVE TypeOK
  OBVIOUS
<1>1. << >> \in Seq(Event) /\ << >> \in Seq(Frame)
  OBVIOUS
<1>2. TopicType
  BY <1>1 DEF Init, TopicType
<1>3. CallType /\ SubType
  BY <1>1 DEF Init, CallType, SubType
<1> QED BY <1>2, <1>3, TypeParts

\* A commit that begins.
LEMMA NewFrame ==
  ASSUME TopicType, NEW t \in Topic, NEW e \in Event
  PROVE  [topic |-> t, rest |-> Dests(t), event |-> e] \in Frame
  BY DEF Frame, Dests

LEMMA CommitStepType ==
  ASSUME TypeOK,
         \/ \E p \in Producer, t \in Topic, e \in Event : AppendEvent(p, t, e)
         \/ \E c \in Caller : CallStep(c)
  PROVE  TypeOK'
<1>0. TopicType /\ CallType /\ SubType
  BY TypeParts
<1>1. ASSUME NEW p \in Producer, NEW t \in Topic, NEW e \in Event, AppendEvent(p, t, e)
      PROVE  TypeOK'
  <2>1. Commit(t, e)
    BY <1>1 DEF AppendEvent
  <2>2. << [topic |-> t, rest |-> Dests(t), event |-> e] >> \in Seq(Frame)
    BY <1>0, NewFrame
  <2>3. CallType'
    BY <1>0, <1>1, <2>2 DEF AppendEvent, CallType, Caller
  <2>4. TopicType' /\ SubType'
    BY <1>0, <1>1, <2>1, CommitType DEF AppendEvent, TopicType
  <2> QED BY <2>3, <2>4 DEF TypeOK, TopicType, CallType, SubType
<1>2. ASSUME NEW c \in Caller, NEW d \in Topic, Forward(c, d) PROVE TypeOK'
  <2>1. frames[c] # << >> /\ Top(c) \in Frame
    BY <1>0, <1>2, FrameFacts DEF Forward, Top
  <2>2. Top(c).event \in Event /\ Shrunk(c, d) \in Seq(Frame)
    BY <1>0, <2>1, ShrunkFacts DEF Frame
  <2>3. CASE Known(d, Top(c).event)
    BY <1>0, <1>2, <2>2, <2>3 DEF Forward, TypeOK, TopicType, CallType, SubType
  <2>4. CASE ~Known(d, Top(c).event)
    <3>1. Commit(d, Top(c).event)
      BY <1>2, <2>4 DEF Forward
    <3>2. Append(Shrunk(c, d), [topic |-> d, rest |-> Dests(d), event |-> Top(c).event])
            \in Seq(Frame)
      BY <1>0, <2>2, NewFrame, AppendProperties
    <3>3. CallType'
      BY <1>0, <1>2, <2>4, <3>2 DEF Forward, CallType
    <3>4. TopicType' /\ SubType'
      BY <1>0, <1>2, <2>2, <3>1, CommitType DEF Forward, TopicType
    <3> QED BY <3>3, <3>4 DEF TypeOK, TopicType, CallType, SubType
  <2> QED BY <2>3, <2>4
<1>3. ASSUME NEW c \in Caller, Unlock(c) PROVE TypeOK'
  <2>1. frames[c] \in Seq(Frame) /\ frames[c] # << >>
    BY <1>0, <1>3 DEF Unlock, CallType
  <2>2. SubSeq(frames[c], 1, Len(frames[c]) - 1) \in Seq(Frame)
    BY <2>1
  <2>3. CallType'
    BY <1>0, <1>3, <2>2 DEF Unlock, CallType
  <2> QED BY <1>0, <1>3, <2>3 DEF Unlock, TypeOK, TopicType, CallType, SubType, topics
<1> QED BY <1>1, <1>2, <1>3 DEF CallStep

LEMMA LinkType ==
  ASSUME TypeOK,
         \/ \E k \in Linker, s \in Topic, d \in Topic, start \in Start : BeginAttach(k, s, d, start)
         \/ \E k \in Linker : LinkStep(k)
  PROVE  TypeOK'
<1>0. TopicType /\ CallType /\ SubType /\ \A k \in Linker : k \in Caller
  BY TypeParts DEF Caller
<1>1. ASSUME NEW k \in Linker, NEW s \in Topic, NEW d \in Topic, NEW start \in Start,
             BeginAttach(k, s, d, start)
      PROVE  TypeOK'
  <2>1. start \in Nat /\ << >> \in Seq(Event)
    BY BoundAssumption
  <2>2. NewAttach(s, d, start, d) \in Attach
    BY <2>1 DEF NewAttach, Attach
  <2>3. CallType'
    BY <1>0, <1>1, <2>2 DEF BeginAttach, CallType
  <2> QED BY <1>0, <1>1, <2>3 DEF BeginAttach, TypeOK, TopicType, CallType, SubType, topics
<1>2. ASSUME NEW k \in Linker, Refuse(k) PROVE TypeOK'
  <2>1. CallType'
    BY <1>0, <1>2 DEF Refuse, CallType
  <2> QED BY <1>0, <1>2, <2>1 DEF Refuse, TypeOK, TopicType, CallType, SubType, topics
<1>3. ASSUME NEW k \in Linker, NEW t \in Topic, Visit(k, t) PROVE TypeOK'
  <2>1. CASE attach[k].source \in Dests(t)
    BY <1>2, <1>3, <2>1 DEF Visit
  <2>2. CASE attach[k].source \notin Dests(t)
    <3>1. attach[k] \in Attach /\ Dests(t) \subseteq Topic
      BY <1>0, <1>3 DEF Visit, CallType, Dests
    <3>2. ASSUME NEW x \in SUBSET Topic, NEW y \in SUBSET Topic
          PROVE  [attach[k] EXCEPT !.todo = x, !.seen = y] \in Attach
      BY <3>1 DEF Attach
    <3>3. attach' = [attach EXCEPT ![k] = [attach[k] EXCEPT
            !.todo = (attach[k].todo \ {t}) \cup (Dests(t) \ attach[k].seen),
            !.seen = attach[k].seen \cup Dests(t)]]
      BY <1>0, <1>3, <2>2, <3>1 DEF Visit, CallType, Attach
    <3>4. /\ (attach[k].todo \ {t}) \cup (Dests(t) \ attach[k].seen) \subseteq Topic
          /\ attach[k].seen \cup Dests(t) \subseteq Topic
      BY <3>1 DEF Attach
    <3>5. CallType'
      BY <1>0, <1>3, <2>2, <3>2, <3>3, <3>4 DEF Visit, CallType
    <3> QED BY <1>0, <1>3, <2>2, <3>5 DEF Visit, TypeOK, TopicType, CallType, SubType, topics
  <2> QED BY <2>1, <2>2
<1>4. ASSUME NEW k \in Linker, LockSource(k) PROVE TypeOK'
  <2> DEFINE x == SubSeq(entries[attach[k].source], attach[k].start + 1, head(attach[k].source))
  <2>1. attach[k] \in Attach
    BY <1>0, <1>4 DEF LockSource, Checked, CallType
  <2>2. attach[k].source \in Topic /\ attach[k].start \in Nat
        /\ entries[attach[k].source] \in Seq(Event)
    BY <1>0, <2>1 DEF Attach, TopicType
  <2>3. x \in Seq(Event)
    BY <2>2 DEF head
  <2>4. attach' = [attach EXCEPT ![k] = [attach[k] EXCEPT !.locked = TRUE, !.backlog = x]]
    BY <1>0, <1>4 DEF LockSource, CallType
  <2> HIDE DEF x
  <2>5. [attach[k] EXCEPT !.locked = TRUE, !.backlog = x] \in Attach
    BY <2>1, <2>3 DEF Attach
  <2>6. CallType'
    BY <1>0, <1>4, <2>2, <2>4, <2>5 DEF LockSource, CallType
  <2> QED BY <1>0, <1>4, <2>6 DEF LockSource, TypeOK, TopicType, CallType, SubType, topics
<1>5. ASSUME NEW k \in Linker, ForwardBacklog(k) PROVE TypeOK'
  <2> DEFINE d == attach[k].dest
             e == Head(attach[k].backlog)
             x == Tail(attach[k].backlog)
  <2>1. attach[k] \in Attach /\ attach[k].backlog # << >>
    BY <1>0, <1>5 DEF ForwardBacklog, CallType
  <2>2. d \in Topic /\ e \in Event /\ x \in Seq(Event)
    BY <2>1 DEF Attach
  <2>3. attach' = [attach EXCEPT ![k] = [attach[k] EXCEPT !.backlog = x]]
    BY <1>0, <1>5 DEF ForwardBacklog, CallType
  <2>4. /\ IF Known(d, e)
           THEN UNCHANGED <<entries, sub, lock, frames>>
           ELSE /\ Commit(d, e)
                /\ lock' = [lock EXCEPT ![d] = k]
                /\ frames' = [frames EXCEPT ![k] =
                     << [topic |-> d, rest |-> Dests(d), event |-> e] >>]
        /\ UNCHANGED <<attachments, closed, closing, attachMu>>
    BY <1>5 DEF ForwardBacklog
  <2> HIDE DEF d, e, x
  <2>5. [attach[k] EXCEPT !.backlog = x] \in Attach
    BY <2>1, <2>2 DEF Attach
  <2>6. attach' \in [Linker -> Attach \cup {None}]
    BY <1>0, <2>3, <2>5 DEF CallType
  <2>7. CASE Known(d, e)
    BY <1>0, <2>4, <2>6, <2>7 DEF TypeOK, TopicType, CallType, SubType
  <2>8. CASE ~Known(d, e)
    <3>1. << [topic |-> d, rest |-> Dests(d), event |-> e] >> \in Seq(Frame)
      BY <1>0, <2>2, NewFrame
    <3>2. CallType'
      BY <1>0, <2>4, <2>6, <2>8, <3>1 DEF CallType
    <3>3. TopicType' /\ SubType'
      BY <1>0, <2>2, <2>4, <2>8, CommitType DEF TopicType
    <3> QED BY <3>2, <3>3 DEF TypeOK, TopicType, CallType, SubType
  <2> QED BY <2>7, <2>8
<1>6. ASSUME NEW k \in Linker, EndAttach(k) PROVE TypeOK'
  <2>1. attach[k] \in Attach
    BY <1>0, <1>6 DEF EndAttach, CallType
  <2>2. attach[k].source \in Topic /\ attach[k].dest \in Topic /\ attach[k].start \in Nat
    BY <2>1 DEF Attach
  <2>3. TopicType'
    BY <1>0, <1>6, <2>2 DEF EndAttach, TopicType
  <2>4. CallType'
    BY <1>0, <1>6, <2>2 DEF EndAttach, CallType
  <2> QED BY <1>0, <1>6, <2>3, <2>4 DEF EndAttach, TypeOK, TopicType, CallType, SubType
<1> QED BY <1>1, <1>2, <1>3, <1>4, <1>5, <1>6 DEF LinkStep, AttachRefused

\* What the calls of a consumer make of its subscription.
LEMMA ReleaseType ==
  ASSUME NEW q \in Sub, NEW x \in Int, NEW f \in 0 .. 1, NEW b \in BOOLEAN, NEW p \in SubPC
  PROVE  [q EXCEPT !.pending = x, !.inFlight = f, !.gap = b, !.pc = p] \in Sub
  BY DEF Sub

LEMMA RetainedType ==
  ASSUME NEW q \in Sub, NEW x \in Int, NEW f \in 0 .. 1, NEW h \in Nat, NEW l \in Seq(Nat)
  PROVE  [q EXCEPT !.pending = x, !.inFlight = f, !.cursor = h, !.catchup = l] \in Sub
  BY DEF Sub

LEMMA BufferedType ==
  ASSUME NEW q \in Sub, NEW f \in 0 .. 1, NEW h \in Nat, NEW l \in Seq(Nat), NEW p \in SubPC
  PROVE  [q EXCEPT !.cursor = h, !.buffer = l, !.inFlight = f, !.pc = p] \in Sub
  BY DEF Sub

LEMMA CanceledType ==
  ASSUME NEW q \in Sub, NEW b \in BOOLEAN, NEW l \in Seq(Nat), NEW p \in SubPC
  PROVE  [q EXCEPT !.gap = b, !.catchup = l, !.pc = p] \in Sub
  BY DEF Sub

LEMMA SubStepType ==
  ASSUME TypeOK,
         \/ \E s \in Subscriber, t \in Topic, from \in From : Subscribe(s, t, from)
         \/ \E s \in Subscriber :
              NextCall(s) \/ Receive(s) \/ CancelNext(s) \/ Unregister(s) \/ CloseSub(s)
         \/ Close
         \/ \E t \in Topic : CloseTopic(t)
  PROVE  TypeOK'
<1>0. TopicType /\ CallType /\ SubType
  BY TypeParts
<1>1. ASSUME NEW s \in Subscriber, NEW t \in Topic, NEW from \in From, Subscribe(s, t, from)
      PROVE  SubType'
  <2> DEFINE gap   == earliest(t) > 1 /\ from + 1 < earliest(t)
             after == IF gap THEN earliest(t) - 1 ELSE from
             size  == Smaller(head(t) - after, Budget)
             kind  == IF size < head(t) - after THEN "backpressure"
                      ELSE IF t \in closed THEN "closed" ELSE "open"
             list  == [i \in 1 .. size |-> after + i]
  <2>1. from \in Nat /\ from <= head(t) /\ Budget \in Nat
    BY <1>1, BoundAssumption DEF Subscribe
  <2>2. after \in Nat /\ after <= head(t) /\ head(t) \in Nat
    BY <1>0, <2>1, EarliestFacts
  <2>3. size \in Nat
    BY <2>1, <2>2 DEF Smaller
  <2>4. list \in Seq(Nat)
    BY <2>2, <2>3
  <2>5. kind \in Kind
    BY DEF Kind
  <2>6. sub' = [sub EXCEPT ![s] =
           [topic |-> t, gap |-> gap, catchup |-> list,
            buffer |-> << >>, cursor |-> after, inFlight |-> 0, pending |-> size,
            kind |-> kind, registered |-> kind = "open", doomed |-> FALSE,
            pc |-> "idle"]]
    BY <1>1 DEF Subscribe
  <2>7. gap \in BOOLEAN /\ (kind = "open") \in BOOLEAN /\ << >> \in Seq(Nat)
    OBVIOUS
  <2> HIDE DEF gap, after, size, kind, list
  <2>8. [topic |-> t, gap |-> gap, catchup |-> list,
            buffer |-> << >>, cursor |-> after, inFlight |-> 0, pending |-> size,
            kind |-> kind, registered |-> kind = "open", doomed |-> FALSE,
            pc |-> "idle"] \in Sub
    BY <2>2, <2>3, <2>4, <2>5, <2>7 DEF Sub, SubPC
  <2> QED BY <1>0, <2>6, <2>8 DEF SubType
<1>2. ASSUME NEW s \in Subscriber, NextCall(s) PROVE SubType'
  <2> DEFINE p == sub[s].pending - sub[s].inFlight
  <2>0. /\ 0 \in 0 .. 1 /\ 1 \in 0 .. 1 /\ FALSE \in BOOLEAN
        /\ "idle" \in SubPC /\ "waiting" \in SubPC
    BY DEF SubPC
  <2>1. sub[s] \in Sub
    BY <1>0, <1>2 DEF NextCall, At, SubType
  <2>2. p \in Int
    BY <2>1 DEF Sub
  <2>3. CASE sub[s].gap
    <3>1. sub' = [sub EXCEPT ![s] = [sub[s] EXCEPT !.pending = p, !.inFlight = 0, !.gap = FALSE,
                                                   !.pc = "idle"]]
      BY <1>2, <2>1, <2>3 DEF NextCall, At, Sub
    <3> HIDE DEF p
    <3>2. [sub[s] EXCEPT !.pending = p, !.inFlight = 0, !.gap = FALSE, !.pc = "idle"] \in Sub
      BY <2>0, <2>1, <2>2, ReleaseType
    <3> QED BY <1>0, <3>1, <3>2 DEF SubType
  <2>4. CASE ~sub[s].gap /\ sub[s].catchup # << >>
    <3> DEFINE h == Head(sub[s].catchup)
               l == Tail(sub[s].catchup)
    <3>1. sub' = [sub EXCEPT ![s] = [sub[s] EXCEPT !.pending = p, !.inFlight = 1,
                                                   !.cursor = h, !.catchup = l]]
      BY <1>2, <2>1, <2>4 DEF NextCall, Sub
    <3>2. h \in Nat /\ l \in Seq(Nat)
      BY <2>1, <2>4 DEF Sub
    <3> HIDE DEF p, h, l
    <3>3. [sub[s] EXCEPT !.pending = p, !.inFlight = 1, !.cursor = h, !.catchup = l] \in Sub
      BY <2>0, <2>1, <2>2, <3>2, RetainedType
    <3> QED BY <1>0, <3>1, <3>3 DEF SubType
  <2>5. CASE ~sub[s].gap /\ sub[s].catchup = << >>
    <3>1. sub' = [sub EXCEPT ![s] = [sub[s] EXCEPT !.pending = p, !.inFlight = 0, !.gap = FALSE,
                                                   !.pc = "waiting"]]
      BY <1>2, <2>1, <2>5 DEF NextCall, Sub
    <3> HIDE DEF p
    <3>2. [sub[s] EXCEPT !.pending = p, !.inFlight = 0, !.gap = FALSE, !.pc = "waiting"] \in Sub
      BY <2>0, <2>1, <2>2, ReleaseType
    <3> QED BY <1>0, <3>1, <3>2 DEF SubType
  <2> QED BY <2>3, <2>4, <2>5
<1>3. ASSUME NEW s \in Subscriber, Receive(s) PROVE SubType'
  <2>1. sub[s] \in Sub
    BY <1>0, <1>3 DEF Receive, At, SubType
  <2>2. CASE sub'[s] # None
    <3> DEFINE h == Head(sub[s].buffer)
               l == Tail(sub[s].buffer)
    <3>1. sub[s].buffer # << >>
      BY <1>0, <1>3, <2>2 DEF Receive, SubType
    <3>2. sub' = [sub EXCEPT ![s] = [sub[s] EXCEPT !.cursor = h, !.buffer = l, !.inFlight = 1,
                                                   !.pc = "idle"]]
      BY <1>0, <1>3, <3>1 DEF Receive, SubType
    <3>3. h \in Nat /\ l \in Seq(Nat)
      BY <2>1, <3>1 DEF Sub
    <3>4. 1 \in 0 .. 1 /\ "idle" \in SubPC
      BY DEF SubPC
    <3> HIDE DEF h, l
    <3>5. [sub[s] EXCEPT !.cursor = h, !.buffer = l, !.inFlight = 1, !.pc = "idle"] \in Sub
      BY <2>1, <3>3, <3>4, BufferedType
    <3> QED BY <1>0, <3>2, <3>5 DEF SubType
  <2>3. CASE sub'[s] = None
    <3>1. \A r \in Subscriber : r # s => sub'[r] = sub[r]
      BY <1>0, <1>3 DEF Receive, SubType
    <3>2. sub' = [r \in Subscriber |-> sub'[r]]
      BY <1>0, <1>3 DEF Receive, SubType
    <3> QED BY <1>0, <2>3, <3>1, <3>2 DEF SubType
  <2> QED BY <2>2, <2>3
<1>4. ASSUME NEW s \in Subscriber, CancelNext(s) PROVE SubType'
  <2>1. sub[s] \in Sub
    BY <1>0, <1>4 DEF CancelNext, At, SubType
  <2>2. sub' = [sub EXCEPT ![s] = [sub[s] EXCEPT !.gap = FALSE, !.catchup = << >>,
                                                 !.pc = "canceling"]]
    BY <1>0, <1>4 DEF CancelNext, SubType
  <2>3. [sub[s] EXCEPT !.gap = FALSE, !.catchup = << >>, !.pc = "canceling"] \in Sub
    <3>1. FALSE \in BOOLEAN /\ << >> \in Seq(Nat) /\ "canceling" \in SubPC
      BY DEF SubPC
    <3> QED BY <2>1, <3>1, CanceledType
  <2> QED BY <1>0, <2>2, <2>3 DEF SubType
<1>5. ASSUME NEW s \in Subscriber, CloseSub(s) PROVE SubType'
  <2> DEFINE k == IF sub[s].kind = "open" THEN "closed" ELSE sub[s].kind
  <2>1. sub[s] \in Sub
    BY <1>0, <1>5 DEF CloseSub, SubType
  <2>2. k \in Kind
    BY <2>1 DEF Sub, Kind
  <2>3. sub' = [sub EXCEPT ![s] = [sub[s] EXCEPT !.doomed = FALSE, !.kind = k]]
    BY <1>0, <1>5 DEF CloseSub, SubType
  <2> HIDE DEF k
  <2>4. [sub[s] EXCEPT !.doomed = FALSE, !.kind = k] \in Sub
    BY <2>1, <2>2 DEF Sub
  <2> QED BY <1>0, <2>3, <2>4 DEF SubType
<1>6. ASSUME NEW s \in Subscriber, Unregister(s) PROVE SubType'
  BY <1>0, <1>6 DEF Unregister, SubType
<1>7. ASSUME NEW t \in Topic, CloseTopic(t) PROVE TopicType' /\ SubType'
  <2>1. ASSUME NEW q \in Sub PROVE [q EXCEPT !.registered = FALSE, !.doomed = TRUE] \in Sub
    BY DEF Sub
  <2>2. SubType'
    BY <1>0, <1>7, <2>1 DEF CloseTopic, SubType
  <2> QED BY <1>0, <1>7, <2>2 DEF CloseTopic, TopicType
<1>8. CASE \/ \E s \in Subscriber, t \in Topic, from \in From : Subscribe(s, t, from)
           \/ \E s \in Subscriber :
                NextCall(s) \/ Receive(s) \/ CancelNext(s) \/ Unregister(s) \/ CloseSub(s)
  <2>1. SubType'
    BY <1>1, <1>2, <1>3, <1>4, <1>5, <1>6, <1>8
  <2>2. UNCHANGED <<topics, calls>>
    BY <1>8 DEF Subscribe, NextCall, Receive, CancelNext, Unregister, CloseSub
  <2> QED BY <1>0, <2>1, <2>2 DEF TypeOK, TopicType, CallType, SubType, topics, calls
<1>9. CASE Close
  BY <1>0, <1>9 DEF Close, TypeOK, TopicType, CallType, SubType, calls
<1>10. CASE \E t \in Topic : CloseTopic(t)
  BY <1>0, <1>7, <1>10 DEF CloseTopic, TypeOK, TopicType, CallType, SubType, calls
<1> QED BY <1>8, <1>9, <1>10

LEMMA NextType == TypeOK /\ [Next]_vars => TypeOK'
<1> SUFFICES ASSUME TypeOK, [Next]_vars PROVE TypeOK'
  OBVIOUS
<1>1. CASE UNCHANGED vars
  BY <1>1 DEF TypeOK, vars, topics, calls
<1> QED BY <1>1, CommitStepType, LinkType, SubStepType DEF Next

\* Every state of a run has its types: the locks, the calls under way and what each
\* subscription holds (service.go of the Events service).
THEOREM TypeCorrect == Spec => []TypeOK
  BY InitType, NextType, PTL DEF Spec

-----------------------------------------------------------------------------
(* Locks.                                                                  *)

\* The commits of a caller, when others lock or attach; when it begins one, is through
\* with a destination, and ends one.
LEMMA ChainKept ==
  ASSUME NEW L, NEW A, NEW M, NEW B, NEW F, NEW c, Chain(L, A, F, c),
         \A i \in DOMAIN F : M[F[i].topic] = c /\ To(A, F[i].topic) \subseteq To(B, F[i].topic)
  PROVE  Chain(M, B, F, c)
  BY DEF Chain

LEMMA AppendFacts ==
  ASSUME NEW F \in Seq(Frame), NEW f \in Frame
  PROVE  /\ Len(F) \in Nat /\ DOMAIN F = 1 .. Len(F)
         /\ DOMAIN Append(F, f) = 1 .. Len(F) + 1 /\ Append(F, f) # << >>
         /\ \A i \in 1 .. Len(F) : Append(F, f)[i] = F[i] /\ F[i] \in Frame
         /\ Append(F, f)[Len(F) + 1] = f
         /\ F # << >> <=> Len(F) # 0
  OBVIOUS

LEMMA ChainPush ==
  ASSUME NEW L, NEW M, NEW A, NEW F \in Seq(Frame), NEW c, NEW f \in Frame, Chain(L, A, F, c),
         L[f.topic] # c, f.rest \subseteq To(A, f.topic),
         \A t \in Topic : M[t] = IF t = f.topic THEN c ELSE L[t],
         F # << >> => f.topic \in To(A, F[Len(F)].topic)
  PROVE  Chain(M, A, Append(F, f), c)
<1> DEFINE G == Append(F, f)
           n == Len(F)
<1>1. /\ n \in Nat /\ DOMAIN F = 1 .. n /\ DOMAIN G = 1 .. n + 1
      /\ \A i \in 1 .. n : G[i] = F[i] /\ F[i] \in Frame
      /\ G[n + 1] = f
      /\ F # << >> <=> n # 0
  BY AppendFacts
<1>2. f.topic \in Topic /\ \A i \in 1 .. n : F[i].topic \in Topic
  BY <1>1 DEF Frame
<1>3. n # 0 => f.topic \in To(A, F[n].topic)
  BY <1>1
<1> HIDE DEF G, n
<1>4. \A i \in 1 .. n : F[i].topic # f.topic
  BY <1>1 DEF Chain
<1>5. ASSUME NEW i \in 1 .. n + 1
      PROVE  M[G[i].topic] = c /\ G[i].rest \subseteq To(A, G[i].topic)
  <2>1. CASE i = n + 1
    BY <1>1, <1>2, <2>1
  <2>2. CASE i \in 1 .. n
    BY <1>1, <1>2, <1>4, <2>2 DEF Chain
  <2> QED BY <1>1, <2>1, <2>2
<1>6. ASSUME NEW i \in 1 .. n + 1, NEW j \in 1 .. n + 1, G[i].topic = G[j].topic
      PROVE  i = j
  <2>1. i \in 1 .. n \/ i = n + 1
    BY <1>1
  <2>2. j \in 1 .. n \/ j = n + 1
    BY <1>1
  <2> QED BY <1>1, <1>4, <1>6, <2>1, <2>2 DEF Chain
<1>7. ASSUME NEW i \in 1 .. n + 1, i + 1 \in 1 .. n + 1
      PROVE  G[i + 1].topic \in To(A, G[i].topic)
  <2>1. i \in 1 .. n
    BY <1>1, <1>7
  <2>2. CASE i = n
    BY <1>1, <1>3, <2>1, <2>2
  <2>3. CASE i # n
    <3>1. i + 1 \in 1 .. n
      BY <1>1, <2>1, <2>3
    <3>2. F[i + 1].topic \in To(A, F[i].topic)
      BY <1>1, <2>1, <3>1 DEF Chain
    <3> QED BY <1>1, <2>1, <3>1, <3>2
  <2> QED BY <2>2, <2>3
<1>8. DOMAIN G = 1 .. n + 1
  BY <1>1
<1>9. Chain(M, A, G, c)
  BY <1>5, <1>6, <1>7, <1>8 DEF Chain
<1> QED BY <1>9 DEF G

LEMMA ChainShrunk ==
  ASSUME CallType, NEW c \in Caller, NEW d, NEW L, NEW A, frames[c] # << >>,
         Chain(L, A, frames[c], c)
  PROVE  Chain(L, A, Shrunk(c, d), c)
<1>1. /\ Shrunk(c, d) \in Seq(Frame) /\ DOMAIN frames[c] = 1 .. Len(frames[c])
      /\ Len(Shrunk(c, d)) = Len(frames[c])
  BY ShrunkFacts, FrameFacts
<1>2. DOMAIN Shrunk(c, d) = DOMAIN frames[c]
  BY <1>1
<1>3. \A i \in DOMAIN frames[c] : /\ Shrunk(c, d)[i].topic = frames[c][i].topic
                                  /\ Shrunk(c, d)[i].rest \subseteq frames[c][i].rest
  BY ShrunkFacts
<1> QED BY <1>2, <1>3 DEF Chain

LEMMA ChainPop ==
  ASSUME NEW L, NEW M, NEW A, NEW F \in Seq(Frame), NEW c, Chain(L, A, F, c), F # << >>,
         \A t \in Topic : t # F[Len(F)].topic => M[t] = L[t]
  PROVE  Chain(M, A, SubSeq(F, 1, Len(F) - 1), c)
<1> DEFINE G == SubSeq(F, 1, Len(F) - 1)
           n == Len(F)
<1>1. /\ n \in Nat /\ n # 0 /\ n \in 1 .. n /\ DOMAIN F = 1 .. n /\ DOMAIN G = 1 .. n - 1
      /\ \A i \in 1 .. n - 1 : G[i] = F[i] /\ i \in 1 .. n /\ i # n
      /\ \A i \in 1 .. n : F[i] \in Frame
  OBVIOUS
<1>2. \A i \in 1 .. n : F[i].topic \in Topic
  BY <1>1 DEF Frame
<1>3. \A t \in Topic : t # F[n].topic => M[t] = L[t]
  OBVIOUS
<1>4. \A i \in 1 .. n - 1 : F[i].topic # F[n].topic
  BY <1>1 DEF Chain
<1> HIDE DEF G, n
<1>5. Chain(M, A, G, c)
  BY <1>1, <1>2, <1>3, <1>4 DEF Chain
<1> QED BY <1>5 DEF G

\* A step that changes no attachment under way, but for the backlog of one that holds its
\* source.
SameLinks == \A k \in Linker :
  /\ attach'[k] = None <=> attach[k] = None
  /\ attach[k] # None =>
       /\ attach'[k].source = attach[k].source /\ attach'[k].dest = attach[k].dest
       /\ attach'[k].start = attach[k].start /\ attach'[k].locked = attach[k].locked
       /\ attach'[k].todo = attach[k].todo /\ attach'[k].seen = attach[k].seen
       /\ ~attach[k].locked => attach'[k].backlog = attach[k].backlog

\* Caller c begins a commit in d, after the commits F.
Begins(c, d, F) ==
  /\ lock[d] = None
  /\ lock' = [lock EXCEPT ![d] = c]
  /\ \E f \in Frame : /\ f.topic = d /\ f.rest = Dests(d)
                      /\ frames' = [frames EXCEPT ![c] = Append(F, f)]
  /\ UNCHANGED <<attachments, attachMu>>
  /\ SameLinks

\* F are the commits of c, with as many or less destinations left.
Remains(c, F) ==
  /\ F \in Seq(Frame) /\ Len(F) = Len(frames[c]) /\ Chain(lock, attachments, F, c)
  /\ \A i \in DOMAIN frames[c] : F[i].topic = frames[c][i].topic

\* Where c may begin a commit.
MayBegin(c, d, F) ==
  /\ F # << >> => d \in To(attachments, F[Len(F)].topic)
  /\ c \in Linker => Links(attach[c]) /\ (frames[c] = << >> => d = attach[c].dest)

LEMMA BeginFrames ==
  ASSUME TypeOK, NEW c \in Caller, NEW d \in Topic, NEW F,
         Begins(c, d, F), Remains(c, F)
  PROVE  /\ \A x \in Caller : x # c => frames'[x] = frames[x]
         /\ \A x \in Caller : \A t : Holds(frames'[x], t) <=> (Holds(frames[x], t) \/ (x = c /\ t = d))
         /\ frames'[c] # << >>
         /\ frames[c] = << >> => frames'[c][1].topic = d
         /\ frames[c] # << >> => frames'[c][1].topic = frames[c][1].topic
<1>1. PICK f \in Frame : /\ f.topic = d /\ f.rest = Dests(d)
                         /\ frames' = [frames EXCEPT ![c] = Append(F, f)]
  BY DEF Begins
<1> DEFINE n == Len(F)
           G == Append(F, f)
<1>2. CallType /\ F \in Seq(Frame)
  BY TypeParts DEF Remains
<1>3. /\ n \in Nat /\ DOMAIN G = 1 .. n + 1 /\ G[n + 1] = f /\ G # << >>
      /\ \A i \in 1 .. n : G[i] = F[i]
      /\ DOMAIN F = 1 .. n
  BY <1>2, AppendFacts
<1>4. frames'[c] = G /\ \A x \in Caller : x # c => frames'[x] = frames[x]
  BY <1>1, <1>2 DEF CallType
<1>5. DOMAIN frames[c] = 1 .. n /\ (frames[c] = << >> <=> n = 0)
  BY <1>2, FrameFacts DEF Remains
<1>6. \A i \in 1 .. n : G[i].topic = frames[c][i].topic
  BY <1>3, <1>5 DEF Remains
<1> HIDE DEF G, n
<1>7. ASSUME NEW t PROVE Holds(frames'[c], t) <=> (Holds(frames[c], t) \/ t = d)
  <2>1. Holds(frames'[c], t) <=> \E i \in 1 .. n + 1 : G[i].topic = t
    BY <1>3, <1>4 DEF Holds
  <2>2. Holds(frames[c], t) <=> \E i \in 1 .. n : G[i].topic = t
    BY <1>5, <1>6 DEF Holds
  <2>3. \A i : i \in 1 .. n + 1 <=> (i \in 1 .. n \/ i = n + 1)
    BY <1>3
  <2> QED BY <1>1, <1>3, <2>1, <2>2, <2>3
<1>8. \A x \in Caller : \A t : Holds(frames'[x], t) <=> (Holds(frames[x], t) \/ (x = c /\ t = d))
  <2>1. \A x \in Caller : \A t : x # c => (Holds(frames'[x], t) <=> Holds(frames[x], t))
    BY <1>4 DEF Holds
  <2> QED BY <1>7, <2>1
<1>9. /\ n = 0 => frames'[c][1].topic = d
      /\ n # 0 => frames'[c][1].topic = frames[c][1].topic
  <2>1. n # 0 => 1 \in 1 .. n
    BY <1>3
  <2> QED BY <1>1, <1>3, <1>4, <1>6, <2>1
<1> QED BY <1>3, <1>4, <1>5, <1>8, <1>9

LEMMA LockBegin ==
  ASSUME TypeOK, LockInv, NEW c \in Caller, NEW d \in Topic, NEW F,
         Begins(c, d, F), Remains(c, F), MayBegin(c, d, F)
  PROVE  LockInv'
<1>0. TopicType /\ CallType /\ FrameInv /\ HolderInv /\ LinkInv /\ c # None
  BY TypeParts, CallerAssumption DEF LockInv
<1>1. /\ \A x \in Caller : x # c => frames'[x] = frames[x]
      /\ \A x \in Caller : \A t : Holds(frames'[x], t) <=> (Holds(frames[x], t) \/ (x = c /\ t = d))
      /\ frames'[c] # << >>
      /\ frames[c] = << >> => frames'[c][1].topic = d
      /\ frames[c] # << >> => frames'[c][1].topic = frames[c][1].topic
  BY BeginFrames
<1>2. /\ \A t \in Topic : lock'[t] = IF t = d THEN c ELSE lock[t]
      /\ lock[d] = None /\ attachMu' = attachMu /\ SameLinks
      /\ attachments' = attachments /\ \A t \in Topic : Dests(t)' = Dests(t)
  BY <1>0 DEF Begins, CallType, Dests
<1>3. FrameInv'
  <2>1. Chain(lock', attachments', frames'[c], c)
    <3>1. PICK f \in Frame : /\ f.topic = d /\ f.rest = Dests(d)
                             /\ frames' = [frames EXCEPT ![c] = Append(F, f)]
      BY DEF Begins
    <3>2. f.rest \subseteq To(attachments, d)
      BY <3>1 DEF Dests, To
    <3>3. frames'[c] = Append(F, f)
      BY <1>0, <3>1 DEF CallType
    <3>4. /\ F \in Seq(Frame) /\ Chain(lock, attachments, F, c)
          /\ F # << >> => d \in To(attachments, F[Len(F)].topic)
      BY DEF Remains, MayBegin
    <3>5. Chain(lock', attachments, Append(F, f), c)
      BY <1>0, <1>2, <3>1, <3>2, <3>4, ChainPush
    <3> QED BY <1>2, <3>3, <3>5
  <2>2. ASSUME NEW x \in Caller, x # c PROVE Chain(lock', attachments', frames'[x], x)
    <3>1. Chain(lock, attachments, frames[x], x) /\ x # None
      BY <1>0, CallerAssumption DEF FrameInv
    <3>2. \A i \in DOMAIN frames[x] : frames[x][i].topic \in Topic /\ lock[frames[x][i].topic] = x
      BY <1>0, <3>1, FrameFacts DEF Chain, Frame
    <3>3. \A i \in DOMAIN frames[x] : lock'[frames[x][i].topic] = x
      BY <1>2, <3>1, <3>2
    <3> QED BY <1>1, <1>2, <2>2, <3>1, <3>3, ChainKept
  <2> QED BY <2>1, <2>2 DEF FrameInv
<1>4. HolderInv'
  <2> SUFFICES ASSUME NEW t \in Topic, lock'[t] # None
               PROVE  \/ Holds(frames'[lock'[t]], t)
                      \/ /\ lock'[t] \in Linker /\ Links(attach'[lock'[t]])
                         /\ attach'[lock'[t]].source = t
    BY DEF HolderInv
  <2>1. CASE t = d
    BY <1>1, <1>2, <2>1
  <2>2. CASE t # d
    <3>1. lock'[t] = lock[t] /\ lock[t] \in Caller
      BY <1>0, <1>2, <2>2 DEF CallType
    <3>2. CASE Holds(frames[lock[t]], t)
      BY <1>1, <3>1, <3>2
    <3>3. CASE lock[t] \in Linker /\ Links(attach[lock[t]]) /\ attach[lock[t]].source = t
      BY <1>2, <3>1, <3>3 DEF SameLinks, Links
    <3> QED BY <1>0, <2>2, <3>1, <3>2, <3>3 DEF HolderInv
  <2> QED BY <2>1, <2>2
<1>5. LinkInv'
  <2> SUFFICES ASSUME NEW k \in Linker
               PROVE  Linked(attach'[k], k, lock', attachments', frames'[k], attachMu')
    BY DEF LinkInv
  <2>1. /\ Linked(attach[k], k, lock, attachments, frames[k], attachMu)
        /\ k \in Caller /\ k # None /\ attach[k] \in Attach \cup {None}
    BY <1>0, CallerAssumption DEF LinkInv, Caller, CallType
  <2>2. k = c => /\ Links(attach[k])
                 /\ (frames[k] = << >> => d = attach[k].dest)
    BY DEF MayBegin
  <2>3. CASE attach[k] = None
    <3>1. attach'[k] = None /\ k # c /\ frames'[k] = frames[k]
      BY <1>1, <1>2, <2>1, <2>2, <2>3 DEF SameLinks, Links
    <3> QED BY <2>1, <2>3, <3>1 DEF Linked
  <2>4. CASE attach[k] # None
    <3> DEFINE a == attach[k]
               b == attach'[k]
    <3>1. /\ b # None /\ b.source = a.source /\ b.dest = a.dest /\ b.locked = a.locked
          /\ b.todo = a.todo /\ b.seen = a.seen /\ (~a.locked => b.backlog = a.backlog)
      BY <1>2, <2>4 DEF SameLinks
    <3>2. /\ attachMu' = k
          /\ ~a.locked => frames[k] = << >> /\ a.backlog = << >>
          /\ a.locked => lock[a.source] = k /\ a.todo = {} /\ ~Holds(frames[k], a.source)
          /\ frames[k] # << >> => frames[k][1].topic = a.dest
          /\ a.dest \in a.seen /\ a.source \notin a.seen /\ a.todo \subseteq a.seen
          /\ \A t \in a.seen \ a.todo : To(attachments, t) \subseteq a.seen
      BY <1>2, <2>1, <2>4 DEF Linked
    <3>3. a.source \in Topic
      BY <2>1, <2>4 DEF Attach
    <3> HIDE DEF a, b
    <3>4. a.locked => lock'[a.source] = k /\ ~Holds(frames'[k], a.source)
      BY <1>1, <1>2, <2>1, <3>2, <3>3
    <3>5. ~a.locked => frames'[k] = << >>
      BY <1>1, <2>1, <2>2, <3>2 DEF a, Links
    <3>6. frames'[k] # << >> => frames'[k][1].topic = a.dest
      BY <1>1, <2>1, <2>2, <3>2 DEF a
    <3>7. Linked(b, k, lock', attachments', frames'[k], attachMu')
      BY <1>2, <3>1, <3>2, <3>4, <3>5, <3>6 DEF Linked
    <3> QED BY <3>7 DEF b
  <2> QED BY <2>3, <2>4
<1> QED BY <1>3, <1>4, <1>5 DEF LockInv

LEMMA LockUnlock ==
  ASSUME TypeOK, LockInv, NEW c \in Caller, Unlock(c)
  PROVE  LockInv'
<1> DEFINE F == frames[c]
           n == Len(F)
           G == SubSeq(F, 1, n - 1)
           u == F[n].topic
<1>0. TopicType /\ CallType /\ FrameInv /\ HolderInv /\ LinkInv /\ c # None
  BY TypeParts, CallerAssumption DEF LockInv
<1>1. F \in Seq(Frame) /\ F # << >>
  BY <1>0 DEF Unlock, CallType
<1>2. /\ n \in Nat /\ n \in 1 .. n /\ DOMAIN F = 1 .. n /\ DOMAIN G = 1 .. n - 1
      /\ \A i \in 1 .. n - 1 : G[i] = F[i] /\ i \in 1 .. n
      /\ \A i \in 1 .. n : i = n \/ i \in 1 .. n - 1
      /\ G # << >> => 1 \in 1 .. n - 1 /\ F # << >>
  BY <1>1
<1>3. /\ frames'[c] = G /\ \A x \in Caller : x # c => frames'[x] = frames[x]
      /\ u \in Topic /\ \A t \in Topic : lock'[t] = IF t = u THEN None ELSE lock[t]
      /\ UNCHANGED <<attachments, attachMu, attach>>
  <2>1. F[n] \in Frame
    BY <1>1, <1>2
  <2> QED BY <1>0, <2>1 DEF Unlock, Top, CallType, topics, Frame
<1>4. Chain(lock, attachments, F, c)
  BY <1>0 DEF FrameInv
<1>5. lock[u] = c
  BY <1>2, <1>4 DEF Chain
<1>6. Chain(lock', attachments', G, c)
  BY <1>1, <1>3, <1>4, ChainPop
<1> HIDE DEF G, u, n
<1>7. FrameInv'
  <2> SUFFICES ASSUME NEW x \in Caller PROVE Chain(lock', attachments', frames'[x], x)
    BY DEF FrameInv
  <2>1. CASE x = c
    BY <1>3, <1>6, <2>1
  <2>2. CASE x # c
    <3>1. Chain(lock, attachments, frames[x], x) /\ x # None
      BY <1>0, CallerAssumption DEF FrameInv
    <3>2. \A i \in DOMAIN frames[x] : frames[x][i].topic \in Topic /\ lock[frames[x][i].topic] = x
      BY <1>0, <3>1, FrameFacts DEF Chain, Frame
    <3>3. \A i \in DOMAIN frames[x] : lock'[frames[x][i].topic] = x
      BY <1>3, <1>5, <2>2, <3>2
    <3> QED BY <1>3, <2>2, <3>1, <3>3, ChainKept
  <2> QED BY <2>1, <2>2
<1>8. \A t \in Topic : t # u => (Holds(F, t) <=> Holds(G, t))
  <2> SUFFICES ASSUME NEW t \in Topic, t # u PROVE Holds(F, t) <=> Holds(G, t)
    OBVIOUS
  <2> QED BY <1>2 DEF Holds, u
<1>9. HolderInv'
  <2> SUFFICES ASSUME NEW t \in Topic, lock'[t] # None
               PROVE  \/ Holds(frames'[lock'[t]], t)
                      \/ /\ lock'[t] \in Linker /\ Links(attach'[lock'[t]])
                         /\ attach'[lock'[t]].source = t
    BY DEF HolderInv
  <2>1. t # u /\ lock'[t] = lock[t] /\ lock[t] \in Caller
    BY <1>0, <1>3 DEF CallType
  <2>2. CASE Holds(frames[lock[t]], t)
    BY <1>3, <1>8, <2>1, <2>2
  <2>3. CASE lock[t] \in Linker /\ Links(attach[lock[t]]) /\ attach[lock[t]].source = t
    BY <1>3, <2>1, <2>3
  <2> QED BY <1>0, <2>1, <2>2, <2>3 DEF HolderInv
<1>10. LinkInv'
  <2> SUFFICES ASSUME NEW k \in Linker
               PROVE  Linked(attach[k], k, lock', attachments, frames'[k], attachMu)
    BY <1>3 DEF LinkInv
  <2> DEFINE a == attach[k]
  <2>1. /\ Linked(a, k, lock, attachments, frames[k], attachMu)
        /\ k \in Caller /\ k # None /\ a \in Attach \cup {None}
    BY <1>0, CallerAssumption DEF LinkInv, Caller, CallType
  <2>2. a # None => a.source \in Topic
    BY <2>1 DEF Attach
  <2> HIDE DEF a
  <2>3. CASE k # c
    <3>1. frames'[k] = frames[k]
      BY <1>3, <2>1, <2>3
    <3>2. a # None /\ a.locked => lock'[a.source] = k
      BY <1>3, <1>5, <2>1, <2>2, <2>3 DEF Linked
    <3> QED BY <2>1, <3>1, <3>2 DEF Linked, a
  <2>4. CASE k = c
    <3>1. a # None /\ a.locked /\ ~Holds(F, a.source)
      BY <1>1, <2>1, <2>4 DEF Linked
    <3>2. a.source # u
      BY <1>2, <3>1 DEF Holds, u
    <3>3. lock'[a.source] = k /\ ~Holds(frames'[k], a.source)
      BY <1>3, <1>8, <2>1, <2>2, <2>4, <3>1, <3>2 DEF Linked
    <3>4. frames'[k] # << >> => frames'[k][1].topic = a.dest
      BY <1>2, <1>3, <2>1, <2>4, <3>1 DEF Linked
    <3> QED BY <2>1, <3>1, <3>3, <3>4 DEF Linked, a
  <2> QED BY <2>3, <2>4
<1> QED BY <1>7, <1>9, <1>10 DEF LockInv

\* Only the linker that holds attachMu has an attachment under way.
LEMMA OneLink ==
  ASSUME LinkInv, NEW k \in Linker, attach[k] # None
  PROVE  attachMu = k /\ \A j \in Linker : j # k => attach[j] = None /\ frames[j] = << >>
  BY DEF LinkInv, Linked

\* A step that neither forwards nor locks, and the attachments of locked topics stay.
LEMMA LockAttach ==
  ASSUME TypeOK, LockInv, UNCHANGED <<lock, frames>>,
         attachments' \in [Topic -> [Topic -> Nat \cup {None}]],
         \A t \in Topic : lock[t] # None => attachments'[t] = attachments[t],
         \A t \in Topic : lock[t] \in Linker /\ Links(attach[lock[t]]) =>
           attach'[lock[t]] = attach[lock[t]]
  PROVE  FrameInv' /\ HolderInv'
<1>0. CallType /\ FrameInv /\ HolderInv
  BY TypeParts DEF LockInv
<1>1. FrameInv'
  <2> SUFFICES ASSUME NEW x \in Caller PROVE Chain(lock', attachments', frames'[x], x)
    BY DEF FrameInv
  <2>1. Chain(lock, attachments, frames[x], x) /\ x # None
    BY <1>0, CallerAssumption DEF FrameInv
  <2>2. \A i \in DOMAIN frames[x] : frames[x][i].topic \in Topic /\ lock[frames[x][i].topic] = x
    BY <1>0, <2>1, FrameFacts DEF Chain, Frame
  <2>3. \A i \in DOMAIN frames[x] :
          To(attachments, frames[x][i].topic) = To(attachments', frames[x][i].topic)
    BY <2>1, <2>2 DEF To
  <2> QED BY <2>1, <2>2, <2>3, ChainKept
<1>2. HolderInv'
  BY <1>0 DEF HolderInv
<1> QED BY <1>1, <1>2

LEMMA LockBeginAttach ==
  ASSUME TypeOK, LockInv, NEW k \in Linker, NEW s \in Topic, NEW d \in Topic, NEW start \in Start,
         BeginAttach(k, s, d, start)
  PROVE  LockInv'
<1>0. TopicType /\ CallType /\ FrameInv /\ HolderInv /\ LinkInv
  BY TypeParts DEF LockInv
<1>1. /\ attach[k] = None /\ attachMu = None /\ attachMu' = k /\ s # d
      /\ attach'[k] = NewAttach(s, d, start, d)
      /\ \A j \in Linker : j # k => attach'[j] = attach[j]
      /\ UNCHANGED <<lock, frames, attachments>>
  BY <1>0 DEF BeginAttach, CallType, topics
<1>2. FrameInv' /\ HolderInv'
  BY <1>0, <1>1, LockAttach DEF Links, TopicType
<1>3. ASSUME NEW j \in Linker
      PROVE  Linked(attach'[j], j, lock', attachments', frames'[j], attachMu')
  <2>1. Linked(attach[j], j, lock, attachments, frames[j], attachMu) /\ j # None
    BY <1>0, CallerAssumption DEF LinkInv, Caller
  <2>2. attach[j] = None /\ frames[j] = << >>
    BY <1>1, <2>1 DEF Linked
  <2>3. CASE j # k
    BY <1>1, <2>2, <2>3 DEF Linked
  <2>4. CASE j = k
    <3> DEFINE a == NewAttach(s, d, start, d)
    <3>1. /\ a.source = s /\ a.dest = d /\ a.todo = {d} /\ a.seen = {d}
          /\ a.backlog = << >> /\ a.locked = FALSE
      BY DEF NewAttach
    <3>2. attach'[j] = a /\ frames'[j] = << >>
      BY <1>1, <2>2, <2>4
    <3> HIDE DEF a
    <3> QED BY <1>1, <2>4, <3>1, <3>2 DEF Linked
  <2> QED BY <2>3, <2>4
<1> QED BY <1>2, <1>3 DEF LockInv, LinkInv

LEMMA LockRefuse ==
  ASSUME TypeOK, LockInv, NEW k \in Linker, attach[k] # None, ~attach[k].locked, Refuse(k)
  PROVE  LockInv'
<1>0. TopicType /\ CallType /\ FrameInv /\ HolderInv /\ LinkInv
  BY TypeParts DEF LockInv
<1>1. /\ attach'[k] = None /\ \A j \in Linker : j # k => attach'[j] = attach[j]
      /\ UNCHANGED <<lock, frames, attachments>>
  BY <1>0 DEF Refuse, CallType, topics
<1>2. FrameInv' /\ HolderInv'
  BY <1>0, <1>1, LockAttach DEF Links, TopicType
<1>3. \A j \in Linker : attach'[j] = None /\ frames'[j] = << >>
  <2>1. frames[k] = << >>
    BY <1>0 DEF LinkInv, Linked
  <2> QED BY <1>0, <1>1, <2>1, OneLink
<1> QED BY <1>2, <1>3 DEF LockInv, LinkInv, Linked

LEMMA LockVisit ==
  ASSUME TypeOK, LockInv, NEW k \in Linker, NEW t \in Topic, Visit(k, t)
  PROVE  LockInv'
<1> DEFINE a == attach[k]
           D == Dests(t)
<1>0. TopicType /\ CallType /\ FrameInv /\ HolderInv /\ LinkInv
  BY TypeParts DEF LockInv
<1>1. a # None /\ t \in a.todo /\ ~a.locked /\ a \in Attach
  <2>1. attach[k] # None /\ t \in attach[k].todo /\ attach[k] \in Attach
    BY <1>0 DEF Visit, CallType
  <2> QED BY <1>0, <2>1 DEF LinkInv, Linked
<1>2. CASE a.source \in D
  BY <1>1, <1>2, LockRefuse DEF Visit
<1>3. CASE a.source \notin D
  <2>1. attach' = [attach EXCEPT ![k].todo = (@ \ {t}) \cup (D \ attach[k].seen),
                                 ![k].seen = @ \cup D]
    BY <1>3 DEF Visit
  <2>2. /\ attach'[k] # None
        /\ attach'[k].source = a.source /\ attach'[k].dest = a.dest
        /\ attach'[k].locked = FALSE /\ attach'[k].backlog = a.backlog
        /\ attach'[k].todo = (a.todo \ {t}) \cup (D \ a.seen)
        /\ attach'[k].seen = a.seen \cup D
    <3>1. attach'[k] = [a EXCEPT !.todo = (a.todo \ {t}) \cup (D \ a.seen),
                                 !.seen = a.seen \cup D]
      BY <1>0, <1>1, <2>1 DEF CallType, Attach
    <3>2. (a.todo \ {t}) \cup (D \ a.seen) \subseteq Topic /\ a.seen \cup D \subseteq Topic
      BY <1>1 DEF Attach, Dests
    <3>3. ASSUME NEW x \in SUBSET Topic, NEW y \in SUBSET Topic
          PROVE  [a EXCEPT !.todo = x, !.seen = y] \in Attach
      BY <1>1 DEF Attach
    <3>4. attach'[k] \in Attach
      <4> DEFINE x == (a.todo \ {t}) \cup (D \ a.seen)
                 y == a.seen \cup D
      <4>1. x \in SUBSET Topic /\ y \in SUBSET Topic
        BY <3>2
      <4>2. attach'[k] = [a EXCEPT !.todo = x, !.seen = y]
        BY <3>1
      <4> HIDE DEF x, y, a
      <4> QED BY <3>3, <4>1, <4>2
    <3>5. attach'[k] # None
      BY <3>4, NoneAssumption
    <3> HIDE DEF D
    <3> QED BY <1>1, <3>1, <3>5 DEF Attach
  <2>3. /\ \A j \in Linker : j # k => attach'[j] = attach[j]
        /\ UNCHANGED <<lock, frames, attachments, attachMu>>
    BY <1>0, <1>3 DEF Visit, CallType, topics
  <2>4. FrameInv' /\ HolderInv'
    BY <1>0, <1>1, <2>2, <2>3, LockAttach DEF Links, TopicType
  <2>5. Linked(attach[k], k, lock, attachments, frames[k], attachMu) /\ D = To(attachments, t)
    BY <1>0 DEF LinkInv, Dests, To
  <2> HIDE DEF D
  <2>6. \A u \in attach'[k].seen \ attach'[k].todo : To(attachments, u) \subseteq attach'[k].seen
    BY <1>1, <2>2, <2>5 DEF Linked
  <2>7. Linked(attach'[k], k, lock', attachments', frames'[k], attachMu')
    BY <1>1, <1>3, <2>2, <2>3, <2>5, <2>6 DEF Linked
  <2>8. ASSUME NEW j \in Linker, j # k
        PROVE  Linked(attach'[j], j, lock', attachments', frames'[j], attachMu')
    BY <1>0, <2>3, <2>8 DEF LinkInv
  <2> QED BY <2>4, <2>7, <2>8 DEF LockInv, LinkInv
<1> QED BY <1>2, <1>3

LEMMA LockLockSource ==
  ASSUME TypeOK, LockInv, NEW k \in Linker, LockSource(k)
  PROVE  LockInv'
<1> DEFINE a == attach[k]
           b == attach'[k]
           s == attach[k].source
<1>0. TopicType /\ CallType /\ FrameInv /\ HolderInv /\ LinkInv /\ k \in Caller /\ k # None
  BY TypeParts, CallerAssumption DEF LockInv, Caller
<1>1. a # None /\ a \in Attach /\ ~a.locked /\ a.todo = {} /\ lock[s] = None /\ s \in Topic
  <2>1. a # None /\ a \in Attach /\ ~a.locked /\ a.todo = {} /\ lock[s] = None
    BY <1>0 DEF LockSource, Checked, CallType
  <2> QED BY <2>1 DEF Attach
<1>2. /\ \A t \in Topic : lock'[t] = IF t = s THEN k ELSE lock[t]
      /\ \A j \in Linker : j # k => attach'[j] = attach[j]
      /\ UNCHANGED <<frames, attachments, attachMu>>
  BY <1>0 DEF LockSource, CallType, topics
<1>3. /\ b # None /\ b.source = s /\ b.dest = a.dest /\ b.locked = TRUE
      /\ b.todo = {} /\ b.seen = a.seen
  <2> DEFINE x == SubSeq(entries[a.source], a.start + 1, head(a.source))
  <2>1. a.start \in Nat /\ entries[s] \in Seq(Event)
    BY <1>0, <1>1 DEF Attach, TopicType
  <2>2. x \in Seq(Event)
    BY <2>1 DEF head
  <2>3. b = [a EXCEPT !.locked = TRUE, !.backlog = x]
    BY <1>0 DEF LockSource, CallType
  <2> HIDE DEF x, a
  <2>4. b \in Attach
    BY <1>1, <2>2, <2>3 DEF Attach
  <2>5. b # None
    BY <2>4, NoneAssumption
  <2>6. /\ b.source = a.source /\ b.dest = a.dest /\ b.locked = TRUE
        /\ b.todo = a.todo /\ b.seen = a.seen
    BY <1>1, <2>3 DEF Attach
  <2> QED BY <1>1, <2>5, <2>6 DEF a
<1> HIDE DEF s, b
<1>4. FrameInv'
  <2> SUFFICES ASSUME NEW x \in Caller PROVE Chain(lock', attachments', frames'[x], x)
    BY DEF FrameInv
  <2>1. Chain(lock, attachments, frames[x], x) /\ x # None
    BY <1>0, CallerAssumption DEF FrameInv
  <2>2. \A i \in DOMAIN frames[x] : frames[x][i].topic \in Topic /\ lock[frames[x][i].topic] = x
    BY <1>0, <2>1, FrameFacts DEF Chain, Frame
  <2>3. \A i \in DOMAIN frames[x] : lock'[frames[x][i].topic] = x
    BY <1>1, <1>2, <2>1, <2>2
  <2> QED BY <1>2, <2>1, <2>3, ChainKept
<1>5. HolderInv'
  <2> SUFFICES ASSUME NEW t \in Topic, lock'[t] # None
               PROVE  \/ Holds(frames'[lock'[t]], t)
                      \/ /\ lock'[t] \in Linker /\ Links(attach'[lock'[t]])
                         /\ attach'[lock'[t]].source = t
    BY DEF HolderInv
  <2>1. CASE t = s
    BY <1>2, <1>3, <2>1 DEF Links, b
  <2>2. CASE t # s
    <3>1. lock'[t] = lock[t]
      BY <1>2, <2>2
    <3>2. lock[t] \in Linker /\ Links(attach[lock[t]]) => lock[t] # k
      BY <1>1 DEF Links
    <3> QED BY <1>0, <1>2, <3>1, <3>2 DEF HolderInv
  <2> QED BY <2>1, <2>2
<1>6. ASSUME NEW j \in Linker
      PROVE  Linked(attach'[j], j, lock', attachments', frames'[j], attachMu')
  <2>1. Linked(attach[j], j, lock, attachments, frames[j], attachMu)
    BY <1>0 DEF LinkInv
  <2>2. CASE j # k
    <3>1. attach[j] = None /\ frames[j] = << >>
      BY <1>0, <1>1, <2>2, OneLink
    <3> QED BY <1>2, <2>2, <3>1 DEF Linked
  <2>3. CASE j = k
    <3>1. frames[k] = << >> /\ ~Holds(frames[k], s)
      BY <1>1, <2>1, <2>3 DEF Linked, Holds
    <3>2. Linked(b, k, lock', attachments', frames'[k], attachMu')
      BY <1>1, <1>2, <1>3, <2>1, <2>3, <3>1 DEF Linked, s
    <3> QED BY <2>3, <3>2 DEF b
  <2> QED BY <2>2, <2>3
<1> QED BY <1>4, <1>5, <1>6 DEF LockInv, LinkInv

LEMMA LockEndAttach ==
  ASSUME TypeOK, LockInv, NEW k \in Linker, EndAttach(k)
  PROVE  LockInv'
<1> DEFINE a == attach[k]
           s == attach[k].source
<1>0. TopicType /\ CallType /\ FrameInv /\ HolderInv /\ LinkInv /\ k \in Caller /\ k # None
  BY TypeParts, CallerAssumption DEF LockInv, Caller
<1>1. /\ a # None /\ a.locked /\ frames[k] = << >> /\ lock[s] = k
      /\ s \in Topic /\ a.dest \in Topic /\ a.start \in Nat
  <2>1. a \in Attach /\ a # None /\ a.locked /\ frames[k] = << >>
    BY <1>0 DEF EndAttach, CallType
  <2> QED BY <1>0, <2>1 DEF Attach, LinkInv, Linked
<1>2. /\ \A t \in Topic : lock'[t] = IF t = s THEN None ELSE lock[t]
      /\ attach'[k] = None /\ \A j \in Linker : j # k => attach'[j] = attach[j]
      /\ \A t \in Topic : To(attachments, t) \subseteq To(attachments', t)
      /\ UNCHANGED frames
  <2>1. /\ \A t \in Topic : lock'[t] = IF t = s THEN None ELSE lock[t]
        /\ attach'[k] = None /\ \A j \in Linker : j # k => attach'[j] = attach[j]
        /\ UNCHANGED frames
    BY <1>0, <1>1 DEF EndAttach, CallType
  <2>2. attachments' = [attachments EXCEPT ![s][a.dest] = a.start] /\ a.start # None
    BY <1>1, NoneAssumption DEF EndAttach
  <2> HIDE DEF s, a
  <2>3. \A t, d \in Topic : attachments[t][d] # None => attachments'[t][d] # None
    BY <1>0, <1>1, <2>2 DEF TopicType
  <2> QED BY <2>1, <2>3 DEF To, s
<1> HIDE DEF s, a
<1>3. FrameInv'
  <2> SUFFICES ASSUME NEW x \in Caller PROVE Chain(lock', attachments', frames'[x], x)
    BY DEF FrameInv
  <2>1. Chain(lock, attachments, frames[x], x) /\ x # None
    BY <1>0, CallerAssumption DEF FrameInv
  <2>2. \A i \in DOMAIN frames[x] : frames[x][i].topic \in Topic /\ lock[frames[x][i].topic] = x
    BY <1>0, <2>1, FrameFacts DEF Chain, Frame
  <2>3. x = k => DOMAIN frames[x] = {}
    BY <1>1
  <2>4. \A i \in DOMAIN frames[x] : lock'[frames[x][i].topic] = x
    BY <1>1, <1>2, <2>2, <2>3
  <2> QED BY <1>2, <2>1, <2>2, <2>4, ChainKept
<1>4. HolderInv'
  <2> SUFFICES ASSUME NEW t \in Topic, lock'[t] # None
               PROVE  \/ Holds(frames'[lock'[t]], t)
                      \/ /\ lock'[t] \in Linker /\ Links(attach'[lock'[t]])
                         /\ attach'[lock'[t]].source = t
    BY DEF HolderInv
  <2>1. t # s /\ lock'[t] = lock[t]
    BY <1>2
  <2>2. lock[t] # k
    BY <1>0, <1>1, <2>1 DEF HolderInv, Holds, s
  <2> QED BY <1>0, <1>2, <2>1, <2>2 DEF HolderInv
<1>5. \A j \in Linker : attach'[j] = None /\ frames'[j] = << >>
  BY <1>0, <1>1, <1>2, OneLink DEF a
<1> QED BY <1>3, <1>4, <1>5 DEF LockInv, LinkInv, Linked

LEMMA LockCloseTopic ==
  ASSUME TypeOK, LockInv, NEW t \in Topic, CloseTopic(t)
  PROVE  LockInv'
<1>0. TopicType /\ CallType /\ FrameInv /\ HolderInv /\ LinkInv
  BY TypeParts DEF LockInv
<1>1. /\ lock[t] = None /\ UNCHANGED <<lock, attachMu, frames, attach>>
      /\ attachments' = [attachments EXCEPT ![t] = [d \in Topic |-> None]]
  BY DEF CloseTopic, calls
<1>2. attachments' \in [Topic -> [Topic -> Nat \cup {None}]]
  BY <1>0, <1>1 DEF TopicType
<1>3. \A u \in Topic : u # t => attachments'[u] = attachments[u]
  BY <1>0, <1>1 DEF TopicType
<1>4. FrameInv' /\ HolderInv'
  BY <1>1, <1>2, <1>3, LockAttach
<1>5. \A u \in Topic : To(attachments', u) \subseteq To(attachments, u)
  BY <1>0, <1>1 DEF TopicType, To
<1>6. ASSUME NEW k \in Linker
      PROVE  Linked(attach'[k], k, lock', attachments', frames'[k], attachMu')
  <2>1. Linked(attach[k], k, lock, attachments, frames[k], attachMu)
    BY <1>0 DEF LinkInv
  <2>2. attach[k] # None => attach[k].seen \subseteq Topic
    BY <1>0 DEF CallType, Attach
  <2> QED BY <1>1, <1>5, <2>1, <2>2 DEF Linked
<1> QED BY <1>4, <1>6 DEF LockInv, LinkInv

\* A step that begins and ends no commit.
LEMMA LockRemain ==
  ASSUME TypeOK, LockInv, UNCHANGED <<lock, attachments, attachMu>>, SameLinks,
         \A x \in Caller : Remains(x, frames'[x])
  PROVE  LockInv'
<1>0. TopicType /\ CallType /\ FrameInv /\ HolderInv /\ LinkInv
  BY TypeParts DEF LockInv
<1>1. FrameInv'
  BY DEF FrameInv, Remains
<1>2. ASSUME NEW x \in Caller
      PROVE  /\ \A t : Holds(frames'[x], t) <=> Holds(frames[x], t)
             /\ frames'[x] = << >> <=> frames[x] = << >>
             /\ frames[x] # << >> => frames'[x][1].topic = frames[x][1].topic
  <2>1. /\ frames'[x] \in Seq(Frame) /\ frames[x] \in Seq(Frame)
        /\ Len(frames'[x]) = Len(frames[x])
        /\ \A i \in DOMAIN frames[x] : frames'[x][i].topic = frames[x][i].topic
    BY <1>0 DEF Remains, CallType
  <2>2. DOMAIN frames'[x] = DOMAIN frames[x]
    BY <2>1
  <2>3. frames'[x] = << >> <=> frames[x] = << >>
    BY <2>1
  <2>4. frames[x] # << >> => 1 \in DOMAIN frames[x]
    BY <2>1
  <2> QED BY <2>1, <2>2, <2>3, <2>4 DEF Holds
<1>3. HolderInv'
  <2> SUFFICES ASSUME NEW t \in Topic, lock'[t] # None
               PROVE  \/ Holds(frames'[lock'[t]], t)
                      \/ /\ lock'[t] \in Linker /\ Links(attach'[lock'[t]])
                         /\ attach'[lock'[t]].source = t
    BY DEF HolderInv
  <2>1. lock'[t] = lock[t] /\ lock[t] \in Caller
    BY <1>0 DEF CallType
  <2>2. CASE Holds(frames[lock[t]], t)
    BY <1>2, <2>1, <2>2
  <2>3. CASE lock[t] \in Linker /\ Links(attach[lock[t]]) /\ attach[lock[t]].source = t
    BY <2>1, <2>3 DEF SameLinks, Links
  <2> QED BY <1>0, <2>1, <2>2, <2>3 DEF HolderInv
<1>4. ASSUME NEW k \in Linker
      PROVE  Linked(attach'[k], k, lock', attachments', frames'[k], attachMu')
  <2>1. Linked(attach[k], k, lock, attachments, frames[k], attachMu) /\ k \in Caller
    BY <1>0 DEF LinkInv, Caller
  <2>2. CASE attach[k] = None
    <3>1. attach'[k] = None /\ frames'[k] = << >>
      BY <1>2, <2>1, <2>2 DEF SameLinks, Linked
    <3> QED BY <3>1 DEF Linked
  <2>3. CASE attach[k] # None
    <3> DEFINE a == attach[k]
               b == attach'[k]
    <3>1. /\ b # None /\ b.source = a.source /\ b.dest = a.dest /\ b.locked = a.locked
          /\ b.todo = a.todo /\ b.seen = a.seen /\ (~a.locked => b.backlog = a.backlog)
      BY <2>3 DEF SameLinks
    <3>2. Linked(a, k, lock, attachments, frames[k], attachMu) /\ a # None
      BY <2>1, <2>3
    <3> HIDE DEF a, b
    <3>3. Linked(b, k, lock', attachments', frames'[k], attachMu')
      BY <1>2, <2>1, <3>1, <3>2 DEF Linked
    <3> QED BY <3>3 DEF b
  <2> QED BY <2>2, <2>3
<1> QED BY <1>1, <1>3, <1>4 DEF LockInv, LinkInv

LEMMA RemainsSame ==
  ASSUME TypeOK, LockInv, NEW x \in Caller
  PROVE  Remains(x, frames[x])
  BY TypeParts DEF LockInv, FrameInv, Remains, CallType

LEMMA RemainsShrunk ==
  ASSUME TypeOK, LockInv, NEW x \in Caller, NEW d, frames[x] # << >>
  PROVE  Remains(x, Shrunk(x, d))
<1>1. CallType /\ Chain(lock, attachments, frames[x], x)
  BY TypeParts DEF LockInv, FrameInv
<1>2. /\ Shrunk(x, d) \in Seq(Frame) /\ Len(Shrunk(x, d)) = Len(frames[x])
      /\ \A i \in DOMAIN frames[x] : Shrunk(x, d)[i].topic = frames[x][i].topic
  BY <1>1, ShrunkFacts
<1>3. Chain(lock, attachments, Shrunk(x, d), x)
  BY <1>1, ChainShrunk
<1> QED BY <1>2, <1>3 DEF Remains

LEMMA LockAppend ==
  ASSUME TypeOK, LockInv, NEW p \in Producer, NEW t \in Topic, NEW e \in Event,
         AppendEvent(p, t, e)
  PROVE  LockInv'
<1> DEFINE f == [topic |-> t, rest |-> Dests(t), event |-> e]
<1>1. p \in Caller /\ p \notin Linker /\ frames[p] = << >> /\ TopicType
  BY TypeParts, CallerAssumption DEF AppendEvent, Caller
<1>2. Remains(p, << >>)
  BY <1>1, RemainsSame
<1>3. f \in Frame /\ f.topic = t /\ f.rest = Dests(t)
  BY <1>1, NewFrame
<1>4. frames' = [frames EXCEPT ![p] = Append(<< >>, f)]
  <2>1. << f >> = Append(<< >>, f)
    BY <1>3
  <2>2. frames' = [frames EXCEPT ![p] = << f >>]
    BY DEF AppendEvent
  <2> QED BY <2>1, <2>2
<1> HIDE DEF f
<1>5. Begins(p, t, << >>)
  BY <1>3, <1>4 DEF AppendEvent, Begins, SameLinks
<1>6. MayBegin(p, t, << >>)
  BY <1>1 DEF MayBegin
<1> QED BY <1>1, <1>2, <1>5, <1>6, LockBegin

LEMMA LockForward ==
  ASSUME TypeOK, LockInv, NEW c \in Caller, NEW d \in Topic, Forward(c, d)
  PROVE  LockInv'
<1> DEFINE F == Shrunk(c, d)
           e == Top(c).event
           f == [topic |-> d, rest |-> Dests(d), event |-> e]
           n == Len(frames[c])
<1>0. TopicType /\ CallType /\ frames[c] # << >>
  BY TypeParts DEF Forward
<1>1. /\ F \in Seq(Frame) /\ Len(F) = n /\ n \in DOMAIN frames[c]
      /\ F[n].topic = frames[c][n].topic
      /\ Top(c) \in Frame /\ e \in Event
  <2>1. F \in Seq(Frame) /\ Len(F) = n /\ n \in DOMAIN frames[c] /\ Top(c) \in Frame
    BY <1>0, ShrunkFacts, FrameFacts DEF Top
  <2>2. F[n].topic = frames[c][n].topic
    BY <1>0, <2>1, ShrunkFacts
  <2> QED BY <2>1, <2>2 DEF Frame
<1>2. Remains(c, F)
  BY <1>0, RemainsShrunk
<1>3. SameLinks
  BY DEF Forward, SameLinks
<1>4. CASE Known(d, e)
  <2>1. /\ frames' = [frames EXCEPT ![c] = F] /\ UNCHANGED <<lock, attachments, attachMu>>
    BY <1>4 DEF Forward
  <2> HIDE DEF F
  <2>2. \A x \in Caller : Remains(x, frames'[x])
    BY <1>0, <1>2, <2>1, RemainsSame DEF CallType
  <2> QED BY <1>3, <2>1, <2>2, LockRemain
<1>5. CASE ~Known(d, e)
  <2>1. f \in Frame /\ f.topic = d /\ f.rest = Dests(d)
    BY <1>0, <1>1, NewFrame
  <2>2. frames' = [frames EXCEPT ![c] = Append(F, f)] /\ lock[d] = None
        /\ lock' = [lock EXCEPT ![d] = c] /\ UNCHANGED <<attachments, attachMu>>
    BY <1>5 DEF Forward
  <2>3. d \in To(attachments, F[n].topic)
    <3>1. Chain(lock, attachments, frames[c], c) /\ d \in frames[c][n].rest
      BY DEF LockInv, FrameInv, Forward, Top
    <3>2. d \in To(attachments, frames[c][n].topic)
      BY <1>1, <3>1 DEF Chain
    <3> QED BY <1>1, <3>2
  <2>4. c \in Linker => Links(attach[c])
    BY <1>0 DEF LockInv, LinkInv, Linked, Links
  <2> HIDE DEF F, f, n
  <2>5. Begins(c, d, F)
    BY <1>3, <2>1, <2>2 DEF Begins
  <2>6. MayBegin(c, d, F)
    BY <1>0, <1>1, <2>3, <2>4 DEF MayBegin
  <2> QED BY <1>2, <2>5, <2>6, LockBegin
<1> QED BY <1>4, <1>5

LEMMA LockBacklog ==
  ASSUME TypeOK, LockInv, NEW k \in Linker, ForwardBacklog(k)
  PROVE  LockInv'
<1> DEFINE a == attach[k]
           d == attach[k].dest
           e == Head(attach[k].backlog)
           x == Tail(attach[k].backlog)
           f == [topic |-> d, rest |-> Dests(d), event |-> e]
<1>0. TopicType /\ CallType /\ k \in Caller /\ LinkInv
  BY TypeParts DEF Caller, LockInv
<1>1. a \in Attach /\ a # None /\ a.backlog # << >> /\ frames[k] = << >>
  BY <1>0 DEF ForwardBacklog, CallType
<1>2. d \in Topic /\ e \in Event /\ x \in Seq(Event)
  BY <1>1 DEF Attach
<1>3. attach' = [attach EXCEPT ![k] = [a EXCEPT !.backlog = x]]
  BY <1>0 DEF ForwardBacklog, CallType
<1>4. a.locked
  BY <1>0, <1>1 DEF LinkInv, Linked
<1>5. /\ IF Known(d, e)
         THEN UNCHANGED <<entries, sub, lock, frames>>
         ELSE /\ lock' = [lock EXCEPT ![d] = k]
              /\ frames' = [frames EXCEPT ![k] = << f >>]
      /\ lock[d] = None /\ UNCHANGED <<attachments, attachMu>>
  BY DEF ForwardBacklog
<1>6. SameLinks
  <2> HIDE DEF a, x
  <2>1. [a EXCEPT !.backlog = x] \in Attach
    BY <1>1, <1>2 DEF Attach
  <2>2. \A j \in Linker : j # k => attach'[j] = attach[j]
    BY <1>0, <1>3 DEF CallType
  <2>3. attach'[k] = [a EXCEPT !.backlog = x] /\ attach'[k] # None
    BY <1>0, <1>3, <2>1, NoneAssumption DEF CallType
  <2>4. /\ attach'[k].source = a.source /\ attach'[k].dest = a.dest
        /\ attach'[k].start = a.start /\ attach'[k].locked = a.locked
        /\ attach'[k].todo = a.todo /\ attach'[k].seen = a.seen
    BY <1>1, <2>3 DEF Attach
  <2> QED BY <1>1, <1>4, <2>2, <2>3, <2>4 DEF SameLinks, a
<1>7. CASE Known(d, e)
  <2>1. UNCHANGED <<lock, frames>>
    BY <1>5, <1>7
  <2> QED BY <1>5, <1>6, <2>1, RemainsSame, LockRemain
<1>8. CASE ~Known(d, e)
  <2>1. f \in Frame /\ f.topic = d /\ f.rest = Dests(d)
    BY <1>0, <1>2, NewFrame
  <2>2. frames' = [frames EXCEPT ![k] = Append(<< >>, f)]
    <3>1. << f >> = Append(<< >>, f)
      BY <2>1
    <3> QED BY <1>5, <1>8, <3>1
  <2> HIDE DEF f, d, e
  <2>3. Begins(k, d, << >>)
    BY <1>5, <1>6, <1>8, <2>1, <2>2 DEF Begins
  <2>4. MayBegin(k, d, << >>)
    BY <1>1, <1>4 DEF MayBegin, Links, d
  <2>5. Remains(k, << >>)
    BY <1>0, <1>1, RemainsSame
  <2> QED BY <1>0, <1>2, <2>3, <2>4, <2>5, LockBegin
<1> QED BY <1>7, <1>8

LEMMA LockStep ==
  ASSUME TypeOK, LockInv, [Next]_vars
  PROVE  LockInv'
<1>1. CASE UNCHANGED <<attachments, lock, attachMu, frames, attach>>
  BY <1>1 DEF LockInv, FrameInv, HolderInv, LinkInv
<1>2. CASE \E p \in Producer, t \in Topic, e \in Event : AppendEvent(p, t, e)
  BY <1>2, LockAppend
<1>3. CASE \E c \in Caller : CallStep(c)
  BY <1>3, LockUnlock, LockForward DEF CallStep
<1>4. CASE \E k \in Linker, s \in Topic, d \in Topic, start \in Start : BeginAttach(k, s, d, start)
  BY <1>4, LockBeginAttach
<1>5. CASE \E k \in Linker : LinkStep(k)
  <2> SUFFICES ASSUME NEW k \in Linker, LinkStep(k) PROVE LockInv'
    BY <1>5
  <2>1. CASE AttachRefused(k)
    BY <2>1, LockRefuse DEF AttachRefused, Checked
  <2> QED BY <2>1, LockVisit, LockLockSource, LockBacklog, LockEndAttach DEF LinkStep
<1>6. CASE \E t \in Topic : CloseTopic(t)
  BY <1>6, LockCloseTopic
<1>7. CASE \E s \in Subscriber, t \in Topic, from \in From : Subscribe(s, t, from)
  BY <1>1, <1>7 DEF Subscribe, topics, calls
<1>8. CASE \E s \in Subscriber :
             NextCall(s) \/ Receive(s) \/ CancelNext(s) \/ Unregister(s) \/ CloseSub(s)
  BY <1>1, <1>8 DEF NextCall, Receive, CancelNext, Unregister, CloseSub, topics, calls
<1>9. CASE Close
  BY <1>1, <1>9 DEF Close, calls
<1>10. CASE UNCHANGED vars
  BY <1>1, <1>10 DEF vars, topics, calls
<1> QED BY <1>2, <1>3, <1>4, <1>5, <1>6, <1>7, <1>8, <1>9, <1>10 DEF Next

LEMMA LockInit == Init => LockInv
<1> SUFFICES ASSUME Init PROVE LockInv
  OBVIOUS
<1>1. /\ \A c \in Caller : frames[c] = << >>
      /\ \A k \in Linker : attach[k] = None /\ k \in Caller
      /\ \A t \in Topic : lock[t] = None
  BY DEF Init, Caller
<1> QED BY <1>1 DEF LockInv, FrameInv, Chain, HolderInv, LinkInv, Linked

-----------------------------------------------------------------------------
(* Records never come back to a topic.                                      *)

LEMMA AcyclicInit == Init => Acyclic
<1> SUFFICES ASSUME Init PROVE Acyclic
  OBVIOUS
<1>1. \A s, d \in Topic : ~Edge(s, d)
  BY DEF Init, Edge, Links
<1> QED BY <1>1 DEF Acyclic

LEMMA AcyclicKept ==
  ASSUME Acyclic, \A s, d \in Topic : Edge(s, d)' => Edge(s, d)
  PROVE  Acyclic'
<1> SUFFICES ASSUME NEW S \in (SUBSET Topic) \ {{}}
             PROVE  \E t \in S : \A d \in S : ~Edge(t, d)'
  BY DEF Acyclic
<1>1. PICK t \in S : \A d \in S : ~Edge(t, d)
  BY DEF Acyclic
<1> QED BY <1>1

\* The attachment that the source waits for closes no circle: the topics it has seen hold
\* the destination, and nothing goes on from them but to them.
LEMMA AcyclicLockSource ==
  ASSUME TypeOK, LockInv, Acyclic, NEW k \in Linker, LockSource(k)
  PROVE  Acyclic'
<1> DEFINE a == attach[k]
<1>0. CallType /\ LinkInv
  BY TypeParts DEF LockInv
<1>1. a # None /\ a \in Attach /\ ~a.locked /\ a.todo = {}
  BY <1>0 DEF LockSource, Checked, CallType
<1>2. /\ a.seen \subseteq Topic /\ a.dest \in a.seen /\ a.source \notin a.seen
      /\ \A t \in a.seen : To(attachments, t) \subseteq a.seen
  BY <1>0, <1>1 DEF LinkInv, Linked, Attach
<1>3. \A j \in Linker : j # k => attach[j] = None
  BY <1>0, <1>1, OneLink
<1>4. /\ attach'[k].source = a.source /\ attach'[k].dest = a.dest
      /\ \A j \in Linker : j # k => attach'[j] = attach[j]
      /\ attachments' = attachments
  BY <1>0, <1>1 DEF LockSource, CallType, Attach, topics
<1> HIDE DEF a
<1>5. \A s, d \in Topic : Edge(s, d)' => Edge(s, d) \/ (s = a.source /\ d = a.dest)
  BY <1>3, <1>4 DEF Edge, Links
<1>6. \A s \in a.seen, d \in Topic : Edge(s, d) => d \in a.seen
  <2> SUFFICES ASSUME NEW s \in a.seen, NEW d \in Topic, Edge(s, d) PROVE d \in a.seen
    OBVIOUS
  <2>1. attachments[s][d] # None
    BY <1>1, <1>3 DEF Edge, Links, a
  <2> QED BY <1>2, <2>1 DEF To
<1> SUFFICES ASSUME NEW S \in (SUBSET Topic) \ {{}}
             PROVE  \E t \in S : \A d \in S : ~Edge(t, d)'
  BY DEF Acyclic
<1>7. CASE a.dest \notin S
  <2>1. PICK t \in S : \A d \in S : ~Edge(t, d)
    BY DEF Acyclic
  <2> QED BY <1>5, <1>7, <2>1
<1>8. CASE a.dest \in S
  <2>1. S \cap a.seen \in (SUBSET Topic) \ {{}}
    BY <1>2, <1>8
  <2>2. PICK t \in S \cap a.seen : \A d \in S \cap a.seen : ~Edge(t, d)
    BY <2>1 DEF Acyclic
  <2>3. \A d \in S : ~Edge(t, d)
    BY <1>6, <2>2
  <2> QED BY <1>2, <1>5, <2>2, <2>3
<1> QED BY <1>7, <1>8

LEMMA AcyclicEndAttach ==
  ASSUME TypeOK, Acyclic, NEW k \in Linker, EndAttach(k)
  PROVE  Acyclic'
<1> DEFINE a == attach[k]
           s == attach[k].source
           d == attach[k].dest
<1>0. TopicType /\ CallType
  BY TypeParts
<1>1. Links(a) /\ a \in Attach /\ attachments' = [attachments EXCEPT ![s][d] = a.start]
  BY <1>0 DEF EndAttach, Links, CallType
<1>2. s \in Topic /\ d \in Topic
  BY <1>1 DEF Attach
<1>3. attach'[k] = None /\ \A j \in Linker : j # k => attach'[j] = attach[j]
  BY <1>0 DEF EndAttach, CallType
<1>4. \A t, u \in Topic : attachments'[t][u] # None => attachments[t][u] # None \/ (t = s /\ u = d)
  <2> HIDE DEF s, d, a
  <2> QED BY <1>0, <1>1, <1>2 DEF TopicType
<1>5. \A t, u \in Topic : Edge(t, u)' => Edge(t, u)
  <2> SUFFICES ASSUME NEW t \in Topic, NEW u \in Topic, Edge(t, u)' PROVE Edge(t, u)
    OBVIOUS
  <2>1. CASE attachments'[t][u] # None
    BY <1>1, <1>4, <2>1 DEF Edge
  <2>2. CASE \E j \in Linker : /\ Links(attach'[j])
                               /\ attach'[j].source = t /\ attach'[j].dest = u
    BY <1>3, <2>2 DEF Edge, Links
  <2> QED BY <2>1, <2>2 DEF Edge
<1> QED BY <1>5, AcyclicKept

LEMMA AcyclicStep ==
  ASSUME TypeOK, LockInv, Acyclic, [Next]_vars
  PROVE  Acyclic'
<1>0. TopicType /\ CallType /\ LinkInv
  BY TypeParts DEF LockInv
<1>1. CASE UNCHANGED <<attachments, attach>>
  <2>1. \A s, d \in Topic : Edge(s, d)' => Edge(s, d)
    BY <1>1 DEF Edge
  <2> QED BY <2>1, AcyclicKept
<1>2. CASE /\ UNCHANGED attachments
           /\ \A j \in Linker : Links(attach'[j]) =>
                /\ Links(attach[j]) /\ attach'[j].source = attach[j].source
                /\ attach'[j].dest = attach[j].dest
  <2>1. \A s, d \in Topic : Edge(s, d)' => Edge(s, d)
    BY <1>2 DEF Edge
  <2> QED BY <2>1, AcyclicKept
<1>3. CASE \E p \in Producer, t \in Topic, e \in Event : AppendEvent(p, t, e)
  BY <1>1, <1>3 DEF AppendEvent
<1>4. CASE \E c \in Caller : CallStep(c)
  BY <1>1, <1>4 DEF CallStep, Forward, Unlock, topics
<1>5. CASE \E k \in Linker, s \in Topic, d \in Topic, start \in Start : BeginAttach(k, s, d, start)
  <2> SUFFICES ASSUME NEW k \in Linker, NEW s \in Topic, NEW d \in Topic, NEW start \in Start,
                      BeginAttach(k, s, d, start)
               PROVE  Acyclic'
    BY <1>5
  <2>1. /\ attach'[k] = NewAttach(s, d, start, d)
        /\ \A j \in Linker : j # k => attach'[j] = attach[j]
        /\ UNCHANGED attachments
    BY <1>0 DEF BeginAttach, CallType, topics
  <2>2. ~Links(attach'[k])
    BY <2>1 DEF Links, NewAttach
  <2> QED BY <1>2, <2>1, <2>2
<1>6. CASE \E k \in Linker : LinkStep(k)
  <2> SUFFICES ASSUME NEW k \in Linker, LinkStep(k) PROVE Acyclic'
    BY <1>6
  <2>1. ASSUME Refuse(k) PROVE Acyclic'
    BY <1>0, <1>2, <2>1 DEF Refuse, Links, CallType, topics
  <2>2. CASE \E t \in Topic : Visit(k, t)
    <3> SUFFICES ASSUME NEW t \in Topic, Visit(k, t), ~Refuse(k) PROVE Acyclic'
      BY <2>1, <2>2
    <3>1. attach[k] # None /\ attach[k] \in Attach /\ ~attach[k].locked
      BY <1>0 DEF Visit, CallType, LinkInv, Linked
    <3>2. /\ \A j \in Linker : j # k => attach'[j] = attach[j]
          /\ attach'[k].locked = FALSE
          /\ UNCHANGED attachments
      BY <1>0, <3>1 DEF Visit, CallType, Attach, topics
    <3> QED BY <1>2, <3>2 DEF Links
  <2>3. CASE ForwardBacklog(k)
    <3>1. /\ \A j \in Linker : j # k => attach'[j] = attach[j]
          /\ UNCHANGED attachments
      BY <1>0, <2>3 DEF ForwardBacklog, CallType
    <3>2. attach[k] # None /\ attach[k] \in Attach
      BY <1>0, <2>3 DEF ForwardBacklog, CallType
    <3>3. /\ attach'[k].locked = attach[k].locked
          /\ attach'[k].source = attach[k].source /\ attach'[k].dest = attach[k].dest
      BY <1>0, <2>3, <3>2 DEF ForwardBacklog, CallType, Attach
    <3> QED BY <1>2, <3>1, <3>2, <3>3 DEF Links
  <2> QED BY <2>1, <2>2, <2>3, AcyclicLockSource, AcyclicEndAttach DEF LinkStep, AttachRefused
<1>7. CASE \E t \in Topic : CloseTopic(t)
  <2>1. PICK t \in Topic : CloseTopic(t)
    BY <1>7
  <2>2. attachments' = [attachments EXCEPT ![t] = [d \in Topic |-> None]] /\ UNCHANGED attach
    BY <2>1 DEF CloseTopic, calls
  <2>3. \A s, d \in Topic : attachments'[s][d] # None => attachments[s][d] # None
    BY <1>0, <2>2 DEF TopicType
  <2>4. \A s, d \in Topic : Edge(s, d)' => Edge(s, d)
    BY <2>2, <2>3 DEF Edge
  <2> QED BY <2>4, AcyclicKept
<1>8. CASE \E s \in Subscriber, t \in Topic, from \in From : Subscribe(s, t, from)
  BY <1>1, <1>8 DEF Subscribe, topics, calls
<1>9. CASE \E s \in Subscriber :
             NextCall(s) \/ Receive(s) \/ CancelNext(s) \/ Unregister(s) \/ CloseSub(s)
  BY <1>1, <1>9 DEF NextCall, Receive, CancelNext, Unregister, CloseSub, topics, calls
<1>10. CASE Close
  BY <1>1, <1>10 DEF Close, calls
<1>11. CASE UNCHANGED vars
  BY <1>1, <1>11 DEF vars, topics, calls
<1> QED BY <1>3, <1>4, <1>5, <1>6, <1>7, <1>8, <1>9, <1>10, <1>11 DEF Next

\* Callers that wait for one another in a circle hold topics that lead to one another in
\* a circle: from a topic that one of them holds, its commits or its attachment lead to
\* the next topic it holds, or to the one it waits for.
LEMMA NoLockCycleFollows ==
  ASSUME TypeOK, LockInv, Acyclic
  PROVE  NoLockCycle
<1>0. CallType /\ FrameInv /\ HolderInv /\ LinkInv
  BY TypeParts DEF LockInv
<1> SUFFICES ASSUME NEW C \in (SUBSET Caller) \ {{}},
                    \A c \in C : \E d \in Wanted(c) : lock[d] \in C
             PROVE  FALSE
  BY DEF NoLockCycle
<1> DEFINE S == {t \in Topic : lock[t] \in C}
<1>1. \A c \in Caller : \A i \in DOMAIN frames[c] :
        frames[c][i].topic \in Topic /\ frames[c][i].rest \subseteq Topic
  BY <1>0, FrameFacts DEF Frame
<1>2. \A c \in Caller : Wanted(c) \subseteq Topic
  <2> SUFFICES ASSUME NEW c \in Caller PROVE Wanted(c) \subseteq Topic
    OBVIOUS
  <2>1. frames[c] # << >> => Top(c).rest \subseteq Topic
    BY <1>0, <1>1, FrameFacts DEF Top
  <2>2. c \in Linker /\ attach[c] # None => attach[c].dest \in Topic
    BY <1>0 DEF CallType, Attach
  <2> QED BY <2>1, <2>2 DEF Wanted
<1>3. S \in (SUBSET Topic) \ {{}}
  <2>1. PICK c \in C : TRUE
    OBVIOUS
  <2>2. PICK d \in Wanted(c) : lock[d] \in C
    BY <2>1
  <2> QED BY <1>2, <2>1, <2>2
<1>4. PICK t \in S : \A d \in S : ~Edge(t, d)
  BY <1>3 DEF Acyclic
<1> DEFINE c == lock[t]
<1>5. t \in Topic /\ c \in C /\ c \in Caller /\ c # None
  BY <1>4, CallerAssumption
<1>6. \A d \in Topic : lock[d] \in C => ~Edge(t, d)
  BY <1>4
<1> HIDE DEF S, c
<1>7. CASE Holds(frames[c], t)
  <2>1. PICK i \in DOMAIN frames[c] : frames[c][i].topic = t
    BY <1>7 DEF Holds
  <2>2. Chain(lock, attachments, frames[c], c)
    BY <1>0, <1>5 DEF FrameInv
  <2>3. Len(frames[c]) \in Nat /\ DOMAIN frames[c] = 1 .. Len(frames[c])
    BY <1>0, <1>5, FrameFacts
  <2>4. CASE i = Len(frames[c])
    <3>1. Wanted(c) = frames[c][i].rest
      BY <2>1, <2>3, <2>4 DEF Wanted, Top
    <3>2. PICK d \in frames[c][i].rest : lock[d] \in C
      BY <1>5, <3>1
    <3>3. d \in Topic /\ attachments[t][d] # None
      BY <2>1, <2>2, <3>2 DEF Chain, To
    <3> QED BY <1>6, <3>2, <3>3 DEF Edge
  <2>5. CASE i # Len(frames[c])
    <3> DEFINE d == frames[c][i + 1].topic
    <3>1. i + 1 \in DOMAIN frames[c]
      BY <2>1, <2>3, <2>5
    <3>2. d \in Topic /\ lock[d] = c /\ attachments[t][d] # None
      BY <2>1, <2>2, <3>1 DEF Chain, To
    <3> QED BY <1>5, <1>6, <3>2 DEF Edge
  <2> QED BY <2>4, <2>5
<1>8. CASE c \in Linker /\ Links(attach[c]) /\ attach[c].source = t
  <2> DEFINE d == attach[c].dest
  <2>1. d \in Topic /\ Edge(t, d)
    BY <1>0, <1>8 DEF Links, CallType, Attach, Edge
  <2>2. lock[d] \in C
    <3>1. CASE frames[c] = << >>
      <4>1. Wanted(c) \subseteq {d}
        BY <3>1 DEF Wanted
      <4> QED BY <1>5, <4>1
    <3>2. CASE frames[c] # << >>
      <4>1. frames[c][1].topic = d
        BY <1>0, <1>8, <3>2 DEF LinkInv, Linked, Links
      <4>2. 1 \in DOMAIN frames[c]
        BY <1>0, <1>5, <3>2, FrameFacts
      <4>3. lock[d] = c
        BY <1>0, <1>5, <4>1, <4>2 DEF FrameInv, Chain
      <4> QED BY <1>5, <4>3
    <3> QED BY <3>1, <3>2
  <2> QED BY <1>6, <2>1, <2>2
<1> QED BY <1>0, <1>5, <1>7, <1>8 DEF HolderInv, c

-----------------------------------------------------------------------------
(* Attachments hand over every record.                                      *)

\* What is due of the commits of a caller, when it begins one, is through with a
\* destination, and ends one.
LEMMA DuePush ==
  ASSUME NEW F \in Seq(Frame), NEW f \in Frame
  PROVE  /\ \A s, d, e : Due(F, s, d, e) => Due(Append(F, f), s, d, e)
         /\ \A d \in f.rest : Due(Append(F, f), f.topic, d, f.event)
<1> DEFINE G == Append(F, f)
<1>1. /\ Len(F) \in Nat /\ DOMAIN F = 1 .. Len(F) /\ DOMAIN G = 1 .. Len(F) + 1
      /\ \A i \in 1 .. Len(F) : G[i] = F[i]
      /\ G[Len(F) + 1] = f
  BY AppendFacts
<1>2. Len(F) + 1 \in DOMAIN G /\ \A i \in DOMAIN F : i \in DOMAIN G
  BY <1>1
<1> HIDE DEF G
<1>3. \A d \in f.rest : Due(G, f.topic, d, f.event)
  BY <1>1, <1>2 DEF Due
<1>4. \A s, d, e : Due(F, s, d, e) => Due(G, s, d, e)
  BY <1>1, <1>2 DEF Due
<1> QED BY <1>3, <1>4 DEF G

LEMMA DueShrunk ==
  ASSUME CallType, NEW c \in Caller, frames[c] # << >>, NEW x
  PROVE  \A s, d, e : Due(frames[c], s, d, e) =>
           Due(Shrunk(c, x), s, d, e) \/ (d = x /\ e = Top(c).event)
<1> DEFINE F == frames[c]
           G == Shrunk(c, x)
<1>1. /\ DOMAIN G = DOMAIN F
      /\ \A i \in DOMAIN F : G[i].topic = F[i].topic /\ G[i].event = F[i].event
      /\ \A i \in DOMAIN F : i # Len(F) => G[i].rest = F[i].rest
      /\ \A i \in DOMAIN F : i = Len(F) => G[i].rest = F[i].rest \ {x}
  <2>1. G \in Seq(Frame) /\ Len(G) = Len(F) /\ F \in Seq(Frame)
    BY ShrunkFacts DEF CallType
  <2>2. \A i \in DOMAIN F : G[i].topic = F[i].topic /\ G[i].event = F[i].event
    BY ShrunkFacts
  <2>3. /\ \A i \in DOMAIN F : i # Len(F) => G[i].rest = F[i].rest
        /\ \A i \in DOMAIN F : i = Len(F) => G[i].rest = F[i].rest \ {x}
    BY ShrunkFacts
  <2> HIDE DEF F, G
  <2>4. DOMAIN G = DOMAIN F
    BY <2>1
  <2> QED BY <2>2, <2>3, <2>4
<1> SUFFICES ASSUME NEW s, NEW d, NEW e, Due(F, s, d, e), ~(d = x /\ e = Top(c).event)
             PROVE  Due(G, s, d, e)
  OBVIOUS
<1>2. PICK i \in DOMAIN F : F[i].topic = s /\ F[i].event = e /\ d \in F[i].rest
  BY DEF Due
<1>3. i = Len(F) => d # x
  BY <1>2 DEF Top
<1> HIDE DEF F, G
<1>4. d \in G[i].rest
  BY <1>1, <1>2, <1>3
<1> QED BY <1>1, <1>2, <1>4 DEF Due

LEMMA DuePop ==
  ASSUME NEW F \in Seq(Frame), F # << >>, F[Len(F)].rest = {}
  PROVE  \A s, d, e : Due(F, s, d, e) => Due(SubSeq(F, 1, Len(F) - 1), s, d, e)
<1> DEFINE n == Len(F)
           G == SubSeq(F, 1, n - 1)
<1>1. /\ n \in Nat /\ DOMAIN F = 1 .. n /\ DOMAIN G = 1 .. n - 1
      /\ \A i \in 1 .. n - 1 : G[i] = F[i]
      /\ \A i \in 1 .. n : i # n => i \in 1 .. n - 1
  OBVIOUS
<1>2. F[n].rest = {}
  OBVIOUS
<1> HIDE DEF n, G
<1>3. \A s, d, e : Due(F, s, d, e) => Due(G, s, d, e)
  BY <1>1, <1>2 DEF Due
<1> QED BY <1>3 DEF G, n

\* A step that accepts records in free topics only, and owes each to the destinations.
Grown == \A u \in Topic :
  /\ \A f : In(entries[u], f) => In(entries'[u], f)
  /\ Unique(entries'[u])
  /\ \A i \in DOMAIN entries'[u] :
       \/ i \in DOMAIN entries[u] /\ entries'[u][i] = entries[u][i]
       \/ /\ lock[u] = None
          /\ \A d \in Dests(u) : \E c \in Caller : Due(frames'[c], u, d, entries'[u][i])

\* A step after which whatever was due is known or still due, to the destinations and to
\* the attachments under way.
Carried ==
  /\ \A s, d \in Topic : \A f : (\E c \in Caller : Due(frames[c], s, d, f)) =>
       In(entries'[d], f) \/ \E c \in Caller : Due(frames'[c], s, d, f)
  /\ \A k \in Linker : Links(attach'[k]) =>
       /\ Links(attach[k]) /\ attach'[k].source = attach[k].source
       /\ attach'[k].dest = attach[k].dest /\ attach'[k].start = attach[k].start
       /\ \A f : In(attach[k].backlog, f) =>
            In(attach'[k].backlog, f) \/ In(entries'[attach[k].dest], f)

LEMMA HandoverKept ==
  ASSUME TypeOK, LockInv, HandoverInv, UNCHANGED attachments, Grown, Carried
  PROVE  HandoverInv'
<1>0. TopicType /\ CallType /\ LinkInv
  BY TypeParts DEF LockInv
<1>1. ASSUME NEW s \in Topic, NEW d \in Topic, attachments[s][d] # None,
             NEW i \in DOMAIN entries'[s], i > attachments[s][d]
      PROVE  \/ In(entries'[d], entries'[s][i])
             \/ \E c \in Caller : Due(frames'[c], s, d, entries'[s][i])
  <2>1. CASE i \in DOMAIN entries[s] /\ entries'[s][i] = entries[s][i]
    <3>1. \/ In(entries[d], entries[s][i])
          \/ \E c \in Caller : Due(frames[c], s, d, entries[s][i])
      BY <1>1, <2>1 DEF HandoverInv
    <3> QED BY <2>1, <3>1 DEF Grown, Carried
  <2>2. CASE \A x \in Dests(s) : \E c \in Caller : Due(frames'[c], s, x, entries'[s][i])
    BY <1>1, <2>2 DEF Dests
  <2> QED BY <2>1, <2>2 DEF Grown
<1>2. ASSUME NEW k \in Linker, Links(attach'[k])
      PROVE  LET a == attach'[k] IN
               \A i \in DOMAIN entries'[a.source] : i > a.start =>
                 In(entries'[a.dest], entries'[a.source][i]) \/ In(a.backlog, entries'[a.source][i])
  <2> DEFINE s == attach[k].source
             d == attach[k].dest
             start == attach[k].start
             old == attach[k].backlog
             new == attach'[k].backlog
  <2>1. /\ Links(attach[k]) /\ attach'[k].source = s /\ attach'[k].dest = d
        /\ attach'[k].start = start
        /\ \A f : In(old, f) => In(new, f) \/ In(entries'[d], f)
    BY <1>2 DEF Carried
  <2>2. s \in Topic /\ d \in Topic
    BY <1>0, <2>1 DEF CallType, Attach, Links
  <2>3. lock[s] = k /\ k # None
    BY <1>0, <2>1, CallerAssumption DEF LinkInv, Linked, Links, Caller
  <2>4. \A i \in DOMAIN entries[s] : i > start =>
          In(entries[d], entries[s][i]) \/ In(old, entries[s][i])
    BY <2>1 DEF HandoverInv
  <2> HIDE DEF s, d, start, old, new
  <2>5. \A i \in DOMAIN entries'[s] : i \in DOMAIN entries[s] /\ entries'[s][i] = entries[s][i]
    BY <2>2, <2>3 DEF Grown
  <2>6. \A i \in DOMAIN entries'[s] : i > start =>
          In(entries'[d], entries'[s][i]) \/ In(new, entries'[s][i])
    BY <2>1, <2>2, <2>4, <2>5 DEF Grown
  <2> QED BY <2>1, <2>6 DEF new
<1>3. \A t \in Topic : Unique(entries'[t])
  BY DEF Grown
<1> QED BY <1>1, <1>2, <1>3 DEF HandoverInv

\* A commit of a new record in a free topic, with every destination still to come.
LEMMA GrownCommit ==
  ASSUME TypeOK, HandoverInv, NEW t \in Topic, NEW e \in Event, Commit(t, e), ~Known(t, e),
         lock[t] = None,
         \A d \in Dests(t) : \E c \in Caller : Due(frames'[c], t, d, e)
  PROVE  Grown
<1>0. TopicType /\ \A u \in Topic : Unique(entries[u])
  BY TypeParts DEF HandoverInv
<1>1. /\ \A u \in Topic : u # t => entries'[u] = entries[u]
      /\ head(t) \in Nat
      /\ DOMAIN entries[t] = 1 .. head(t) /\ DOMAIN entries'[t] = 1 .. head(t) + 1
      /\ \A i \in 1 .. head(t) : entries'[t][i] = entries[t][i]
      /\ entries'[t][head(t) + 1] = e
  BY <1>0, CommitFacts
<1>2. \A i : i \in 1 .. head(t) + 1 <=> (i \in 1 .. head(t) \/ i = head(t) + 1)
  BY <1>1
<1>3. ASSUME NEW f, In(entries[t], f) PROVE In(entries'[t], f)
  BY <1>1, <1>2, <1>3 DEF In
<1>4. Unique(entries'[t])
  <2>1. \A i \in 1 .. head(t) : entries[t][i] # e
    BY <1>1 DEF Known
  <2> SUFFICES ASSUME NEW i \in 1 .. head(t) + 1, NEW j \in 1 .. head(t) + 1,
                      entries'[t][i] = entries'[t][j]
               PROVE  i = j
    BY <1>1 DEF Unique
  <2>2. i \in 1 .. head(t) \/ i = head(t) + 1
    BY <1>2
  <2>3. j \in 1 .. head(t) \/ j = head(t) + 1
    BY <1>2
  <2> QED BY <1>0, <1>1, <2>1, <2>2, <2>3 DEF Unique
<1>5. \A i \in DOMAIN entries'[t] :
        \/ i \in DOMAIN entries[t] /\ entries'[t][i] = entries[t][i]
        \/ entries'[t][i] = e
  BY <1>1, <1>2
<1> SUFFICES ASSUME NEW u \in Topic
             PROVE  /\ \A f : In(entries[u], f) => In(entries'[u], f)
                    /\ Unique(entries'[u])
                    /\ \A i \in DOMAIN entries'[u] :
                         \/ i \in DOMAIN entries[u] /\ entries'[u][i] = entries[u][i]
                         \/ u = t /\ entries'[u][i] = e
  BY DEF Grown
<1>6. CASE u = t
  BY <1>3, <1>4, <1>5, <1>6
<1>7. CASE u # t
  <2>1. entries'[u] = entries[u] /\ Unique(entries[u])
    BY <1>0, <1>1, <1>7
  <2> QED BY <2>1
<1> QED BY <1>6, <1>7

LEMMA GrownSame ==
  ASSUME HandoverInv, UNCHANGED entries
  PROVE  Grown
<1> SUFFICES ASSUME NEW u \in Topic
             PROVE  /\ \A f : In(entries[u], f) => In(entries'[u], f)
                    /\ Unique(entries'[u])
                    /\ \A i \in DOMAIN entries'[u] :
                         i \in DOMAIN entries[u] /\ entries'[u][i] = entries[u][i]
  BY DEF Grown
<1>1. Unique(entries[u])
  BY DEF HandoverInv
<1>2. entries'[u] = entries[u]
  OBVIOUS
<1> QED BY <1>1, <1>2

LEMMA HandoverAppend ==
  ASSUME TypeOK, LockInv, HandoverInv, NEW p \in Producer, NEW t \in Topic, NEW e \in Event,
         AppendEvent(p, t, e)
  PROVE  HandoverInv'
<1> DEFINE f == [topic |-> t, rest |-> Dests(t), event |-> e]
<1>1. p \in Caller /\ frames[p] = << >> /\ TopicType /\ CallType
  BY TypeParts DEF AppendEvent, Caller
<1>2. f \in Frame /\ f.topic = t /\ f.rest = Dests(t) /\ f.event = e
  BY <1>1, NewFrame
<1>3. frames'[p] = Append(<< >>, f) /\ \A c \in Caller : c # p => frames'[c] = frames[c]
  <2>1. << f >> = Append(<< >>, f)
    BY <1>2
  <2>2. frames' = [frames EXCEPT ![p] = << f >>]
    BY DEF AppendEvent
  <2> HIDE DEF f
  <2> QED BY <1>1, <2>1, <2>2 DEF CallType
<1> HIDE DEF f
<1>4. \A d \in Dests(t) : Due(frames'[p], t, d, e)
  BY <1>1, <1>2, <1>3, DuePush DEF CallType
<1>5. /\ Commit(t, e) /\ ~Known(t, e) /\ lock[t] = None /\ UNCHANGED <<attachments, attach>>
  BY DEF AppendEvent
<1>6. Grown
  BY <1>1, <1>4, <1>5, GrownCommit
<1>7. Carried
  <2>1. \A s, d, g : ~Due(frames[p], s, d, g)
    BY <1>1 DEF Due
  <2> QED BY <1>3, <1>5, <2>1 DEF Carried
<1> QED BY <1>5, <1>6, <1>7, HandoverKept

LEMMA HandoverForward ==
  ASSUME TypeOK, LockInv, HandoverInv, NEW c \in Caller, NEW x \in Topic, Forward(c, x)
  PROVE  HandoverInv'
<1> DEFINE F == Shrunk(c, x)
           e == Top(c).event
           f == [topic |-> x, rest |-> Dests(x), event |-> e]
<1>0. TopicType /\ CallType /\ frames[c] # << >>
  BY TypeParts DEF Forward
<1>1. F \in Seq(Frame) /\ e \in Event
  <2>1. F \in Seq(Frame) /\ Top(c) \in Frame
    BY <1>0, ShrunkFacts, FrameFacts DEF Top
  <2> QED BY <2>1 DEF Frame
<1>2. \A s, d, g : Due(frames[c], s, d, g) => Due(F, s, d, g) \/ (d = x /\ g = e)
  BY <1>0, DueShrunk
<1>3. /\ lock[x] = None /\ UNCHANGED <<attachments, attach>>
      /\ \A b \in Caller : b # c => frames'[b] = frames[b]
  BY <1>0 DEF Forward, CallType
<1>4. CASE Known(x, e)
  <2>1. frames'[c] = F /\ UNCHANGED entries
    BY <1>0, <1>4 DEF Forward, CallType
  <2>2. In(entries'[x], e)
    BY <1>4, <2>1 DEF Known, In
  <2> HIDE DEF F, e
  <2>3. Carried
    BY <1>2, <1>3, <2>1, <2>2 DEF Carried
  <2> QED BY <1>3, <2>1, <2>3, GrownSame, HandoverKept
<1>5. CASE ~Known(x, e)
  <2>1. f \in Frame /\ f.topic = x /\ f.rest = Dests(x) /\ f.event = e
    BY <1>0, <1>1, NewFrame
  <2>2. frames'[c] = Append(F, f) /\ Commit(x, e)
    BY <1>0, <1>5 DEF Forward, CallType
  <2> HIDE DEF F, e, f
  <2>3. \A d \in Dests(x) : Due(frames'[c], x, d, e)
    BY <1>1, <2>1, <2>2, DuePush
  <2>4. \A s, d, g : Due(F, s, d, g) => Due(frames'[c], s, d, g)
    BY <1>1, <2>1, <2>2, DuePush
  <2>5. In(entries'[x], e)
    BY <1>0, <1>1, <2>2, CommitFacts
  <2>6. Grown
    BY <1>1, <1>3, <1>5, <2>2, <2>3, GrownCommit
  <2>7. Carried
    BY <1>2, <1>3, <2>4, <2>5 DEF Carried
  <2> QED BY <1>3, <2>6, <2>7, HandoverKept
<1> QED BY <1>4, <1>5

LEMMA HandoverUnlock ==
  ASSUME TypeOK, LockInv, HandoverInv, NEW c \in Caller, Unlock(c)
  PROVE  HandoverInv'
<1>1. frames[c] \in Seq(Frame) /\ frames[c] # << >> /\ frames[c][Len(frames[c])].rest = {}
  BY TypeParts DEF Unlock, CallType, Top
<1>2. /\ frames'[c] = SubSeq(frames[c], 1, Len(frames[c]) - 1)
      /\ \A b \in Caller : b # c => frames'[b] = frames[b]
      /\ UNCHANGED <<entries, attachments, attach>>
  BY TypeParts DEF Unlock, CallType, topics
<1>3. \A s, d, g : Due(frames[c], s, d, g) => Due(frames'[c], s, d, g)
  BY <1>1, <1>2, DuePop
<1>4. Carried
  BY <1>2, <1>3 DEF Carried
<1> QED BY <1>2, <1>4, GrownSame, HandoverKept

LEMMA BacklogFacts ==
  ASSUME NEW q \in Seq(Event), NEW m \in Nat, m <= Len(q)
  PROVE  /\ DOMAIN q = 1 .. Len(q)
         /\ DOMAIN SubSeq(q, m + 1, Len(q)) = 1 .. Len(q) - m
         /\ \A j \in 1 .. Len(q) - m : SubSeq(q, m + 1, Len(q))[j] = q[m + j]
  OBVIOUS

LEMMA HandoverLockSource ==
  ASSUME TypeOK, LockInv, HandoverInv, NEW k \in Linker, LockSource(k)
  PROVE  HandoverInv'
<1> DEFINE a == attach[k]
           s == attach[k].source
           x == SubSeq(entries[s], a.start + 1, head(s))
<1>0. TopicType /\ CallType
  BY TypeParts
<1>1. a \in Attach /\ a # None
  BY <1>0 DEF LockSource, Checked, CallType
<1>2. s \in Topic /\ a.start \in Nat /\ entries[s] \in Seq(Event) /\ a.start <= head(s)
  BY <1>0, <1>1 DEF LockSource, Attach, TopicType
<1>3. \A i \in DOMAIN entries[s] : i > a.start => In(x, entries[s][i])
  <2> DEFINE m == a.start
  <2>1. /\ head(s) \in Nat /\ m \in Nat /\ m <= head(s) /\ DOMAIN entries[s] = 1 .. head(s)
        /\ DOMAIN x = 1 .. head(s) - m
        /\ \A j \in 1 .. head(s) - m : x[j] = entries[s][m + j]
    <3>1. head(s) \in Nat /\ m \in Nat /\ m <= head(s) /\ head(s) = Len(entries[s])
      BY <1>2 DEF head
    <3>2. x = SubSeq(entries[s], m + 1, Len(entries[s]))
      BY <3>1
    <3> HIDE DEF m, x, s
    <3>3. entries[s] \in Seq(Event)
      BY <1>2
    <3>4. /\ DOMAIN entries[s] = 1 .. Len(entries[s])
          /\ DOMAIN SubSeq(entries[s], m + 1, Len(entries[s])) = 1 .. Len(entries[s]) - m
          /\ \A j \in 1 .. Len(entries[s]) - m :
               SubSeq(entries[s], m + 1, Len(entries[s]))[j] = entries[s][m + j]
      BY <3>1, <3>3, BacklogFacts
    <3> QED BY <3>1, <3>2, <3>4
  <2> HIDE DEF m, x, s
  <2> SUFFICES ASSUME NEW i \in 1 .. head(s), i > m PROVE In(x, entries[s][i])
    BY <2>1 DEF m
  <2>2. i - m \in 1 .. head(s) - m /\ m + (i - m) = i
    BY <2>1
  <2>3. x[i - m] = entries[s][i]
    BY <2>1, <2>2
  <2> QED BY <2>1, <2>2, <2>3 DEF In
<1>4. /\ attach' = [attach EXCEPT ![k] = [a EXCEPT !.locked = TRUE, !.backlog = x]]
      /\ UNCHANGED <<entries, attachments, frames>>
  BY <1>0 DEF LockSource, CallType, topics
<1> HIDE DEF x
<1>5. /\ attach'[k].source = s /\ attach'[k].start = a.start /\ attach'[k].backlog = x
      /\ \A j \in Linker : j # k => attach'[j] = attach[j]
  BY <1>0, <1>1, <1>4 DEF CallType, Attach
<1> HIDE DEF s, a
<1>6. ASSUME NEW j \in Linker, Links(attach'[j])
      PROVE  LET b == attach'[j] IN
               \A i \in DOMAIN entries'[b.source] : i > b.start =>
                 In(entries'[b.dest], entries'[b.source][i]) \/ In(b.backlog, entries'[b.source][i])
  <2>1. CASE j = k
    BY <1>3, <1>4, <1>5, <2>1
  <2>2. CASE j # k
    <3>1. attach'[j] = attach[j] /\ entries' = entries
      BY <1>4, <1>5, <2>2
    <3> QED BY <1>6, <3>1 DEF HandoverInv
  <2> QED BY <2>1, <2>2
<1> QED BY <1>4, <1>6 DEF HandoverInv

LEMMA HandoverBacklog ==
  ASSUME TypeOK, LockInv, HandoverInv, NEW k \in Linker, ForwardBacklog(k)
  PROVE  HandoverInv'
<1> DEFINE a == attach[k]
           d == attach[k].dest
           e == Head(attach[k].backlog)
           x == Tail(attach[k].backlog)
           f == [topic |-> d, rest |-> Dests(d), event |-> e]
<1>0. TopicType /\ CallType /\ k \in Caller /\ LinkInv
  BY TypeParts DEF Caller, LockInv
<1>1. a \in Attach /\ a # None /\ a.backlog # << >> /\ frames[k] = << >>
  BY <1>0 DEF ForwardBacklog, CallType
<1>2. d \in Topic /\ e \in Event /\ x \in Seq(Event) /\ a.backlog \in Seq(Event)
  BY <1>1 DEF Attach
<1>3. attach' = [attach EXCEPT ![k] = [a EXCEPT !.backlog = x]]
  BY <1>0 DEF ForwardBacklog, CallType
<1>4. \A g : In(a.backlog, g) => In(x, g) \/ g = e
  <2> DEFINE q == a.backlog
             n == Len(a.backlog)
  <2>1. /\ n \in Nat /\ DOMAIN q = 1 .. n /\ DOMAIN x = 1 .. n - 1 /\ e = q[1]
        /\ \A i \in 1 .. n - 1 : x[i] = q[i + 1]
    BY <1>1, <1>2
  <2> HIDE DEF q, n, x, e
  <2> SUFFICES ASSUME NEW g, NEW i \in 1 .. n, q[i] = g, g # e PROVE In(x, g)
    BY <2>1 DEF In, q
  <2>2. i - 1 \in 1 .. n - 1 /\ (i - 1) + 1 = i
    BY <2>1
  <2>3. x[i - 1] = g
    BY <2>1, <2>2
  <2> QED BY <2>1, <2>2, <2>3 DEF In
<1>5. /\ IF Known(d, e)
         THEN UNCHANGED <<entries, frames>>
         ELSE Commit(d, e) /\ frames' = [frames EXCEPT ![k] = << f >>]
      /\ lock[d] = None /\ UNCHANGED attachments
  BY DEF ForwardBacklog
<1>6. /\ attach'[k].source = a.source /\ attach'[k].dest = d /\ attach'[k].start = a.start
      /\ attach'[k].backlog = x
      /\ \A j \in Linker : j # k => attach'[j] = attach[j]
      /\ Links(a)
  <2>1. Links(a)
    BY <1>0, <1>1 DEF LinkInv, Linked, Links
  <2> HIDE DEF x
  <2> QED BY <1>0, <1>1, <1>3, <2>1 DEF CallType, Attach
<1>7. \A s, u, g : ~Due(frames[k], s, u, g)
  BY <1>1 DEF Due
<1>8. CASE Known(d, e)
  <2>1. UNCHANGED <<entries, frames>> /\ In(entries'[d], e)
    BY <1>5, <1>8 DEF Known, In
  <2> HIDE DEF a, d, e, x
  <2>2. ASSUME NEW j \in Linker, Links(attach'[j])
        PROVE  /\ Links(attach[j]) /\ attach'[j].source = attach[j].source
               /\ attach'[j].dest = attach[j].dest /\ attach'[j].start = attach[j].start
               /\ \A g : In(attach[j].backlog, g) =>
                    In(attach'[j].backlog, g) \/ In(entries'[attach[j].dest], g)
    BY <1>4, <1>6, <2>1, <2>2 DEF a, d
  <2>3. Carried
    BY <2>1, <2>2 DEF Carried
  <2> QED BY <1>5, <2>1, <2>3, GrownSame, HandoverKept
<1>9. CASE ~Known(d, e)
  <2>1. f \in Frame /\ f.topic = d /\ f.rest = Dests(d) /\ f.event = e
    BY <1>0, <1>2, NewFrame
  <2>2. frames'[k] = Append(<< >>, f) /\ \A c \in Caller : c # k => frames'[c] = frames[c]
    <3>1. << f >> = Append(<< >>, f)
      BY <2>1
    <3>2. frames' = [frames EXCEPT ![k] = << f >>]
      BY <1>5, <1>9
    <3> HIDE DEF f
    <3> QED BY <1>0, <3>1, <3>2 DEF CallType
  <2>3. Commit(d, e)
    BY <1>5, <1>9
  <2> HIDE DEF f, a, d, e, x
  <2>4. \A u \in Dests(d) : Due(frames'[k], d, u, e)
    <3>1. << >> \in Seq(Frame)
      OBVIOUS
    <3> QED BY <2>1, <2>2, <3>1, DuePush
  <2>5. In(entries'[d], e)
    BY <1>0, <1>2, <2>3, CommitFacts
  <2>6. Grown
    BY <1>0, <1>2, <1>5, <1>9, <2>3, <2>4, GrownCommit
  <2>7. ASSUME NEW j \in Linker, Links(attach'[j])
        PROVE  /\ Links(attach[j]) /\ attach'[j].source = attach[j].source
               /\ attach'[j].dest = attach[j].dest /\ attach'[j].start = attach[j].start
               /\ \A g : In(attach[j].backlog, g) =>
                    In(attach'[j].backlog, g) \/ In(entries'[attach[j].dest], g)
    BY <1>4, <1>6, <2>5, <2>7 DEF a, d
  <2>8. Carried
    BY <1>7, <2>2, <2>7 DEF Carried
  <2> QED BY <1>5, <2>6, <2>8, HandoverKept
<1> QED BY <1>8, <1>9

LEMMA HandoverEndAttach ==
  ASSUME TypeOK, LockInv, HandoverInv, NEW k \in Linker, EndAttach(k)
  PROVE  HandoverInv'
<1> DEFINE a == attach[k]
           s == attach[k].source
           d == attach[k].dest
<1>0. TopicType /\ CallType
  BY TypeParts
<1>1. /\ Links(a) /\ a \in Attach /\ a.backlog = << >>
      /\ attachments' = [attachments EXCEPT ![s][d] = a.start] /\ UNCHANGED <<entries, frames>>
  BY <1>0 DEF EndAttach, Links, CallType
<1>2. s \in Topic /\ d \in Topic
  BY <1>1 DEF Attach
<1>3. attach'[k] = None /\ \A j \in Linker : j # k => attach'[j] = attach[j]
  BY <1>0 DEF EndAttach, CallType
<1>4. \A i \in DOMAIN entries[s] : i > a.start => In(entries[d], entries[s][i])
  BY <1>1 DEF HandoverInv, In
<1> HIDE DEF s, d, a
<1>5. \A t, u \in Topic : attachments'[t][u] = IF t = s /\ u = d THEN a.start ELSE attachments[t][u]
  BY <1>0, <1>1, <1>2 DEF TopicType
<1>6. ASSUME NEW t \in Topic, NEW u \in Topic, attachments'[t][u] # None,
             NEW i \in DOMAIN entries'[t], i > attachments'[t][u]
      PROVE  \/ In(entries'[u], entries'[t][i])
             \/ \E c \in Caller : Due(frames'[c], t, u, entries'[t][i])
  <2>1. CASE t = s /\ u = d
    BY <1>1, <1>4, <1>5, <1>6, <2>1
  <2>2. CASE ~(t = s /\ u = d)
    <3>1. attachments'[t][u] = attachments[t][u] /\ entries' = entries /\ frames' = frames
      BY <1>1, <1>5, <2>2
    <3> QED BY <1>6, <3>1 DEF HandoverInv
  <2> QED BY <2>1, <2>2
<1>7. \A j \in Linker : Links(attach'[j]) => j # k
  BY <1>3 DEF Links
<1> QED BY <1>1, <1>3, <1>6, <1>7 DEF HandoverInv

LEMMA HandoverCloseTopic ==
  ASSUME TypeOK, HandoverInv, NEW t \in Topic, CloseTopic(t)
  PROVE  HandoverInv'
<1>1. /\ attachments' = [attachments EXCEPT ![t] = [d \in Topic |-> None]]
      /\ UNCHANGED <<entries, frames, attach>>
  BY DEF CloseTopic, calls
<1>2. \A s, d \in Topic : attachments'[s][d] # None => attachments'[s][d] = attachments[s][d]
  BY <1>1, TypeParts DEF TopicType
<1> QED BY <1>1, <1>2 DEF HandoverInv

LEMMA HandoverStep ==
  ASSUME TypeOK, LockInv, HandoverInv, [Next]_vars
  PROVE  HandoverInv'
<1>0. CallType /\ LinkInv
  BY TypeParts DEF LockInv
<1>1. CASE /\ UNCHANGED <<entries, attachments, frames>>
           /\ \A j \in Linker : Links(attach'[j]) => attach'[j] = attach[j]
  <2>1. Carried
    BY <1>1 DEF Carried
  <2> QED BY <1>1, <2>1, GrownSame, HandoverKept
<1>2. CASE \E p \in Producer, t \in Topic, e \in Event : AppendEvent(p, t, e)
  BY <1>2, HandoverAppend
<1>3. CASE \E c \in Caller : CallStep(c)
  BY <1>3, HandoverUnlock, HandoverForward DEF CallStep
<1>4. CASE \E k \in Linker, s \in Topic, d \in Topic, start \in Start : BeginAttach(k, s, d, start)
  <2> SUFFICES ASSUME NEW k \in Linker, NEW s \in Topic, NEW d \in Topic, NEW start \in Start,
                      BeginAttach(k, s, d, start)
               PROVE  HandoverInv'
    BY <1>4
  <2>1. /\ attach'[k] = NewAttach(s, d, start, d)
        /\ \A j \in Linker : j # k => attach'[j] = attach[j]
        /\ UNCHANGED <<entries, attachments, frames>>
    BY <1>0 DEF BeginAttach, CallType, topics
  <2>2. ~Links(attach'[k])
    BY <2>1 DEF Links, NewAttach
  <2> QED BY <1>1, <2>1, <2>2
<1>5. CASE \E k \in Linker : LinkStep(k)
  <2> SUFFICES ASSUME NEW k \in Linker, LinkStep(k) PROVE HandoverInv'
    BY <1>5
  <2>1. ASSUME Refuse(k) PROVE HandoverInv'
    BY <1>0, <1>1, <2>1 DEF Refuse, Links, CallType, topics
  <2>2. CASE \E t \in Topic : Visit(k, t)
    <3> SUFFICES ASSUME NEW t \in Topic, Visit(k, t), ~Refuse(k) PROVE HandoverInv'
      BY <2>1, <2>2
    <3>1. attach[k] # None /\ attach[k] \in Attach /\ ~attach[k].locked
      BY <1>0 DEF Visit, CallType, LinkInv, Linked
    <3>2. /\ \A j \in Linker : j # k => attach'[j] = attach[j]
          /\ attach'[k].locked = FALSE
          /\ UNCHANGED <<entries, attachments, frames>>
      BY <1>0, <3>1 DEF Visit, CallType, Attach, topics
    <3> QED BY <1>1, <3>2 DEF Links
  <2> QED BY <2>1, <2>2, HandoverLockSource, HandoverBacklog, HandoverEndAttach
          DEF LinkStep, AttachRefused
<1>6. CASE \E t \in Topic : CloseTopic(t)
  BY <1>6, HandoverCloseTopic
<1>7. CASE \E s \in Subscriber, t \in Topic, from \in From : Subscribe(s, t, from)
  BY <1>1, <1>7 DEF Subscribe, topics, calls
<1>8. CASE \E s \in Subscriber :
             NextCall(s) \/ Receive(s) \/ CancelNext(s) \/ Unregister(s) \/ CloseSub(s)
  BY <1>1, <1>8 DEF NextCall, Receive, CancelNext, Unregister, CloseSub, topics, calls
<1>9. CASE Close
  BY <1>1, <1>9 DEF Close, calls
<1>10. CASE UNCHANGED vars
  BY <1>1, <1>10 DEF vars, topics, calls
<1> QED BY <1>2, <1>3, <1>4, <1>5, <1>6, <1>7, <1>8, <1>9, <1>10 DEF Next

LEMMA HandoverInit == Init => HandoverInv
<1> SUFFICES ASSUME Init PROVE HandoverInv
  OBVIOUS
<1>1. /\ \A t \in Topic : entries[t] = << >>
      /\ \A s, d \in Topic : attachments[s][d] = None
      /\ \A k \in Linker : ~Links(attach[k])
  BY DEF Init, Links
<1> QED BY <1>1 DEF HandoverInv, Unique

\* With no call on a topic nothing is due from it.
LEMMA AttachmentExactFollows ==
  ASSUME TypeOK, LockInv, HandoverInv
  PROVE  AttachmentExact
<1>1. \A t \in Topic : \A i, j \in DOMAIN entries[t] : entries[t][i] = entries[t][j] => i = j
  BY DEF HandoverInv, Unique
<1>2. ASSUME NEW s \in Topic, NEW d \in Topic, attachments[s][d] # None, lock[s] = None,
             NEW i \in DOMAIN entries[s], i > attachments[s][d]
      PROVE  Known(d, entries[s][i])
  <2>1. \A c \in Caller : ~Due(frames[c], s, d, entries[s][i])
    BY <1>2, CallerAssumption DEF LockInv, FrameInv, Chain, Due
  <2>2. In(entries[d], entries[s][i])
    BY <1>2, <2>1 DEF HandoverInv
  <2> QED BY <2>2 DEF In, Known
<1> QED BY <1>1, <1>2 DEF AttachmentExact

-----------------------------------------------------------------------------
(* Subscriptions miss nothing.                                              *)

\* A list that counts on goes on counting when it loses its head or gains the next
\* position, and two that do so in turn do so together.
LEMMA CountsFacts ==
  ASSUME NEW q \in Seq(Nat), NEW cur \in Nat, Counts(q, cur)
  PROVE  /\ Len(q) \in Nat
         /\ Append(q, cur + Len(q) + 1) \in Seq(Nat)
         /\ Len(Append(q, cur + Len(q) + 1)) = Len(q) + 1
         /\ Counts(Append(q, cur + Len(q) + 1), cur)
         /\ q # << >> => /\ Head(q) = cur + 1 /\ Tail(q) \in Seq(Nat) /\ Len(Tail(q)) = Len(q) - 1
                         /\ Counts(Tail(q), cur + 1)
<1>1. Len(q) \in Nat /\ DOMAIN q = 1 .. Len(q) /\ \A i \in 1 .. Len(q) : q[i] = cur + i
  BY DEF Counts
<1>2. Counts(Append(q, cur + Len(q) + 1), cur)
  <2> DEFINE r == Append(q, cur + Len(q) + 1)
             n == Len(q)
  <2>1. /\ DOMAIN r = 1 .. n + 1 /\ \A i \in 1 .. n : r[i] = q[i]
        /\ r[n + 1] = cur + n + 1
    OBVIOUS
  <2>2. \A i \in 1 .. n + 1 : i \in 1 .. n \/ i = n + 1
    BY <1>1
  <2> HIDE DEF r, n
  <2>3. \A i \in DOMAIN r : r[i] = cur + i
    BY <1>1, <2>1, <2>2 DEF n
  <2> QED BY <2>3 DEF Counts, r, n
<1>3. ASSUME q # << >>
      PROVE  /\ Head(q) = cur + 1 /\ Tail(q) \in Seq(Nat) /\ Len(Tail(q)) = Len(q) - 1
             /\ Counts(Tail(q), cur + 1)
  <2> DEFINE r == Tail(q)
             n == Len(q)
  <2>1. /\ n >= 1 /\ Head(q) = q[1] /\ r \in Seq(Nat) /\ Len(r) = n - 1
        /\ DOMAIN r = 1 .. n - 1 /\ \A i \in 1 .. n - 1 : r[i] = q[i + 1]
    BY <1>3
  <2>2. n \in Nat /\ \A i \in 1 .. n : q[i] = cur + i
    BY <1>1
  <2> HIDE DEF r, n
  <2>3. Head(q) = cur + 1
    BY <2>1, <2>2
  <2>4. \A i \in 1 .. n - 1 : i + 1 \in 1 .. n /\ cur + (i + 1) = (cur + 1) + i
    BY <2>2
  <2>5. \A i \in DOMAIN r : r[i] = (cur + 1) + i
    BY <2>1, <2>2, <2>4
  <2>6. Counts(r, cur + 1)
    BY <2>5 DEF Counts
  <2> QED BY <2>1, <2>3, <2>6 DEF r, n
<1> QED BY <1>1, <1>2, <1>3

LEMMA CountsConcat ==
  ASSUME NEW q \in Seq(Nat), NEW r \in Seq(Nat), NEW cur \in Nat,
         Counts(q, cur), Counts(r, cur + Len(q))
  PROVE  Counts(q \o r, cur) /\ Len(q \o r) = Len(q) + Len(r)
<1> DEFINE x == q \o r
           m == Len(q)
           n == Len(r)
<1>1. /\ m \in Nat /\ n \in Nat /\ DOMAIN q = 1 .. m /\ DOMAIN r = 1 .. n
      /\ Len(x) = m + n /\ DOMAIN x = 1 .. m + n
      /\ \A i \in 1 .. m + n : x[i] = IF i <= m THEN q[i] ELSE r[i - m]
  OBVIOUS
<1>2. (\A i \in 1 .. m : q[i] = cur + i) /\ \A i \in 1 .. n : r[i] = (cur + m) + i
  BY <1>1 DEF Counts
<1> HIDE DEF x, m, n
<1>3. \A i \in 1 .. m + n : (i <= m => i \in 1 .. m) /\ (~(i <= m) => i - m \in 1 .. n)
  BY <1>1
<1>4. \A i \in DOMAIN x : x[i] = cur + i
  BY <1>1, <1>2, <1>3
<1>5. Counts(x, cur)
  BY <1>4 DEF Counts
<1> QED BY <1>1, <1>5 DEF x, m, n

\* The properties of the run say the same of a subscription.
LEMMA SubProperties ==
  ASSUME TypeOK, SubInv
  PROVE  SubscriberSeesAll /\ SendsAreSafe /\ BudgetExact
<1>1. ASSUME NEW s \in Subscriber, sub[s] # None, sub[s].pc # "canceling"
      PROVE  LET ahead == sub[s].catchup \o sub[s].buffer IN
               /\ \A i \in DOMAIN ahead : ahead[i] = sub[s].cursor + i
               /\ sub[s].registered => sub[s].cursor + Len(ahead) = head(sub[s].topic)
  <2> DEFINE q == sub[s]
             h == head(sub[s].topic)
  <2>1. q \in Sub /\ Intact(q, h)
    BY <1>1, TypeParts DEF SubInv, SubType
  <2>2. q.catchup \in Seq(Nat) /\ q.buffer \in Seq(Nat) /\ q.cursor \in Nat
    BY <2>1 DEF Sub
  <2>3. /\ Counts(q.catchup, q.cursor) /\ Counts(q.buffer, q.cursor + Len(q.catchup))
        /\ q.registered => q.cursor + Len(q.catchup) + Len(q.buffer) = h
    BY <1>1, <2>1 DEF Intact
  <2> HIDE DEF q, h
  <2>4. Counts(q.catchup \o q.buffer, q.cursor)
        /\ Len(q.catchup \o q.buffer) = Len(q.catchup) + Len(q.buffer)
    BY <2>2, <2>3, CountsConcat
  <2>5. ASSUME q.registered PROVE q.cursor + Len(q.catchup \o q.buffer) = h
    <3> DEFINE c == q.cursor
               m == Len(q.catchup)
               n == Len(q.buffer)
               l == Len(q.catchup \o q.buffer)
    <3>1. c \in Nat /\ m \in Nat /\ n \in Nat /\ l = m + n
      BY <2>2, <2>4
    <3>2. c + m + n = h
      BY <2>3, <2>5, Zenon
    <3> HIDE DEF c, m, n, l
    <3>3. c + l = h
      BY <3>1, <3>2
    <3> QED BY <3>3 DEF c, l
  <2> QED BY <2>4, <2>5 DEF Counts, q, h
<1>2. SubscriberSeesAll
  BY <1>1 DEF SubscriberSeesAll
<1>3. SendsAreSafe /\ BudgetExact
  BY DEF SubInv, Intact, SendsAreSafe, BudgetExact
<1> QED BY <1>2, <1>3

LEMMA IntactDeliver ==
  ASSUME NEW q \in Sub, NEW h \in Nat, Intact(q, h), q.registered
  PROVE  Intact(Deliver(q, h + 1), h + 1)
<1> DEFINE r == Deliver(q, h + 1)
           c == q.cursor
           m == Len(q.catchup)
           n == Len(q.buffer)
           f == q.inFlight
           p == q.pending
<1>1. /\ c \in Nat /\ m \in Nat /\ n \in Nat /\ f \in Nat /\ p \in Int /\ Budget \in Nat
      /\ q.buffer \in Seq(Nat)
  BY BoundAssumption DEF Sub
<1>2. CASE p < Budget /\ n < Limit
  <2>1. r = [q EXCEPT !.buffer = Append(q.buffer, h + 1), !.pending = p + 1]
    BY <1>2 DEF Deliver, Sub
  <2>2. /\ r.gap = q.gap /\ r.catchup = q.catchup /\ r.cursor = c
        /\ r.inFlight = f /\ r.kind = q.kind /\ r.registered = q.registered
        /\ r.doomed = q.doomed /\ r.pc = q.pc
        /\ r.buffer = Append(q.buffer, h + 1) /\ r.pending = p + 1
    BY <2>1 DEF Sub
  <2> HIDE DEF r
  <2>3. ASSUME q.pc # "canceling"
        PROVE  /\ Counts(r.catchup, r.cursor) /\ Counts(r.buffer, r.cursor + Len(r.catchup))
               /\ r.cursor + Len(r.catchup) + Len(r.buffer) = h + 1
               /\ r.pending = Len(r.catchup) + Len(r.buffer) + r.inFlight
               /\ r.pending <= Budget
    <3>1. /\ Counts(q.catchup, c) /\ Counts(q.buffer, c + m)
          /\ c + m + n = h /\ p = m + n + f
      BY <2>3 DEF Intact
    <3>2. Len(r.catchup) = m
      BY <2>2
    <3>3. Len(q.buffer) = n
      OBVIOUS
    <3> HIDE DEF c, m, n, f, p
    <3>4. /\ c + m \in Nat /\ h + 1 = (c + m) + n + 1 /\ h + 1 = c + m + (n + 1)
          /\ p + 1 = m + (n + 1) + f /\ p + 1 <= Budget
      BY <1>1, <1>2, <3>1
    <3>5. Counts(r.buffer, c + m) /\ Len(r.buffer) = n + 1
      BY <1>1, <2>2, <3>1, <3>3, <3>4, CountsFacts
    <3> QED BY <2>2, <3>1, <3>2, <3>4, <3>5
  <2>4. Intact(r, h + 1)
    BY <2>2, <2>3 DEF Intact
  <2> QED BY <2>4 DEF r
<1>3. CASE ~(p < Budget /\ n < Limit)
  <2>1. r = [q EXCEPT !.kind = "backpressure", !.registered = FALSE]
    BY <1>3 DEF Deliver
  <2>2. /\ r.gap = q.gap /\ r.catchup = q.catchup /\ r.cursor = q.cursor
        /\ r.inFlight = q.inFlight /\ r.registered = FALSE
        /\ r.doomed = q.doomed /\ r.pc = q.pc /\ r.buffer = q.buffer /\ r.pending = q.pending
    BY <2>1 DEF Sub
  <2> HIDE DEF r
  <2>3. Intact(r, h + 1)
    BY <2>2 DEF Intact
  <2> QED BY <2>3 DEF r
<1> QED BY <1>2, <1>3

\* Nobody registered looks at the head.
LEMMA IntactOff ==
  ASSUME NEW q, NEW h, NEW g, Intact(q, h), q.registered => g = h
  PROVE  Intact(q, g)
  BY DEF Intact

LEMMA SubCommit ==
  ASSUME TypeOK, SubInv, NEW t \in Topic, NEW e \in Event, Commit(t, e)
  PROVE  SubInv'
<1>0. TopicType /\ SubType
  BY TypeParts
<1>1. /\ \A u \in Topic : u # t => entries'[u] = entries[u]
      /\ head(t) \in Nat /\ entries[t] \in Seq(Event)
  BY <1>0, CommitFacts DEF TopicType
<1>2. Len(entries'[t]) = head(t) + 1
  BY <1>0, <1>1 DEF Commit, TopicType, head
<1>3. ASSUME NEW s \in Subscriber, sub'[s] # None
      PROVE  Intact(sub'[s], Len(entries'[sub'[s].topic]))
  <2> DEFINE q == sub[s]
             r == sub'[s]
             h == head(sub[s].topic)
  <2>1. r = IF q # None /\ q.topic = t /\ q.registered THEN Deliver(q, head(t) + 1) ELSE q
    BY DEF Commit
  <2>2. q # None /\ q \in Sub
    BY <1>0, <1>3, <2>1 DEF SubType
  <2>3. Intact(q, h) /\ q.topic \in Topic
    BY <2>2 DEF SubInv, Sub
  <2>4. CASE q.topic = t /\ q.registered
    <3>1. r = Deliver(q, h + 1) /\ h \in Nat
      BY <1>1, <2>1, <2>2, <2>4
    <3>2. r.topic = t
      BY <2>2, <2>4, <3>1 DEF Deliver, Sub
    <3>3. Intact(r, h + 1)
      BY <2>2, <2>3, <2>4, <3>1, IntactDeliver
    <3> QED BY <1>2, <2>4, <3>2, <3>3
  <2>5. CASE ~(q.topic = t /\ q.registered)
    <3>1. r = q
      BY <2>1, <2>5
    <3>2. q.registered => Len(entries'[q.topic]) = h
      BY <1>1, <2>3, <2>5 DEF head
    <3> HIDE DEF h, r
    <3>3. Intact(q, Len(entries'[q.topic]))
      BY <2>3, <3>2, IntactOff
    <3> QED BY <3>1, <3>3 DEF r
  <2> QED BY <2>4, <2>5
<1> QED BY <1>3 DEF SubInv, head

\* One subscription moves, and no topic.
LEMMA OneSub ==
  ASSUME SubInv, NEW s \in Subscriber, UNCHANGED entries,
         \A r \in Subscriber : r # s => sub'[r] = sub[r],
         sub'[s] # None => Intact(sub'[s], Len(entries[sub'[s].topic]))
  PROVE  SubInv'
<1> SUFFICES ASSUME NEW r \in Subscriber, sub'[r] # None
             PROVE  Intact(sub'[r], Len(entries'[sub'[r].topic]))
  BY DEF SubInv, head
<1>1. CASE r = s
  BY <1>1
<1>2. CASE r # s
  BY <1>2 DEF SubInv, head
<1> QED BY <1>1, <1>2

\* next releases what it delivered, and delivers the gap or goes on to wait ...
LEMMA IntactRelease ==
  ASSUME NEW q \in Sub, NEW h, Intact(q, h), NEW pc \in {"idle", "waiting"}, q.pc = "idle",
         pc = "waiting" => q.catchup = << >>
  PROVE  Intact([q EXCEPT !.pending = q.pending - q.inFlight, !.inFlight = 0, !.gap = FALSE,
                          !.pc = pc], h)
<1> DEFINE m == Len(q.catchup)
           n == Len(q.buffer)
           f == q.inFlight
           p == q.pending
           r == [q EXCEPT !.pending = p - f, !.inFlight = 0, !.gap = FALSE, !.pc = pc]
<1>1. m \in Nat /\ n \in Nat /\ f \in Nat /\ p \in Int /\ Budget \in Nat
  BY BoundAssumption DEF Sub
<1>2. /\ r.pending = p - f /\ r.inFlight = 0 /\ r.gap = FALSE /\ r.pc = pc
      /\ r.catchup = q.catchup /\ r.buffer = q.buffer /\ r.cursor = q.cursor
      /\ r.kind = q.kind /\ r.registered = q.registered /\ r.doomed = q.doomed
  BY DEF Sub
<1>3. p = m + n + f /\ p <= Budget
  BY DEF Intact
<1>4. /\ Counts(q.catchup, q.cursor) /\ Counts(q.buffer, q.cursor + m)
      /\ q.registered => q.cursor + m + n = h
      /\ q.registered => q.kind = "open"
      /\ q.doomed => ~q.registered
  BY DEF Intact
<1>5. Len(r.catchup) = m /\ Len(r.buffer) = n
  BY <1>2
<1> HIDE DEF m, n, f, p
<1>6. p - f = m + n + 0 /\ p - f <= Budget
  BY <1>1, <1>3
<1>7. Intact(r, h)
  <2> HIDE DEF r
  <2> QED BY <1>2, <1>4, <1>5, <1>6 DEF Intact
<1> QED BY <1>7 DEF p, f

\* ... or it delivers the next retained record.
LEMMA IntactRetained ==
  ASSUME NEW q \in Sub, NEW h, Intact(q, h), q.pc = "idle", q.catchup # << >>
  PROVE  Intact([q EXCEPT !.pending = q.pending - q.inFlight, !.inFlight = 1,
                          !.cursor = Head(q.catchup), !.catchup = Tail(q.catchup)], h)
<1> DEFINE c == q.cursor
           m == Len(q.catchup)
           n == Len(q.buffer)
           f == q.inFlight
           p == q.pending
           l == Tail(q.catchup)
           r == [q EXCEPT !.pending = p - f, !.inFlight = 1, !.cursor = Head(q.catchup),
                          !.catchup = l]
<1>1. /\ c \in Nat /\ m \in Nat /\ n \in Nat /\ f \in Nat /\ p \in Int /\ Budget \in Nat
      /\ q.catchup \in Seq(Nat)
  BY BoundAssumption DEF Sub
<1>2. /\ r.pending = p - f /\ r.inFlight = 1 /\ r.gap = q.gap /\ r.pc = "idle"
      /\ r.catchup = l /\ r.buffer = q.buffer /\ r.cursor = Head(q.catchup)
      /\ r.kind = q.kind /\ r.registered = q.registered /\ r.doomed = q.doomed
  BY DEF Sub
<1>3. p = m + n + f /\ p <= Budget
  BY DEF Intact
<1>4. /\ Counts(q.catchup, c) /\ Counts(q.buffer, c + m)
      /\ q.registered => c + m + n = h
      /\ q.registered => q.kind = "open"
      /\ q.doomed => ~q.registered
  BY DEF Intact
<1>5. Head(q.catchup) = c + 1 /\ Len(l) = m - 1 /\ Counts(l, c + 1)
  BY <1>1, <1>4, CountsFacts
<1>6. Len(r.buffer) = n
  BY <1>2
<1> HIDE DEF c, m, n, f, p, l
<1>7. /\ p - f = (m - 1) + n + 1 /\ p - f <= Budget
      /\ (c + 1) + (m - 1) = c + m /\ (c + 1) + (m - 1) + n = c + m + n
  BY <1>1, <1>3
<1>8. Intact(r, h)
  <2> HIDE DEF r
  <2> QED BY <1>2, <1>4, <1>5, <1>6, <1>7 DEF Intact
<1> QED BY <1>8 DEF p, f, l

\* A record comes from the buffer.
LEMMA IntactReceive ==
  ASSUME NEW q \in Sub, NEW h, Intact(q, h), q.pc = "waiting", q.buffer # << >>
  PROVE  Intact([q EXCEPT !.cursor = Head(q.buffer), !.buffer = Tail(q.buffer), !.inFlight = 1,
                          !.pc = "idle"], h)
<1> DEFINE c == q.cursor
           m == Len(q.catchup)
           n == Len(q.buffer)
           p == q.pending
           l == Tail(q.buffer)
           r == [q EXCEPT !.cursor = Head(q.buffer), !.buffer = l, !.inFlight = 1, !.pc = "idle"]
<1>1. c \in Nat /\ n \in Nat /\ p \in Int /\ Budget \in Nat /\ q.buffer \in Seq(Nat)
  BY BoundAssumption DEF Sub
<1>2. /\ r.pending = p /\ r.inFlight = 1 /\ r.gap = q.gap /\ r.pc = "idle"
      /\ r.catchup = q.catchup /\ r.buffer = l /\ r.cursor = Head(q.buffer)
      /\ r.kind = q.kind /\ r.registered = q.registered /\ r.doomed = q.doomed
  BY DEF Sub
<1>3. q.catchup = << >> /\ m = 0 /\ q.inFlight = 0
  BY DEF Intact
<1>4. /\ Counts(q.buffer, c + m) /\ p = m + n + q.inFlight /\ p <= Budget
      /\ q.registered => c + m + n = h
      /\ q.registered => q.kind = "open"
      /\ q.doomed => ~q.registered
  BY DEF Intact
<1>5. c + m = c /\ c + m + n = c + n /\ m + n + q.inFlight = n
  <2> HIDE DEF c, n, m
  <2> QED BY <1>1, <1>3
<1>6. Head(q.buffer) = c + 1 /\ Len(l) = n - 1 /\ Counts(l, c + 1)
  BY <1>1, <1>4, <1>5, CountsFacts
<1>7. Counts(q.catchup, c + 1) /\ Len(r.catchup) = 0
  BY <1>2, <1>3 DEF Counts
<1> HIDE DEF c, m, n, p, l
<1>8. /\ p = n => p = 0 + (n - 1) + 1
      /\ (c + 1) + 0 = c + 1 /\ (c + 1) + 0 + (n - 1) = c + n
  BY <1>1
<1>9. Intact(r, h)
  <2> HIDE DEF r
  <2> QED BY <1>2, <1>4, <1>5, <1>6, <1>7, <1>8 DEF Intact
<1> QED BY <1>9 DEF l

\* A new subscription is owed exactly what its topic retains after its start.
LEMMA IntactNew ==
  ASSUME NEW t \in Topic, NEW gap \in BOOLEAN, NEW after \in Nat, NEW size \in Nat, NEW h \in Nat,
         NEW kind \in Kind, size <= Budget, kind = "open" => after + size = h
  PROVE  Intact([topic |-> t, gap |-> gap, catchup |-> [i \in 1 .. size |-> after + i],
                 buffer |-> << >>, cursor |-> after, inFlight |-> 0, pending |-> size,
                 kind |-> kind, registered |-> kind = "open", doomed |-> FALSE,
                 pc |-> "idle"], h)
<1> DEFINE l == [i \in 1 .. size |-> after + i]
           r == [topic |-> t, gap |-> gap, catchup |-> l,
                 buffer |-> << >>, cursor |-> after, inFlight |-> 0, pending |-> size,
                 kind |-> kind, registered |-> kind = "open", doomed |-> FALSE,
                 pc |-> "idle"]
<1>1. l \in Seq(Nat) /\ Len(l) = size /\ \A i \in 1 .. size : l[i] = after + i
  BY CatchupFacts
<1>2. DOMAIN l = 1 .. size
  OBVIOUS
<1>3. Counts(l, after)
  BY <1>1, <1>2 DEF Counts
<1>4. /\ r.catchup = l /\ r.buffer = << >> /\ r.cursor = after /\ r.inFlight = 0
      /\ r.pending = size /\ r.kind = kind /\ r.registered = (kind = "open")
      /\ r.doomed = FALSE /\ r.pc = "idle"
  OBVIOUS
<1>5. Len(r.buffer) = 0 /\ Counts(<< >>, after + size)
  BY <1>4 DEF Counts
<1>6. /\ after + size + 0 = after + size /\ size = size + 0 + 0
  OBVIOUS
<1> HIDE DEF l
<1>7. Intact(r, h)
  <2> HIDE DEF r
  <2> QED BY <1>1, <1>3, <1>4, <1>5, <1>6 DEF Intact
<1> QED BY <1>7 DEF l

LEMMA SubSubscribe ==
  ASSUME TypeOK, SubInv, NEW s \in Subscriber, NEW t \in Topic, NEW from \in From,
         Subscribe(s, t, from)
  PROVE  SubInv'
<1> DEFINE gap   == earliest(t) > 1 /\ from + 1 < earliest(t)
           after == IF gap THEN earliest(t) - 1 ELSE from
           size  == Smaller(head(t) - after, Budget)
           kind  == IF size < head(t) - after THEN "backpressure"
                    ELSE IF t \in closed THEN "closed" ELSE "open"
           h     == head(t)
           q     == [topic |-> t, gap |-> gap, catchup |-> [i \in 1 .. size |-> after + i],
                     buffer |-> << >>, cursor |-> after, inFlight |-> 0, pending |-> size,
                     kind |-> kind, registered |-> kind = "open", doomed |-> FALSE,
                     pc |-> "idle"]
<1>0. TopicType /\ SubType
  BY TypeParts
<1>1. from \in Nat /\ from <= h /\ Budget \in Nat
  BY BoundAssumption DEF Subscribe
<1>2. after \in Nat /\ after <= h /\ h \in Nat
  BY <1>0, <1>1, EarliestFacts
<1>3. size \in Nat /\ size <= Budget /\ size <= h - after
  BY <1>1, <1>2 DEF Smaller
<1>4. kind \in Kind /\ (kind = "open" => ~(size < h - after))
  BY DEF Kind
<1>5. kind = "open" => after + size = h
  <2> HIDE DEF h, after, size, kind
  <2> QED BY <1>2, <1>3, <1>4
<1>6. sub' = [sub EXCEPT ![s] = q] /\ UNCHANGED entries
  BY DEF Subscribe, topics
<1>7. gap \in BOOLEAN
  OBVIOUS
<1>8. q.topic = t /\ head(t) = h /\ h = Len(entries[t])
  BY DEF head
<1>9. Intact(q, h)
  <2> HIDE DEF gap, after, size, kind, h
  <2> QED BY <1>2, <1>3, <1>4, <1>5, <1>7, IntactNew
<1> HIDE DEF q
<1>10. sub'[s] = q /\ \A r \in Subscriber : r # s => sub'[r] = sub[r]
  BY <1>0, <1>6 DEF SubType
<1> QED BY <1>6, <1>8, <1>9, <1>10, OneSub

LEMMA SubConsumer ==
  ASSUME TypeOK, SubInv, NEW s \in Subscriber,
         NextCall(s) \/ Receive(s) \/ CancelNext(s) \/ Unregister(s) \/ CloseSub(s)
  PROVE  SubInv'
<1> DEFINE q == sub[s]
           h == Len(entries[sub[s].topic])
<1>0. TopicType /\ SubType
  BY TypeParts
<1>1. q # None
  BY DEF NextCall, Receive, CancelNext, Unregister, CloseSub, At
<1>2. q \in Sub /\ Intact(q, h)
  BY <1>0, <1>1 DEF SubType, SubInv, head
<1>3. UNCHANGED entries /\ \A r \in Subscriber : r # s => sub'[r] = sub[r]
  BY <1>0 DEF SubType, NextCall, Receive, CancelNext, Unregister, CloseSub, topics
<1>4. ASSUME sub'[s] # None PROVE Intact(sub'[s], h) /\ sub'[s].topic = q.topic
  <2>1. CASE NextCall(s)
    <3> DEFINE p == q.pending - q.inFlight
    <3>1. q.pc = "idle"
      BY <2>1 DEF NextCall, At
    <3>2. CASE q.gap \/ q.catchup = << >>
      <4> DEFINE pc == IF q.gap THEN "idle" ELSE "waiting"
                 r  == [q EXCEPT !.pending = p, !.inFlight = 0, !.gap = FALSE, !.pc = pc]
      <4>1. sub'[s] = r
        BY <1>0, <1>2, <2>1, <3>1, <3>2 DEF NextCall, SubType, Sub
      <4>2. pc \in {"idle", "waiting"} /\ (pc = "waiting" => q.catchup = << >>)
        BY <3>2
      <4>3. r.topic = q.topic
        BY <1>2 DEF Sub
      <4> HIDE DEF pc, h, q
      <4>4. Intact(r, h)
        BY <1>2, <3>1, <4>2, IntactRelease
      <4> QED BY <4>1, <4>3, <4>4 DEF q, h
    <3>3. CASE ~q.gap /\ q.catchup # << >>
      <4> DEFINE r == [q EXCEPT !.pending = p, !.inFlight = 1,
                                !.cursor = Head(q.catchup), !.catchup = Tail(q.catchup)]
      <4>1. sub'[s] = r
        BY <1>0, <1>2, <2>1, <3>3 DEF NextCall, SubType, Sub
      <4>2. r.topic = q.topic
        BY <1>2 DEF Sub
      <4> HIDE DEF h, q
      <4>3. Intact(r, h)
        BY <1>2, <3>1, <3>3, IntactRetained
      <4> QED BY <4>1, <4>2, <4>3 DEF q, h
    <3> QED BY <3>2, <3>3
  <2>2. CASE Receive(s)
    <3> DEFINE r == [q EXCEPT !.cursor = Head(q.buffer), !.buffer = Tail(q.buffer),
                              !.inFlight = 1, !.pc = "idle"]
    <3>1. q.pc = "waiting" /\ q.buffer # << >>
      BY <1>0, <1>4, <2>2 DEF Receive, At, SubType
    <3>2. sub'[s] = r
      BY <1>0, <1>2, <2>2, <3>1 DEF Receive, SubType, Sub
    <3>3. r.topic = q.topic
      BY <1>2 DEF Sub
    <3> HIDE DEF h, q
    <3>4. Intact(r, h)
      BY <1>2, <3>1, IntactReceive
    <3> QED BY <3>2, <3>3, <3>4 DEF q, h
  <2>3. CASE CancelNext(s)
    <3> DEFINE r == [q EXCEPT !.gap = FALSE, !.catchup = << >>, !.pc = "canceling"]
    <3>1. sub'[s] = r
      BY <1>0, <1>2, <2>3 DEF CancelNext, SubType, Sub
    <3>2. /\ r.topic = q.topic /\ r.pc = "canceling" /\ r.registered = q.registered
          /\ r.kind = q.kind /\ r.doomed = q.doomed
      BY <1>2 DEF Sub
    <3> HIDE DEF r
    <3>3. Intact(r, h)
      BY <1>2, <3>2 DEF Intact
    <3> QED BY <3>1, <3>2, <3>3
  <2>4. CASE Unregister(s)
    BY <1>0, <1>4, <2>4 DEF Unregister, SubType
  <2>5. CASE CloseSub(s)
    <3> DEFINE kind == IF q.kind = "open" THEN "closed" ELSE q.kind
               r    == [q EXCEPT !.doomed = FALSE, !.kind = kind]
    <3>1. sub'[s] = r
      BY <1>0, <1>2, <2>5 DEF CloseSub, SubType, Sub
    <3>2. /\ r.topic = q.topic /\ r.pc = q.pc /\ r.registered = q.registered
          /\ r.doomed = FALSE /\ r.gap = q.gap /\ r.catchup = q.catchup /\ r.buffer = q.buffer
          /\ r.cursor = q.cursor /\ r.inFlight = q.inFlight /\ r.pending = q.pending
      BY <1>2 DEF Sub
    <3>3. ~q.registered
      BY <1>2, <2>5 DEF CloseSub, Intact
    <3> HIDE DEF r, h
    <3>4. Intact(r, h)
      BY <1>2, <3>2, <3>3 DEF Intact
    <3> QED BY <3>1, <3>2, <3>4
  <2> QED BY <2>1, <2>2, <2>3, <2>4, <2>5
<1> HIDE DEF q
<1>5. sub'[s] # None => Intact(sub'[s], Len(entries[sub'[s].topic]))
  BY <1>4 DEF q
<1> QED BY <1>3, <1>5, OneSub

LEMMA SubCloseTopic ==
  ASSUME TypeOK, SubInv, NEW t \in Topic, CloseTopic(t)
  PROVE  SubInv'
<1>0. TopicType /\ SubType
  BY TypeParts
<1>1. ASSUME NEW s \in Subscriber, sub'[s] # None
      PROVE  Intact(sub'[s], Len(entries'[sub'[s].topic]))
  <2> DEFINE q == sub[s]
             r == [q EXCEPT !.registered = FALSE, !.doomed = TRUE]
             h == Len(entries[sub[s].topic])
  <2>1. /\ sub'[s] = IF q # None /\ q.topic = t /\ q.registered THEN r ELSE q
        /\ entries' = entries
    BY DEF CloseTopic
  <2>2. q \in Sub /\ Intact(q, h)
    BY <1>0, <1>1, <2>1 DEF SubType, SubInv, head
  <2>3. /\ r.topic = q.topic /\ r.pc = q.pc /\ r.registered = FALSE
        /\ r.doomed = TRUE /\ r.gap = q.gap /\ r.catchup = q.catchup /\ r.buffer = q.buffer
        /\ r.cursor = q.cursor /\ r.inFlight = q.inFlight /\ r.pending = q.pending
    BY <2>2 DEF Sub
  <2> HIDE DEF r, h
  <2>4. Intact(r, h)
    BY <2>2, <2>3 DEF Intact
  <2>5. Intact(sub'[s], h) /\ sub'[s].topic = q.topic
    BY <2>1, <2>2, <2>3, <2>4
  <2> QED BY <2>1, <2>5 DEF h
<1> QED BY <1>1 DEF SubInv, head

LEMMA SubSame ==
  ASSUME SubInv, UNCHANGED <<entries, sub>>
  PROVE  SubInv'
  BY DEF SubInv, head

LEMMA SubStep ==
  ASSUME TypeOK, SubInv, [Next]_vars
  PROVE  SubInv'
<1>0. CallType
  BY TypeParts
<1>1. CASE \E p \in Producer, t \in Topic, e \in Event : AppendEvent(p, t, e)
  BY <1>1, SubCommit DEF AppendEvent
<1>2. ASSUME NEW c \in Caller, NEW d \in Topic, Forward(c, d) PROVE SubInv'
  <2>1. Top(c) \in Frame
    BY <1>0, <1>2, FrameFacts DEF Forward, Top
  <2>2. Top(c).event \in Event
    BY <2>1 DEF Frame
  <2> QED BY <1>2, <2>2, SubCommit, SubSame DEF Forward
<1>3. ASSUME NEW k \in Linker, ForwardBacklog(k) PROVE SubInv'
  <2>1. attach[k] \in Attach /\ attach[k].backlog # << >>
    BY <1>0, <1>3 DEF ForwardBacklog, CallType
  <2>2. attach[k].dest \in Topic /\ Head(attach[k].backlog) \in Event
    BY <2>1 DEF Attach
  <2> QED BY <1>3, <2>2, SubCommit, SubSame DEF ForwardBacklog
<1>4. ASSUME NEW c \in Caller, Unlock(c) PROVE SubInv'
  BY <1>4, SubSame DEF Unlock, topics
<1>5. CASE \E k \in Linker, s \in Topic, d \in Topic, start \in Start : BeginAttach(k, s, d, start)
  BY <1>5, SubSame DEF BeginAttach, topics
<1>6. ASSUME NEW k \in Linker,
             (\E t \in Topic : Visit(k, t)) \/ AttachRefused(k) \/ LockSource(k) \/ EndAttach(k)
      PROVE  SubInv'
  BY <1>6, SubSame DEF Visit, AttachRefused, Refuse, LockSource, EndAttach, topics
<1>7. CASE \E s \in Subscriber, t \in Topic, from \in From : Subscribe(s, t, from)
  BY <1>7, SubSubscribe
<1>8. CASE \E s \in Subscriber :
             NextCall(s) \/ Receive(s) \/ CancelNext(s) \/ Unregister(s) \/ CloseSub(s)
  BY <1>8, SubConsumer
<1>9. CASE Close
  BY <1>9, SubSame DEF Close
<1>10. CASE \E t \in Topic : CloseTopic(t)
  BY <1>10, SubCloseTopic
<1>11. CASE UNCHANGED vars
  BY <1>11, SubSame DEF vars, topics
<1> QED BY <1>1, <1>2, <1>3, <1>4, <1>5, <1>6, <1>7, <1>8, <1>9, <1>10, <1>11
        DEF Next, CallStep, LinkStep

LEMMA SubInit == Init => SubInv
  BY DEF Init, SubInv

-----------------------------------------------------------------------------
(* What every run of the topics keeps.                                     *)

LEMMA TopicsInvariant == Spec => [](TypeOK /\ LockInv /\ Acyclic /\ HandoverInv /\ SubInv)
<1>1. Init => TypeOK /\ LockInv /\ Acyclic /\ HandoverInv /\ SubInv
  BY InitType, LockInit, AcyclicInit, HandoverInit, SubInit
<1>2. TypeOK /\ LockInv /\ Acyclic /\ HandoverInv /\ SubInv /\ [Next]_vars =>
        (TypeOK /\ LockInv /\ Acyclic /\ HandoverInv /\ SubInv)'
  BY NextType, LockStep, AcyclicStep, HandoverStep, SubStep
<1> QED BY <1>1, <1>2, PTL DEF Spec

\* Callers that forward along chains of attachments never wait for one another in a
\* circle (AttachSource, reachable): a lock is waited for along an edge, and the edges,
\* with the one under way, have no circle.
THEOREM CallersNeverBlock == Spec => []NoLockCycle
<1>1. TypeOK /\ LockInv /\ Acyclic => NoLockCycle
  BY NoLockCycleFollows
<1> QED BY <1>1, TopicsInvariant, PTL

\* A topic accepts a record once, and with no call on a topic everything it accepted since
\* an attachment began is in the destination (AttachSource, commitLocked, forwardRecord).
THEOREM AttachmentsHandOver == Spec => []AttachmentExact
<1>1. TypeOK /\ LockInv /\ HandoverInv => AttachmentExact
  BY AttachmentExactFollows
<1> QED BY <1>1, TopicsInvariant, PTL

\* A subscription meets every position after its cursor once and in order, and while it is
\* registered nothing is missing up to the head (Subscribe, notifySubscribersLocked, next).
THEOREM SubscribersSeeAll == Spec => []SubscriberSeesAll
<1>1. TypeOK /\ SubInv => SubscriberSeesAll
  BY SubProperties
<1> QED BY <1>1, TopicsInvariant, PTL

\* No commit sends to a buffer that is closed (cancel, closeLocked, deliver).
THEOREM SendsStaySafe == Spec => []SendsAreSafe
<1>1. TypeOK /\ SubInv => SendsAreSafe
  BY SubProperties
<1> QED BY <1>1, TopicsInvariant, PTL

\* The byte budget of a live subscription is charged for exactly the records it holds or has
\* delivered last, and never overdrawn (reserve, release).
THEOREM BudgetStaysExact == Spec => []BudgetExact
<1>1. TypeOK /\ SubInv => BudgetExact
  BY SubProperties
<1> QED BY <1>1, TopicsInvariant, PTL
=============================================================================
