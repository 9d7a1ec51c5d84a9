---------------------------- MODULE EventTopics ----------------------------
(***************************************************************************)
(* The in-memory Events service (events/internal/service): topics that     *)
(* order the records appended to them, retain the latest, hand them to     *)
(* subscriptions with bounded buffers and forward them to the topics       *)
(* attached to them; and Close.                                            *)
(*                                                                         *)
(* A call holds the lock of a topic while it forwards what it committed    *)
(* there, so a chain of topics is a chain of locks.  A record is its       *)
(* append identity and every record weighs one unit of a subscription's    *)
(* byte budget.  A subscription has one consumer.  Topics are created on   *)
(* demand in the code; here all exist, and one that Close has not seen yet *)
(* stands for one created later.  Read only reads and is left out.         *)
(***************************************************************************)
EXTENDS Integers, Sequences

CONSTANTS
  Topic,        \* topics
  Event,        \* identities of appended records
  Producer,     \* goroutines that Append
  Linker,       \* goroutines that AttachSource
  Subscriber,   \* subscriptions
  None,         \* free lock, no attachment, no call
  Start,        \* positions after which attachments are asked to start
  From,         \* positions after which subscriptions are asked to start
  Retention,    \* maxRetainedPerTopic
  Limit,        \* capacity of a subscription's buffer
  Budget        \* MaxPendingBytes of a subscription, in records

Caller == Producer \cup Linker

ASSUME CallerAssumption == Producer \cap Linker = {} /\ None \notin Caller
ASSUME BoundAssumption  == {Retention, Limit, Budget} \subseteq Nat \ {0} /\ Start \cup From \subseteq Nat

VARIABLES
  entries,       \* everything a topic accepted, in order
  attachments,   \* attachments[s][d]: the start of the attachment of s to d
  closed,        \* topics that are closed
  closing,       \* Store.closed
  lock,          \* holder of topicState.mu
  attachMu,      \* holder of Store.attachMu
  frames,        \* the commits a caller is forwarding, the innermost last
  attach,        \* the attachment a linker is making
  sub            \* the state of each subscription

topics == <<entries, attachments, closed, closing>>
calls  == <<lock, attachMu, frames, attach>>
vars   == <<topics, calls, sub>>

Kind   == {"open", "backpressure", "closed", "canceled"}
SubPC  == {"idle", "waiting", "canceling"}
Frame  == [topic : Topic, rest : SUBSET Topic, event : Event]
Attach == [source : Topic, dest : Topic, start : Nat, todo : SUBSET Topic, seen : SUBSET Topic,
           backlog : Seq(Event), locked : BOOLEAN]
Sub    == [topic : Topic, gap : BOOLEAN, catchup : Seq(Nat), buffer : Seq(Nat), cursor : Nat,
           inFlight : 0 .. 1, pending : Int, kind : Kind, registered : BOOLEAN,
           doomed : BOOLEAN, pc : SubPC]

ASSUME NoneAssumption == None \notin Nat \cup Attach \cup Sub

Smaller(m, n) == IF m <= n THEN m ELSE n

head(t) == Len(entries[t])

\* The oldest retained position; 0 for an empty topic.
earliest(t) == IF head(t) <= Retention THEN Smaller(head(t), 1) ELSE head(t) - Retention + 1

\* The destinations attached to s.
Dests(s) == {d \in Topic : attachments[s][d] # None}

Init ==
  /\ entries = [t \in Topic |-> << >>]
  /\ attachments = [s \in Topic |-> [d \in Topic |-> None]]
  /\ closed = {}
  /\ closing = FALSE
  /\ lock = [t \in Topic |-> None]
  /\ attachMu = None
  /\ frames = [c \in Caller |-> << >>]
  /\ attach = [k \in Linker |-> None]
  /\ sub = [s \in Subscriber |-> None]

-----------------------------------------------------------------------------
(* Commits.                                                                *)

\* Mutation: the budget of a record that finds the buffer full is not released.
DeliverLeaks(q, position) ==
  IF q.pending < Budget /\ Len(q.buffer) < Limit
  THEN [q EXCEPT !.buffer = Append(@, position), !.pending = @ + 1]
  ELSE [q EXCEPT !.pending = Smaller(@ + 1, Budget), !.kind = "backpressure", !.registered = FALSE]

\* Mutation: a record that does not fit is dropped.
DeliverDrops(q, position) ==
  IF q.pending < Budget /\ Len(q.buffer) < Limit
  THEN [q EXCEPT !.buffer = Append(@, position), !.pending = @ + 1]
  ELSE q

\* liveSubscriber.deliver: the record fits into the budget and the buffer, or the
\* subscription ends and is taken off the topic.
Deliver(q, position) ==
  IF q.pending < Budget /\ Len(q.buffer) < Limit
  THEN [q EXCEPT !.buffer = Append(@, position), !.pending = @ + 1]
  ELSE [q EXCEPT !.kind = "backpressure", !.registered = FALSE]

\* commitLocked of a new identity, under the lock of t: the record gets the next
\* position and is offered to every registered subscription.
Commit(t, e) ==
  /\ entries' = [entries EXCEPT ![t] = Append(@, e)]
  /\ sub' = [s \in Subscriber |->
               IF sub[s] # None /\ sub[s].topic = t /\ sub[s].registered
               THEN Deliver(sub[s], head(t) + 1) ELSE sub[s]]

Known(t, e) == \E i \in DOMAIN entries[t] : entries[t][i] = e

\* Append of a new identity to an open topic.  A duplicate and a closed topic
\* change nothing.
AppendEvent(p, t, e) ==
  /\ frames[p] = << >>
  /\ lock[t] = None
  /\ t \notin closed
  /\ ~Known(t, e)
  /\ Commit(t, e)
  /\ lock' = [lock EXCEPT ![t] = p]
  /\ frames' = [frames EXCEPT ![p] = << [topic |-> t, rest |-> Dests(t), event |-> e] >>]
  /\ UNCHANGED <<attachments, closed, closing, attachMu, attach>>

\* The innermost commit of c, with one destination less to forward to.
Top(c) == frames[c][Len(frames[c])]
Shrunk(c, d) == [frames[c] EXCEPT ![Len(frames[c])].rest = @ \ {d}]

\* notifyAttachmentsLocked: forwardRecord waits for the lock of the destination
\* (closed or not) and commits there, holding the locks of the chain so far.
Forward(c, d) ==
  /\ frames[c] # << >>
  /\ d \in Top(c).rest
  /\ lock[d] = None
  /\ IF Known(d, Top(c).event)
     THEN /\ frames' = [frames EXCEPT ![c] = Shrunk(c, d)]
          /\ UNCHANGED <<entries, sub, lock>>
     ELSE /\ Commit(d, Top(c).event)
          /\ lock' = [lock EXCEPT ![d] = c]
          /\ frames' = [frames EXCEPT ![c] =
               Append(Shrunk(c, d), [topic |-> d, rest |-> Dests(d), event |-> Top(c).event])]
  /\ UNCHANGED <<attachments, closed, closing, attachMu, attach>>

\* The innermost commit is forwarded everywhere: its lock is released.
Unlock(c) ==
  /\ frames[c] # << >>
  /\ Top(c).rest = {}
  /\ lock' = [lock EXCEPT ![Top(c).topic] = None]
  /\ frames' = [frames EXCEPT ![c] = SubSeq(@, 1, Len(@) - 1)]
  /\ UNCHANGED <<topics, attachMu, attach, sub>>

-----------------------------------------------------------------------------
(* AttachSource.                                                           *)

NewAttach(s, d, start, first) ==
  [source |-> s, dest |-> d, start |-> start, todo |-> {first}, seen |-> {first},
   backlog |-> << >>, locked |-> FALSE]

\* Mutation: the search for a cycle starts at the source.
BeginAttachReversed(k, s, d, start) ==
  /\ attach[k] = None
  /\ attachMu = None
  /\ s # d
  /\ attachMu' = k
  /\ attach' = [attach EXCEPT ![k] = NewAttach(s, d, start, s)]
  /\ UNCHANGED <<topics, lock, frames, sub>>

\* attachMu is held to the end of the call.
BeginAttach(k, s, d, start) ==
  /\ attach[k] = None
  /\ attachMu = None
  /\ s # d
  /\ attachMu' = k
  /\ attach' = [attach EXCEPT ![k] = NewAttach(s, d, start, d)]
  /\ UNCHANGED <<topics, lock, frames, sub>>

\* The call returns without an attachment of its own.
Refuse(k) ==
  /\ attachMu' = None
  /\ attach' = [attach EXCEPT ![k] = None]
  /\ UNCHANGED <<topics, lock, frames, sub>>

\* reachable locks one topic of those found so far and adds its destinations; a
\* path from the destination to the source is refused.
Visit(k, t) ==
  LET a == attach[k] IN
    /\ a # None /\ t \in a.todo
    /\ lock[t] = None
    /\ IF a.source \in Dests(t) THEN Refuse(k)
       ELSE /\ attach' = [attach EXCEPT ![k].todo = (@ \ {t}) \cup (Dests(t) \ a.seen),
                                        ![k].seen = @ \cup Dests(t)]
            /\ UNCHANGED <<topics, lock, attachMu, frames, sub>>

\* No cycle was found, and the source is locked next.
Checked(k) == attach[k] # None /\ attach[k].todo = {} /\ ~attach[k].locked

\* The attachment exists, the source is closed, or its start is ahead of the
\* source or evicted from it: the call returns.
AttachRefused(k) ==
  LET a == attach[k] IN
    /\ Checked(k)
    /\ lock[a.source] = None
    /\ \/ attachments[a.source][a.dest] # None
       \/ a.source \in closed
       \/ a.start > head(a.source)
       \/ earliest(a.source) > 1 /\ a.start + 1 < earliest(a.source)
    /\ Refuse(k)

\* The source is locked and what it retains after the start is to be forwarded.
LockSource(k) ==
  LET a == attach[k] IN
    /\ Checked(k)
    /\ lock[a.source] = None
    /\ attachments[a.source][a.dest] = None
    /\ a.source \notin closed
    /\ a.start <= head(a.source)
    /\ earliest(a.source) > 1 => earliest(a.source) <= a.start + 1
    /\ lock' = [lock EXCEPT ![a.source] = k]
    /\ attach' = [attach EXCEPT
         ![k].locked = TRUE,
         ![k].backlog = SubSeq(entries[a.source], a.start + 1, head(a.source))]
    /\ UNCHANGED <<topics, attachMu, frames, sub>>

\* The next record of the backlog is forwarded.
ForwardBacklog(k) ==
  LET a == attach[k] IN
    /\ a # None /\ a.backlog # << >>
    /\ frames[k] = << >>
    /\ lock[a.dest] = None
    /\ attach' = [attach EXCEPT ![k].backlog = Tail(@)]
    /\ IF Known(a.dest, Head(a.backlog))
       THEN UNCHANGED <<entries, sub, lock, frames>>
       ELSE /\ Commit(a.dest, Head(a.backlog))
            /\ lock' = [lock EXCEPT ![a.dest] = k]
            /\ frames' = [frames EXCEPT ![k] =
                 << [topic |-> a.dest, rest |-> Dests(a.dest), event |-> Head(a.backlog)] >>]
    /\ UNCHANGED <<attachments, closed, closing, attachMu>>

\* Mutation: the source is unlocked before the destination is registered.
EndAttachUnlocked(k) ==
  LET a == attach[k] IN
    /\ a # None /\ a.locked
    /\ a.backlog = << >> /\ frames[k] = << >>
    /\ \/ /\ lock[a.source] = k
          /\ lock' = [lock EXCEPT ![a.source] = None]
          /\ UNCHANGED <<attachments, attachMu, attach>>
       \/ /\ lock[a.source] # k
          /\ attachments' = [attachments EXCEPT ![a.source][a.dest] = a.start]
          /\ attachMu' = None
          /\ attach' = [attach EXCEPT ![k] = None]
          /\ UNCHANGED lock
    /\ UNCHANGED <<entries, closed, closing, frames, sub>>

\* The destination is registered, under the same lock of the source.
EndAttach(k) ==
  LET a == attach[k] IN
    /\ a # None /\ a.locked
    /\ a.backlog = << >> /\ frames[k] = << >>
    /\ attachments' = [attachments EXCEPT ![a.source][a.dest] = a.start]
    /\ lock' = [lock EXCEPT ![a.source] = None]
    /\ attachMu' = None
    /\ attach' = [attach EXCEPT ![k] = None]
    /\ UNCHANGED <<entries, closed, closing, frames, sub>>

-----------------------------------------------------------------------------
(* Subscriptions.                                                          *)

\* Subscribe after position from, under the lock of t: the retained records as far
\* as the budget goes, preceded by a gap when some are evicted; the subscription is
\* registered for what follows unless the budget is spent or the topic is closed.
Subscribe(s, t, from) ==
  /\ sub[s] = None
  /\ lock[t] = None
  /\ from <= head(t)
  /\ LET gap   == earliest(t) > 1 /\ from + 1 < earliest(t)
         after == IF gap THEN earliest(t) - 1 ELSE from
         size  == Smaller(head(t) - after, Budget)
         kind  == IF size < head(t) - after THEN "backpressure"
                  ELSE IF t \in closed THEN "closed" ELSE "open"
     IN  sub' = [sub EXCEPT ![s] =
           [topic |-> t, gap |-> gap, catchup |-> [i \in 1 .. size |-> after + i],
            buffer |-> << >>, cursor |-> after, inFlight |-> 0, pending |-> size,
            kind |-> kind, registered |-> kind = "open", doomed |-> FALSE,
            pc |-> "idle"]]
  /\ UNCHANGED <<topics, calls>>

\* Subscription s exists, and its consumer is at p.
At(s, p) == sub[s] # None /\ sub[s].pc = p

\* next releases what its last call delivered, and then delivers the gap or the
\* next retained record, or goes on to wait for the buffer.
NextCall(s) ==
  /\ At(s, "idle")
  /\ LET q == [sub[s] EXCEPT !.pending = @ - sub[s].inFlight, !.inFlight = 0] IN
       sub' = [sub EXCEPT ![s] =
         IF q.gap THEN [q EXCEPT !.gap = FALSE]
         ELSE IF q.catchup # << >>
              THEN [q EXCEPT !.cursor = Head(q.catchup), !.catchup = Tail(@), !.inFlight = 1]
              ELSE [q EXCEPT !.pc = "waiting"]]
  /\ UNCHANGED <<topics, calls>>

\* next delivers a record from the buffer, or the kind with which a drained one was
\* closed: the subscription is over, and its owner may make another.
Receive(s) ==
  /\ At(s, "waiting")
  /\ \/ /\ sub[s].buffer # << >>
        /\ sub' = [sub EXCEPT ![s].cursor = Head(sub[s].buffer), ![s].buffer = Tail(@),
                              ![s].inFlight = 1, ![s].pc = "idle"]
     \/ /\ sub[s].buffer = << >>
        /\ sub[s].kind # "open"
        /\ sub' = [sub EXCEPT ![s] = None]
  /\ UNCHANGED <<topics, calls>>

\* The context of next is over: nothing of the subscription is delivered any more, and
\* what is still sent to its buffer is not received.
CancelNext(s) ==
  /\ At(s, "idle") \/ At(s, "waiting")
  /\ sub' = [sub EXCEPT ![s].gap = FALSE, ![s].catchup = << >>, ![s].pc = "canceling"]
  /\ UNCHANGED <<topics, calls>>

\* Mutation: the buffer is closed before the subscription is unregistered.
UnregisterLate(s) ==
  /\ At(s, "canceling")
  /\ IF sub[s].kind = "open" THEN sub' = [sub EXCEPT ![s].kind = "canceled"]
     ELSE /\ sub[s].registered => lock[sub[s].topic] = None
          /\ sub' = [sub EXCEPT ![s] = None]
  /\ UNCHANGED <<topics, calls>>

\* cancel takes the lock of the topic to unregister, and closes the buffer then: the
\* subscription is over.
Unregister(s) ==
  /\ At(s, "canceling")
  /\ sub[s].registered => lock[sub[s].topic] = None
  /\ sub' = [sub EXCEPT ![s] = None]
  /\ UNCHANGED <<topics, calls>>

-----------------------------------------------------------------------------
(* Close.                                                                  *)

Close ==
  /\ ~closing
  /\ closing' = TRUE
  /\ UNCHANGED <<entries, attachments, closed, calls, sub>>

\* closeLocked: the topic forgets its subscriptions and its attachments.
CloseTopic(t) ==
  /\ closing
  /\ t \notin closed
  /\ lock[t] = None
  /\ closed' = closed \cup {t}
  /\ attachments' = [attachments EXCEPT ![t] = [d \in Topic |-> None]]
  /\ sub' = [s \in Subscriber |->
               IF sub[s] # None /\ sub[s].topic = t /\ sub[s].registered
               THEN [sub[s] EXCEPT !.registered = FALSE, !.doomed = TRUE] ELSE sub[s]]
  /\ UNCHANGED <<entries, closing, calls>>

\* Each of them is told, after the lock was released.
CloseSub(s) ==
  /\ sub[s] # None /\ sub[s].doomed
  /\ sub' = [sub EXCEPT ![s].doomed = FALSE, ![s].kind = IF @ = "open" THEN "closed" ELSE @]
  /\ UNCHANGED <<topics, calls>>

-----------------------------------------------------------------------------

CallStep(c) == Unlock(c) \/ \E d \in Topic : Forward(c, d)

LinkStep(k) ==
  \/ \E t \in Topic : Visit(k, t)
  \/ AttachRefused(k) \/ LockSource(k) \/ ForwardBacklog(k) \/ EndAttach(k)

Next ==
  \/ \E p \in Producer, t \in Topic, e \in Event : AppendEvent(p, t, e)
  \/ \E c \in Caller : CallStep(c)
  \/ \E k \in Linker, s \in Topic, d \in Topic, start \in Start : BeginAttach(k, s, d, start)
  \/ \E k \in Linker : LinkStep(k)
  \/ \E s \in Subscriber, t \in Topic, from \in From : Subscribe(s, t, from)
  \/ \E s \in Subscriber : NextCall(s) \/ Receive(s) \/ CancelNext(s) \/ Unregister(s) \/ CloseSub(s)
  \/ Close \/ \E t \in Topic : CloseTopic(t)

Spec == Init /\ [][Next]_vars

-----------------------------------------------------------------------------
(* Properties.                                                             *)

TypeOK ==
  /\ entries \in [Topic -> Seq(Event)]
  /\ attachments \in [Topic -> [Topic -> Nat \cup {None}]]
  /\ closed \subseteq Topic /\ closing \in BOOLEAN
  /\ lock \in [Topic -> Caller \cup {None}]
  /\ attachMu \in Linker \cup {None}
  /\ frames \in [Caller -> Seq(Frame)]
  /\ attach \in [Linker -> Attach \cup {None}]
  /\ sub \in [Subscriber -> Sub \cup {None}]

\* From the retained records to the live ones a subscription meets every position
\* after its cursor once and in order, and while it is registered nothing is missing
\* up to the head (Subscribe, notifySubscribersLocked, next).
SubscriberSeesAll ==
  \A s \in Subscriber : sub[s] # None /\ sub[s].pc # "canceling" =>
    LET ahead == sub[s].catchup \o sub[s].buffer IN
      /\ \A i \in DOMAIN ahead : ahead[i] = sub[s].cursor + i
      /\ sub[s].registered => sub[s].cursor + Len(ahead) = head(sub[s].topic)

\* A topic that commits sends to open subscriptions only: whoever closes a buffer has
\* taken its subscription off the topic first (cancel, closeLocked, deliver).
SendsAreSafe ==
  \A s \in Subscriber : sub[s] # None /\ sub[s].registered => sub[s].kind = "open"

\* The byte budget of a live subscription is charged for exactly the records it holds
\* or has delivered last, and never overdrawn (reserve, release).
BudgetExact ==
  \A s \in Subscriber : sub[s] # None /\ sub[s].pc # "canceling" =>
    /\ sub[s].pending = Len(sub[s].catchup) + Len(sub[s].buffer) + sub[s].inFlight
    /\ sub[s].pending <= Budget

\* A topic accepts a record once, however many ways it takes; and when no call works
\* on a topic, everything it accepted since an attachment began is in the destination
\* (AttachSource, commitLocked, forwardRecord).
AttachmentExact ==
  /\ \A t \in Topic : \A i, j \in DOMAIN entries[t] : entries[t][i] = entries[t][j] => i = j
  /\ \A s, d \in Topic : attachments[s][d] # None /\ lock[s] = None =>
       \A i \in DOMAIN entries[s] : i > attachments[s][d] => Known(d, entries[s][i])

\* The topics caller c has yet to lock while it holds others.
Wanted(c) ==
  IF frames[c] # << >> THEN Top(c).rest
  ELSE IF c \in Linker /\ attach[c] # None /\ attach[c].backlog # << >> THEN {attach[c].dest}
  ELSE {}

\* Callers that forward along chains of attachments never wait for one another in a
\* circle, whatever is attached or closed meanwhile (AttachSource, reachable).
NoLockCycle ==
  \A C \in (SUBSET Caller) \ {{}} : \E c \in C : \A d \in Wanted(c) : lock[d] \notin C
=============================================================================
