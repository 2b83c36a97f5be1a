------------------------------ MODULE EventBus ------------------------------
(***************************************************************************)
(* The in-process event bus: a log of events, the subscriptions of each    *)
(* type in order, and the set of deliveries that are done.  publish holds  *)
(* a reentrant lock while it calls the handlers one after the other; a     *)
(* handler may publish in turn, and may raise.  One thread at a time is    *)
(* inside, so one stack of frames stands for its nested calls of publish.  *)
(*                                                                         *)
(* A subscription is its type and its place in the type's list: the        *)
(* program subscribes bound methods, and id() tells those apart.           *)
(***************************************************************************)
EXTENDS Naturals, Sequences

CONSTANTS Publishers,        \* the threads that publish
          NoPublisher,       \* the lock is free
          Types,             \* event types
          Handlers,          \* the functions that are subscribed
          Subscribable,      \* which handler the program may subscribe to which type
          Publishes,         \* the types that a handler publishes itself
          Level,             \* a rank of the types: handlers publish upwards
          EventIds,
          MaxEvents,         \* bound: events in the log
          MaxSubscriptions   \* bound: subscriptions of one type

\* Every event handler of the program publishes events that come later in the
\* saga (PaymentSucceeded -> TicketIssued), so deliveries are not recursive.
ASSUME BusAssumption ==
  /\ NoPublisher \notin Publishers
  /\ Subscribable \subseteq Types \X Handlers
  /\ Publishes \in [Handlers -> SUBSET Types]
  /\ Level \in [Types -> Nat]
  /\ \A sub \in Subscribable : \A u \in Publishes[sub[2]] : Level[sub[1]] < Level[u]
  /\ MaxEvents \in Nat
  /\ MaxSubscriptions \in Nat

VARIABLES handlers,    \* _handlers: for each type, the handlers in order of subscription
          processed,   \* _processed: deliveries <<type, place, event id>> that are done
          log,         \* _events
          owner,       \* the thread that holds _lock
          frames,      \* its calls of publish, the innermost last
          done,        \* history: the deliveries in the order they were completed
          failed       \* history: places in the log of the events whose delivery was cut short

vars == <<handlers, processed, log, owner, frames, done, failed>>

Event == [type : Types, id : EventIds]

\* at: the event's place in the log; next: the place of the handler whose turn
\* it is; running: that handler has been called and has not returned.
Frame == [type : Types, id : EventIds, at : Nat, next : Nat \ {0}, running : BOOLEAN]

Delivery == [type : Types, place : Nat \ {0}, id : EventIds, at : Nat]

Ids == {log[i].id : i \in DOMAIN log}

Init ==
  /\ handlers = [y \in Types |-> <<>>]
  /\ processed = {}
  /\ log = <<>>
  /\ owner = NoPublisher
  /\ frames = <<>>
  /\ done = <<>>
  /\ failed = {}

\* subscribe() takes no lock: it can run while the list is being walked.
Subscribe(y, h) ==
  /\ <<y, h>> \in Subscribable
  /\ Len(handlers[y]) < MaxSubscriptions
  /\ handlers' = [handlers EXCEPT ![y] = Append(@, h)]
  /\ UNCHANGED <<processed, log, owner, frames, done, failed>>

NewFrame(y, id) == [type |-> y, id |-> id, at |-> Len(log) + 1, next |-> 1, running |-> FALSE]

Enter(y, id) ==
  /\ Len(log) < MaxEvents
  /\ log' = Append(log, [type |-> y, id |-> id])
  /\ frames' = Append(frames, NewFrame(y, id))
  /\ UNCHANGED <<handlers, processed, done, failed>>

\* Variant: publish without the lock.
PublishUnlocked(p, y, id) ==
  /\ Len(log) < MaxEvents
  /\ owner' = p
  /\ Enter(y, id)

\* A thread publishes, with an event id of its own choice or a fresh one.
Publish(p, y, id) ==
  /\ owner = NoPublisher
  /\ owner' = p
  /\ Enter(y, id)

Depth == Len(frames)
Top == frames[Depth]
Key == <<Top.type, Top.next, Top.id>>
HasNext == Depth > 0 /\ ~Top.running /\ Top.next <= Len(handlers[Top.type])
Running == Depth > 0 /\ Top.running

\* The frames once the delivery of the innermost one has reached handler n.
TopAt(n, running) ==
  [frames EXCEPT ![Depth] = [type |-> Top.type, id |-> Top.id, at |-> Top.at,
                             next |-> n, running |-> running]]

Skip ==
  /\ HasNext
  /\ Key \in processed
  /\ frames' = TopAt(Top.next + 1, FALSE)
  /\ UNCHANGED <<handlers, processed, log, owner, done, failed>>

\* Variant: the set of done deliveries is not looked at.
CallAgain ==
  /\ HasNext
  /\ frames' = TopAt(Top.next, TRUE)
  /\ UNCHANGED <<handlers, processed, log, owner, done, failed>>

Call ==
  /\ HasNext
  /\ Key \notin processed
  /\ frames' = TopAt(Top.next, TRUE)
  /\ UNCHANGED <<handlers, processed, log, owner, done, failed>>

\* The running handler publishes an event of type y: the lock is reentrant.
\* Handlers let publish choose the event id, which is new.
PublishNested(y, id) ==
  /\ Running
  /\ y \in Publishes[handlers[Top.type][Top.next]]
  /\ id \notin Ids
  /\ Enter(y, id)
  /\ UNCHANGED owner

\* The running handler returns, and its delivery is marked.
Complete ==
  /\ Running
  /\ processed' = processed \cup {Key}
  /\ done' = Append(done, [type |-> Top.type, place |-> Top.next, id |-> Top.id, at |-> Top.at])
  /\ frames' = TopAt(Top.next + 1, FALSE)
  /\ UNCHANGED <<handlers, log, owner, failed>>

\* Variant: publish catches what a handler raises and goes on with the next.
HandlerRaisesQuietly ==
  /\ Running
  /\ failed' = failed \cup {Top.at}
  /\ frames' = TopAt(Top.next + 1, FALSE)
  /\ UNCHANGED <<handlers, processed, log, owner, done>>

\* Variant: the lock is not released when an exception leaves publish.
HandlerRaisesLocked ==
  /\ Running
  /\ failed' = failed \cup {frames[i].at : i \in DOMAIN frames}
  /\ frames' = <<>>
  /\ UNCHANGED <<handlers, processed, log, owner, done>>

\* The running handler raises.  No handler catches what a nested publish
\* raises, so the exception leaves every frame and releases the lock.
HandlerRaises ==
  /\ Running
  /\ failed' = failed \cup {frames[i].at : i \in DOMAIN frames}
  /\ frames' = <<>>
  /\ owner' = NoPublisher
  /\ UNCHANGED <<handlers, processed, log, done>>

\* Variant: the last handler is left out.
ReturnEarly ==
  /\ Depth > 0
  /\ ~Top.running
  /\ Top.next >= Len(handlers[Top.type])
  /\ frames' = SubSeq(frames, 1, Depth - 1)
  /\ owner' = IF Depth = 1 THEN NoPublisher ELSE owner
  /\ UNCHANGED <<handlers, processed, log, done, failed>>

\* Every handler has had its turn: the innermost call returns.
Return ==
  /\ Depth > 0
  /\ ~Top.running
  /\ Top.next > Len(handlers[Top.type])
  /\ frames' = SubSeq(frames, 1, Depth - 1)
  /\ owner' = IF Depth = 1 THEN NoPublisher ELSE owner
  /\ UNCHANGED <<handlers, processed, log, done, failed>>

Deliver == Skip \/ Call \/ Complete \/ HandlerRaises \/ Return

Next ==
  \/ \E y \in Types, h \in Handlers : Subscribe(y, h)
  \/ \E p \in Publishers, y \in Types, id \in EventIds : Publish(p, y, id)
  \/ \E y \in Types, id \in EventIds : PublishNested(y, id)
  \/ Deliver

Spec == Init /\ [][Next]_vars

\* Inside publish the code goes on by itself, and a handler returns or raises.
FairSpec == Spec /\ WF_vars(Deliver)
-----------------------------------------------------------------------------
\* The types of the variables; a thread is inside exactly when there is a frame.
TypeOK ==
  /\ handlers \in [Types -> Seq(Handlers)]
  /\ processed \subseteq Types \X (Nat \ {0}) \X EventIds
  /\ log \in Seq(Event)
  /\ owner \in Publishers \cup {NoPublisher}
  /\ frames \in Seq(Frame)
  /\ done \in Seq(Delivery)
  /\ failed \subseteq Nat
  /\ owner = NoPublisher <=> frames = <<>>

\* Idempotent consumers: no subscription completes the same event id twice,
\* however often the event is published, by whom, and whatever raised before.
OncePerEventId ==
  \A i, j \in DOMAIN done :
    /\ done[i].type = done[j].type
    /\ done[i].place = done[j].place
    /\ done[i].id = done[j].id
    => i = j

\* The handlers of a type complete an event in order of subscription, with no
\* gap: after a handler raised, the ones behind it have not seen the event.
HandledInOrder ==
  \A k \in processed : \A n \in 1 .. k[2] - 1 : <<k[1], n, k[3]>> \in processed

\* A subscription sees the events of its type in the order of the log, also
\* when they come from several threads, from handlers, or for the second time.
PublicationOrder ==
  \A i, j \in DOMAIN done :
    i < j /\ done[i].type = done[j].type /\ done[i].place = done[j].place
    => done[i].at < done[j].at

\* An event whose delivery has begun gets to all handlers of its type, unless
\* one of them raises: it is not stuck behind a nested event or another thread.
EventsGetThrough ==
  \A i \in 1 .. MaxEvents :
    (\E d \in DOMAIN frames : frames[d].at = i)
      ~> \/ i \in failed
         \/ /\ i \in DOMAIN log
            /\ \A n \in DOMAIN handlers[log[i].type] :
                 <<log[i].type, n, log[i].id>> \in processed
=============================================================================
