-------------------------- MODULE EventBus_proofs --------------------------
(***************************************************************************)
(* Proofs about the event bus, for any threads, types, handlers and number *)
(* of events: types, idempotent delivery, order of handlers, order of      *)
(* events.                                                                 *)
(***************************************************************************)
EXTENDS EventBus, TLAPS

\* The lists of handlers hold what the program may subscribe.
Subscribed ==
  \A y \in Types : \A n \in DOMAIN handlers[y] : <<y, handlers[y][n]>> \in Subscribable

\* Nested calls publish upwards, and the outer ones wait in a handler.
Nesting ==
  /\ \A i, j \in DOMAIN frames : i < j => Level[frames[i].type] < Level[frames[j].type]
  /\ \A i \in DOMAIN frames : i < Len(frames) => frames[i].running

\* How far a call of publish has got: everything before next is done, and a
\* handler that is running has not been marked.
Progressing ==
  \A i \in DOMAIN frames :
    /\ frames[i].next <= Len(handlers[frames[i].type]) + 1
    /\ \A n \in 1 .. frames[i].next - 1 :
         <<frames[i].type, n, frames[i].id>> \in processed
    /\ frames[i].running =>
         /\ frames[i].next <= Len(handlers[frames[i].type])
         /\ <<frames[i].type, frames[i].next, frames[i].id>> \notin processed

\* What is in the history has been marked.
DoneIsProcessed ==
  \A i \in DOMAIN done : <<done[i].type, done[i].place, done[i].id>> \in processed

\* The history of a type ends where the call that delivers the type stands.
HistoryIsBehind ==
  /\ \A i \in DOMAIN frames : frames[i].at <= Len(log)
  /\ \A i \in DOMAIN done : done[i].at <= Len(log)
  /\ \A i \in DOMAIN done, k \in DOMAIN frames :
       done[i].type = frames[k].type =>
         /\ done[i].at <= frames[k].at
         /\ done[i].at = frames[k].at => done[i].place < frames[k].next

IInv ==
  /\ TypeOK
  /\ Subscribed
  /\ Nesting
  /\ Progressing
  /\ DoneIsProcessed
  /\ HistoryIsBehind
  /\ OncePerEventId
  /\ HandledInOrder
  /\ PublicationOrder
-----------------------------------------------------------------------------
\* Moving the innermost call on leaves the other calls alone.
LEMMA TopAtFrames ==
  ASSUME frames \in Seq(Frame), Len(frames) > 0,
         NEW n \in Nat \ {0}, NEW b \in BOOLEAN, NEW F, F = TopAt(n, b)
  PROVE  /\ F \in Seq(Frame)
         /\ Len(F) = Len(frames)
         /\ DOMAIN F = DOMAIN frames
         /\ \A i \in DOMAIN frames : i # Len(frames) => F[i] = frames[i]
         /\ F[Len(frames)].type = Top.type
         /\ F[Len(frames)].id = Top.id
         /\ F[Len(frames)].at = Top.at
         /\ F[Len(frames)].next = n
         /\ F[Len(frames)].running = b
<1> DEFINE d == Len(frames)
           g == [type |-> Top.type, id |-> Top.id, at |-> Top.at, next |-> n, running |-> b]
<1>1. d \in DOMAIN frames /\ frames[d] \in Frame
  OBVIOUS
<1>2. g \in Frame
  BY <1>1 DEF Frame, Top, Depth
<1>3. F = [frames EXCEPT ![d] = g]
  BY DEF TopAt, Depth
<1>4. /\ g.type = Top.type
      /\ g.id = Top.id
      /\ g.at = Top.at
      /\ g.next = n
      /\ g.running = b
  OBVIOUS
<1> HIDE DEF g
<1>5. F \in Seq(Frame) /\ Len(F) = d /\ DOMAIN F = DOMAIN frames
  BY <1>1, <1>2, <1>3
<1>6. F[d] = g /\ \A i \in DOMAIN frames : i # d => F[i] = frames[i]
  BY <1>1, <1>3
<1>7. QED
  BY <1>4, <1>5, <1>6

\* The innermost call is a frame, and its key one of a delivery.
LEMMA TopTyped ==
  ASSUME TypeOK, Depth > 0
  PROVE  /\ Depth \in DOMAIN frames /\ Depth \in Nat /\ DOMAIN frames = 1 .. Depth
         /\ Top \in Frame /\ Top = frames[Depth]
         /\ Top.type \in Types /\ Top.id \in EventIds /\ Top.at \in Nat
         /\ Top.next \in Nat \ {0} /\ Top.running \in BOOLEAN
         /\ handlers[Top.type] \in Seq(Handlers)
         /\ Key \in Types \X (Nat \ {0}) \X EventIds
<1>1. frames \in Seq(Frame)
  BY DEF TypeOK
<1>2. Depth \in DOMAIN frames /\ Depth \in Nat /\ DOMAIN frames = 1 .. Depth
  BY <1>1 DEF Depth
<1>3. Top \in Frame /\ Top = frames[Depth]
  BY <1>1, <1>2 DEF Top
<1>4. /\ Top.type \in Types /\ Top.id \in EventIds /\ Top.at \in Nat
      /\ Top.next \in Nat \ {0} /\ Top.running \in BOOLEAN
  BY <1>3 DEF Frame
<1>5. handlers[Top.type] \in Seq(Handlers)
  BY <1>4 DEF TypeOK
<1>6. QED
  BY <1>2, <1>3, <1>4, <1>5 DEF Key

\* The fields of the frames.
LEMMA FramesTyped ==
  ASSUME TypeOK
  PROVE  \A i \in DOMAIN frames :
           /\ frames[i].type \in Types /\ frames[i].id \in EventIds /\ frames[i].at \in Nat
           /\ frames[i].next \in Nat \ {0} /\ frames[i].running \in BOOLEAN
<1> SUFFICES ASSUME NEW i \in DOMAIN frames
             PROVE  /\ frames[i].type \in Types /\ frames[i].id \in EventIds
                    /\ frames[i].at \in Nat /\ frames[i].next \in Nat \ {0}
                    /\ frames[i].running \in BOOLEAN
  OBVIOUS
<1>1. frames[i] \in Frame
  BY DEF TypeOK
<1>2. QED
  BY <1>1 DEF Frame

\* The fields of the completed deliveries.
LEMMA DoneTyped ==
  ASSUME TypeOK
  PROVE  \A i \in DOMAIN done :
           /\ done[i].type \in Types /\ done[i].place \in Nat \ {0}
           /\ done[i].id \in EventIds /\ done[i].at \in Nat
<1> SUFFICES ASSUME NEW i \in DOMAIN done
             PROVE  /\ done[i].type \in Types /\ done[i].place \in Nat \ {0}
                    /\ done[i].id \in EventIds /\ done[i].at \in Nat
  OBVIOUS
<1>1. done[i] \in Delivery
  BY DEF TypeOK
<1>2. QED
  BY <1>1 DEF Delivery

\* Subscribing extends one list at its end.
LEMMA SubscribeKeeps ==
  ASSUME IInv, NEW y \in Types, NEW h \in Handlers, Subscribe(y, h)
  PROVE  IInv'
<1> USE DEF IInv
<1>1. UNCHANGED <<processed, log, owner, frames, done, failed>>
  BY DEF Subscribe
<1>2. /\ handlers \in [Types -> Seq(Handlers)]
      /\ handlers' = [handlers EXCEPT ![y] = Append(handlers[y], h)]
      /\ <<y, h>> \in Subscribable
  BY DEF Subscribe, TypeOK
<1>3. handlers' \in [Types -> Seq(Handlers)]
  BY <1>2
<1>4. \A z \in Types : /\ Len(handlers[z]) \in Nat
                       /\ Len(handlers'[z]) \in Nat
                       /\ Len(handlers[z]) <= Len(handlers'[z])
  BY <1>2
<1>5. \A z \in Types : \A n \in DOMAIN handlers'[z] :
        \/ n \in DOMAIN handlers[z] /\ handlers'[z][n] = handlers[z][n]
        \/ z = y /\ handlers'[z][n] = h
  BY <1>2
<1>6. TypeOK'
  BY <1>1, <1>3 DEF TypeOK, Event, Frame, Delivery
<1>7. Subscribed'
  BY <1>2, <1>5 DEF Subscribed
<1>8. Nesting'
  BY <1>1 DEF Nesting
<1>9. Progressing'
  <2>1. \A i \in DOMAIN frames : frames[i].type \in Types /\ frames[i].next \in Nat
    BY FramesTyped
  <2> SUFFICES ASSUME NEW i \in DOMAIN frames
               PROVE  /\ frames[i].next <= Len(handlers'[frames[i].type]) + 1
                      /\ frames[i].running => frames[i].next <= Len(handlers'[frames[i].type])
    BY <1>1 DEF Progressing
  <2>2. /\ frames[i].next <= Len(handlers[frames[i].type]) + 1
        /\ frames[i].running => frames[i].next <= Len(handlers[frames[i].type])
    BY DEF Progressing
  <2>3. /\ Len(handlers[frames[i].type]) \in Nat
        /\ Len(handlers'[frames[i].type]) \in Nat
        /\ Len(handlers[frames[i].type]) <= Len(handlers'[frames[i].type])
        /\ frames[i].next \in Nat
    BY <1>4, <2>1
  <2> HIDE DEF IInv
  <2>4. QED
    BY <2>2, <2>3
<1>10. DoneIsProcessed' /\ HistoryIsBehind'
  BY <1>1 DEF DoneIsProcessed, HistoryIsBehind
<1>11. OncePerEventId' /\ HandledInOrder' /\ PublicationOrder'
  BY <1>1 DEF OncePerEventId, HandledInOrder, PublicationOrder
<1>12. QED
  BY <1>6, <1>7, <1>8, <1>9, <1>10, <1>11

\* A step that leaves subscriptions, marks and history alone keeps what is
\* said of them.
LEMMA HistoryKept ==
  ASSUME IInv, UNCHANGED <<handlers, processed, done>>
  PROVE  Subscribed' /\ DoneIsProcessed' /\ OncePerEventId' /\ HandledInOrder' /\ PublicationOrder'
BY DEF IInv, Subscribed, DoneIsProcessed, OncePerEventId, HandledInOrder, PublicationOrder

\* A new call of publish whose type is above the types of the calls around it.
LEMMA EnterKeeps ==
  ASSUME IInv, NEW y \in Types, NEW id \in EventIds, Enter(y, id),
         owner' \in Publishers,
         \A i \in DOMAIN frames : Level[frames[i].type] < Level[y] /\ frames[i].running
  PROVE  IInv'
<1> DEFINE f == NewFrame(y, id)
<1> USE DEF IInv
<1>1. UNCHANGED <<handlers, processed, done, failed>>
  BY DEF Enter
<1>2. log \in Seq(Event) /\ Len(log) \in Nat
  BY DEF TypeOK
<1>3. /\ f \in Frame
      /\ f.type = y /\ f.id = id /\ f.next = 1 /\ f.running = FALSE /\ f.at = Len(log) + 1
  BY <1>2 DEF NewFrame, Frame
<1>4. log' \in Seq(Event) /\ Len(log') = Len(log) + 1
  BY <1>2 DEF Enter, Event
<1>5. frames \in Seq(Frame) /\ frames' = Append(frames, f)
  BY DEF Enter, TypeOK
<1> HIDE DEF f
<1>6. /\ frames' \in Seq(Frame)
      /\ Len(frames) \in Nat
      /\ Len(frames') = Len(frames) + 1
      /\ DOMAIN frames = 1 .. Len(frames)
      /\ DOMAIN frames' = 1 .. Len(frames) + 1
      /\ \A i \in DOMAIN frames : frames'[i] = frames[i]
      /\ frames'[Len(frames) + 1] = f
      /\ frames' # <<>>
  BY <1>3, <1>5
<1>7. TypeOK'
  <2>1. owner' \in Publishers \cup {NoPublisher} /\ owner' # NoPublisher
    BY BusAssumption
  <2>2. QED
    BY <1>1, <1>4, <1>6, <2>1 DEF TypeOK, Event, Frame, Delivery
<1>8. Nesting'
  <2>1. \A i, j \in DOMAIN frames' : i < j => Level[frames'[i].type] < Level[frames'[j].type]
    BY <1>3, <1>6 DEF Nesting
  <2>2. \A i \in DOMAIN frames' : i < Len(frames') => frames'[i].running
    BY <1>6
  <2>3. QED
    BY <2>1, <2>2 DEF Nesting
<1>9. Progressing'
  <2> SUFFICES ASSUME NEW i \in DOMAIN frames'
               PROVE  /\ frames'[i].next <= Len(handlers'[frames'[i].type]) + 1
                      /\ \A n \in 1 .. frames'[i].next - 1 :
                           <<frames'[i].type, n, frames'[i].id>> \in processed'
                      /\ frames'[i].running =>
                           /\ frames'[i].next <= Len(handlers'[frames'[i].type])
                           /\ <<frames'[i].type, frames'[i].next, frames'[i].id>> \notin processed'
    BY DEF Progressing
  <2>1. CASE i \in DOMAIN frames
    BY <1>1, <1>6, <2>1 DEF Progressing
  <2>2. CASE i = Len(frames) + 1
    <3>1. frames'[i] = f /\ Len(handlers[y]) \in Nat
      BY <1>6, <2>2 DEF TypeOK
    <3>2. QED
      BY <1>1, <1>3, <3>1
  <2>3. QED
    BY <1>6, <2>1, <2>2
<1>10. HistoryIsBehind'
  <2>1. \A i \in DOMAIN done : done[i].at \in Nat /\ done[i].at <= Len(log)
    BY DoneTyped DEF HistoryIsBehind
  <2>2. \A i \in DOMAIN frames : frames[i].at \in Nat /\ frames[i].at <= Len(log)
    BY FramesTyped DEF HistoryIsBehind
  <2>3. \A i \in DOMAIN frames' : frames'[i].at <= Len(log')
    BY <1>2, <1>3, <1>4, <1>6, <2>2
  <2>4. \A i \in DOMAIN done' : done'[i].at <= Len(log')
    BY <1>1, <1>2, <1>4, <2>1
  <2>5. ASSUME NEW i \in DOMAIN done', NEW k \in DOMAIN frames', done'[i].type = frames'[k].type
        PROVE  /\ done'[i].at <= frames'[k].at
               /\ done'[i].at = frames'[k].at => done'[i].place < frames'[k].next
    <3>1. CASE k \in DOMAIN frames
      BY <1>1, <1>6, <2>5, <3>1 DEF HistoryIsBehind
    <3>2. CASE k = Len(frames) + 1
      BY <1>1, <1>2, <1>3, <1>6, <2>1, <3>2
    <3>3. QED
      BY <1>6, <3>1, <3>2
  <2>6. QED
    BY <2>3, <2>4, <2>5 DEF HistoryIsBehind
<1>11. QED
  BY <1>1, <1>7, <1>8, <1>9, <1>10, HistoryKept

\* When only the innermost call moves on, to handler n: what it must have
\* reached, for the calls to be in order again.
LEMMA TopMoves ==
  ASSUME IInv, Depth > 0, NEW n \in Nat \ {0}, NEW b \in BOOLEAN,
         frames' = TopAt(n, b),
         UNCHANGED <<handlers, log, owner>>,
         processed \subseteq processed',
         processed' \subseteq processed \cup {Key},
         b => Key \notin processed' /\ n = Top.next,
         n <= Len(handlers[Top.type]) + 1,
         b => n <= Len(handlers[Top.type]),
         n = Top.next \/ (n = Top.next + 1 /\ Key \in processed')
  PROVE  /\ frames' \in Seq(Frame) /\ frames' # <<>>
         /\ Nesting'
         /\ Progressing'
         /\ DOMAIN frames' = DOMAIN frames
         /\ \A i \in DOMAIN frames : /\ frames'[i].type = frames[i].type
                                     /\ frames'[i].at = frames[i].at
                                     /\ i # Len(frames) => frames'[i] = frames[i]
         /\ frames'[Len(frames)].next = n
<1>1. TypeOK /\ Nesting /\ Progressing /\ frames \in Seq(Frame)
  BY DEF IInv, TypeOK
<1>2. /\ Depth = Len(frames) /\ Depth \in Nat
      /\ DOMAIN frames = 1 .. Depth /\ Depth \in DOMAIN frames
      /\ Top = frames[Depth] /\ Top.type \in Types /\ Top.next \in Nat \ {0}
      /\ handlers[Top.type] \in Seq(Handlers)
  BY <1>1, TopTyped DEF Depth
<1>3. /\ frames' \in Seq(Frame)
      /\ Len(frames') = Depth
      /\ DOMAIN frames' = DOMAIN frames
      /\ \A i \in DOMAIN frames : i # Depth => frames'[i] = frames[i]
      /\ frames'[Depth].type = Top.type
      /\ frames'[Depth].id = Top.id
      /\ frames'[Depth].at = Top.at
      /\ frames'[Depth].next = n
      /\ frames'[Depth].running = b
  BY <1>1, <1>2, TopAtFrames
<1>4. \A i \in DOMAIN frames : /\ frames'[i].type = frames[i].type
                               /\ frames'[i].id = frames[i].id
                               /\ frames'[i].at = frames[i].at
  BY <1>2, <1>3
<1>5. Nesting'
  <2>1. \A i, j \in DOMAIN frames' : i < j => Level[frames'[i].type] < Level[frames'[j].type]
    BY <1>1, <1>3, <1>4 DEF Nesting
  <2>2. \A i \in DOMAIN frames' : i < Len(frames') => frames'[i].running
    BY <1>1, <1>2, <1>3 DEF Nesting
  <2>3. QED
    BY <2>1, <2>2 DEF Nesting
<1>6. Progressing'
  <2> SUFFICES ASSUME NEW i \in DOMAIN frames
               PROVE  /\ frames'[i].next <= Len(handlers[frames[i].type]) + 1
                      /\ \A m \in 1 .. frames'[i].next - 1 :
                           <<frames[i].type, m, frames[i].id>> \in processed'
                      /\ frames'[i].running =>
                           /\ frames'[i].next <= Len(handlers[frames[i].type])
                           /\ <<frames[i].type, frames'[i].next, frames[i].id>> \notin processed'
    BY <1>3, <1>4 DEF Progressing
  <2>1. CASE i # Depth
    <3>1. frames'[i] = frames[i]
      BY <1>3, <2>1
    <3>2. frames[i].type # Top.type
      <4>1. i < Depth
        BY <1>2, <2>1
      <4>2. Level[frames[i].type] < Level[Top.type]
        BY <1>1, <1>2, <4>1 DEF Nesting
      <4>3. Level[Top.type] \in Nat
        BY <1>2, BusAssumption
      <4>4. QED
        BY <4>2, <4>3
    <3>3. <<frames[i].type, frames[i].next, frames[i].id>> # Key
      BY <3>2 DEF Key
    <3>4. /\ frames[i].next <= Len(handlers[frames[i].type]) + 1
          /\ \A m \in 1 .. frames[i].next - 1 :
               <<frames[i].type, m, frames[i].id>> \in processed
          /\ frames[i].running =>
               /\ frames[i].next <= Len(handlers[frames[i].type])
               /\ <<frames[i].type, frames[i].next, frames[i].id>> \notin processed
      BY <1>1 DEF Progressing
    <3>5. QED
      BY <3>1, <3>3, <3>4
  <2>2. CASE i = Depth
    <3>1. /\ frames[i].type = Top.type /\ frames[i].id = Top.id
          /\ frames'[i].next = n /\ frames'[i].running = b
      BY <1>2, <1>3, <2>2
    <3>2. \A m \in 1 .. Top.next - 1 : <<Top.type, m, Top.id>> \in processed
      <4>1. \A m \in 1 .. frames[Depth].next - 1 :
              <<frames[Depth].type, m, frames[Depth].id>> \in processed
        BY <1>1, <1>2 DEF Progressing
      <4>2. QED
        BY <1>2, <4>1
    <3>3. \A m \in 1 .. n - 1 : <<Top.type, m, Top.id>> \in processed'
      <4>1. CASE n = Top.next
        BY <3>2, <4>1
      <4>2. CASE n = Top.next + 1 /\ Key \in processed'
        <5>1. ASSUME NEW m \in 1 .. n - 1
              PROVE  m \in 1 .. Top.next - 1 \/ m = Top.next
          BY <1>2, <4>2
        <5>2. <<Top.type, Top.next, Top.id>> \in processed'
          BY <4>2 DEF Key
        <5>3. QED
          BY <3>2, <5>1, <5>2
      <4>3. QED
        BY <4>1, <4>2
    <3>4. b => <<Top.type, n, Top.id>> \notin processed'
      BY DEF Key
    <3>5. QED
      BY <3>1, <3>3, <3>4
  <2>3. QED
    BY <2>1, <2>2
<1>7. frames' # <<>>
  BY <1>2, <1>3
<1>8. QED
  BY <1>2, <1>3, <1>4, <1>5, <1>6, <1>7

\* The same, for what the history says of the calls.
LEMMA HistoryStaysBehind ==
  ASSUME IInv, Depth > 0, NEW n \in Nat, n >= Top.next,
         UNCHANGED <<log, done>>,
         DOMAIN frames' = DOMAIN frames,
         \A i \in DOMAIN frames : /\ frames'[i].type = frames[i].type
                                  /\ frames'[i].at = frames[i].at
                                  /\ i # Len(frames) => frames'[i] = frames[i],
         frames'[Len(frames)].next = n
  PROVE  HistoryIsBehind'
<1>1. TypeOK /\ HistoryIsBehind
  BY DEF IInv
<1>2. Depth = Len(frames) /\ Depth \in DOMAIN frames /\ Top = frames[Depth] /\ Top.next \in Nat
  BY <1>1, TopTyped DEF Depth
<1>3. ASSUME NEW i \in DOMAIN done, NEW k \in DOMAIN frames, done[i].type = frames[k].type
      PROVE  /\ done[i].at <= frames[k].at
             /\ done[i].at = frames[k].at => done[i].place < frames'[k].next
  <2>1. /\ done[i].at <= frames[k].at
        /\ done[i].at = frames[k].at => done[i].place < frames[k].next
    BY <1>1, <1>3 DEF HistoryIsBehind
  <2>2. frames[k].next \in Nat /\ frames'[k].next \in Nat /\ frames[k].next <= frames'[k].next
    BY <1>1, <1>2, FramesTyped
  <2>3. done[i].place \in Nat
    BY <1>1, DoneTyped
  <2>4. QED
    BY <2>1, <2>2, <2>3
<1>4. QED
  BY <1>1, <1>3 DEF HistoryIsBehind

\* What the innermost call has reached.
LEMMA TopProgress ==
  ASSUME IInv, Depth > 0
  PROVE  /\ Len(handlers[Top.type]) \in Nat
         /\ \A n \in 1 .. Top.next - 1 : <<Top.type, n, Top.id>> \in processed
         /\ Top.running => Top.next <= Len(handlers[Top.type]) /\ Key \notin processed
         /\ \A k \in DOMAIN frames : frames[k].type = Top.type => k = Depth
<1>1. TypeOK /\ Nesting /\ Progressing
  BY DEF IInv
<1>2. /\ Depth \in DOMAIN frames /\ Depth \in Nat /\ DOMAIN frames = 1 .. Depth
      /\ Top = frames[Depth] /\ Top.type \in Types /\ handlers[Top.type] \in Seq(Handlers)
  BY <1>1, TopTyped
<1>3. /\ \A n \in 1 .. frames[Depth].next - 1 :
           <<frames[Depth].type, n, frames[Depth].id>> \in processed
      /\ frames[Depth].running =>
           /\ frames[Depth].next <= Len(handlers[frames[Depth].type])
           /\ <<frames[Depth].type, frames[Depth].next, frames[Depth].id>> \notin processed
  BY <1>1, <1>2 DEF Progressing
<1>4. ASSUME NEW k \in DOMAIN frames, k # Depth
      PROVE  frames[k].type # Top.type
  <2>1. k < Depth
    BY <1>2, <1>4
  <2>2. Level[frames[k].type] < Level[Top.type]
    BY <1>1, <1>2, <2>1 DEF Nesting
  <2>3. Level[Top.type] \in Nat
    BY <1>2, BusAssumption
  <2>4. QED
    BY <2>2, <2>3
<1>5. QED
  BY <1>2, <1>3, <1>4 DEF Key

\* While a thread stays inside publish the types are kept.
LEMMA TypeStays ==
  ASSUME TypeOK, Depth > 0,
         UNCHANGED <<handlers, log, owner, failed>>,
         frames' \in Seq(Frame), frames' # <<>>,
         processed' = processed \/ processed' \subseteq Types \X (Nat \ {0}) \X EventIds,
         done' = done \/ done' \in Seq(Delivery)
  PROVE  TypeOK'
<1>1. frames # <<>>
  BY DEF Depth
<1>2. owner # NoPublisher /\ owner \in Publishers \cup {NoPublisher}
  BY <1>1 DEF TypeOK
<1>3. /\ handlers \in [Types -> Seq(Handlers)] /\ log \in Seq(Event) /\ failed \subseteq Nat
      /\ processed' \subseteq Types \X (Nat \ {0}) \X EventIds
      /\ done' \in Seq(Delivery)
  BY DEF TypeOK
<1>4. QED
  BY <1>2, <1>3 DEF TypeOK, Event, Frame, Delivery

\* A handler that has had the event is passed over.
LEMMA SkipKeeps ==
  ASSUME IInv, Skip
  PROVE  IInv'
<1>1. Depth > 0 /\ Top.next <= Len(handlers[Top.type]) /\ Key \in processed
  BY DEF Skip, HasNext
<1>2. frames' = TopAt(Top.next + 1, FALSE) /\ UNCHANGED <<handlers, processed, log, owner, done, failed>>
  BY DEF Skip
<1>3. TypeOK /\ Top.next \in Nat \ {0} /\ Top.next + 1 \in Nat \ {0} /\ FALSE \in BOOLEAN
  BY <1>1, TopTyped DEF IInv
<1>4. Len(handlers[Top.type]) \in Nat
  BY <1>1, TopProgress
<1>5. /\ frames' \in Seq(Frame) /\ frames' # <<>>
      /\ Nesting'
      /\ Progressing'
      /\ DOMAIN frames' = DOMAIN frames
      /\ \A i \in DOMAIN frames : /\ frames'[i].type = frames[i].type
                                  /\ frames'[i].at = frames[i].at
                                  /\ i # Len(frames) => frames'[i] = frames[i]
      /\ frames'[Len(frames)].next = Top.next + 1
  <2>1. Top.next + 1 <= Len(handlers[Top.type]) + 1
    BY <1>1, <1>3, <1>4
  <2>2. processed' = processed /\ Key \in processed'
    BY <1>1, <1>2
  <2>3. QED
    BY <1>1, <1>2, <1>3, <2>1, <2>2, TopMoves
<1>6. HistoryIsBehind'
  <2>1. Top.next + 1 \in Nat /\ Top.next + 1 >= Top.next
    BY <1>3
  <2>2. UNCHANGED <<log, done>>
    BY <1>2
  <2>3. QED
    BY <1>1, <1>5, <2>1, <2>2, HistoryStaysBehind
<1>7. TypeOK'
  BY <1>1, <1>2, <1>3, <1>5, TypeStays
<1>8. QED
  BY <1>2, <1>5, <1>6, <1>7, HistoryKept DEF IInv

\* The next handler is called.
LEMMA CallKeeps ==
  ASSUME IInv, Call
  PROVE  IInv'
<1>1. Depth > 0 /\ Top.next <= Len(handlers[Top.type]) /\ Key \notin processed
  BY DEF Call, HasNext
<1>2. frames' = TopAt(Top.next, TRUE) /\ UNCHANGED <<handlers, processed, log, owner, done, failed>>
  BY DEF Call
<1>3. TypeOK /\ Top.next \in Nat \ {0} /\ TRUE \in BOOLEAN
  BY <1>1, TopTyped DEF IInv
<1>4. Len(handlers[Top.type]) \in Nat
  BY <1>1, TopProgress
<1>5. /\ frames' \in Seq(Frame) /\ frames' # <<>>
      /\ Nesting'
      /\ Progressing'
      /\ DOMAIN frames' = DOMAIN frames
      /\ \A i \in DOMAIN frames : /\ frames'[i].type = frames[i].type
                                  /\ frames'[i].at = frames[i].at
                                  /\ i # Len(frames) => frames'[i] = frames[i]
      /\ frames'[Len(frames)].next = Top.next
  <2>1. Top.next <= Len(handlers[Top.type]) + 1
    BY <1>1, <1>3, <1>4
  <2>2. processed' = processed /\ Key \notin processed'
    BY <1>1, <1>2
  <2>3. QED
    BY <1>1, <1>2, <1>3, <2>1, <2>2, TopMoves
<1>6. HistoryIsBehind'
  <2>1. Top.next \in Nat /\ Top.next >= Top.next
    BY <1>3
  <2>2. UNCHANGED <<log, done>>
    BY <1>2
  <2>3. QED
    BY <1>1, <1>5, <2>1, <2>2, HistoryStaysBehind
<1>7. TypeOK'
  BY <1>1, <1>2, <1>3, <1>5, TypeStays
<1>8. QED
  BY <1>2, <1>5, <1>6, <1>7, HistoryKept DEF IInv

\* The running handler returns.
LEMMA CompleteKeeps ==
  ASSUME IInv, Complete
  PROVE  IInv'
<1> DEFINE e == [type |-> Top.type, place |-> Top.next, id |-> Top.id, at |-> Top.at]
<1>1. Depth > 0 /\ Top.running
  BY DEF Complete, Running
<1>2. /\ frames' = TopAt(Top.next + 1, FALSE)
      /\ processed' = processed \cup {Key}
      /\ done' = Append(done, e)
      /\ UNCHANGED <<handlers, log, owner, failed>>
  BY DEF Complete
<1>3. /\ TypeOK /\ Depth \in DOMAIN frames /\ Depth = Len(frames) /\ Top = frames[Depth]
      /\ Top.type \in Types /\ Top.id \in EventIds /\ Top.at \in Nat
      /\ Top.next \in Nat \ {0} /\ Top.next + 1 \in Nat \ {0} /\ FALSE \in BOOLEAN
      /\ Key \in Types \X (Nat \ {0}) \X EventIds
  BY <1>1, TopTyped DEF IInv, Depth
<1>4. /\ Len(handlers[Top.type]) \in Nat
      /\ \A n \in 1 .. Top.next - 1 : <<Top.type, n, Top.id>> \in processed
      /\ Top.next <= Len(handlers[Top.type])
      /\ Key \notin processed
      /\ \A k \in DOMAIN frames : frames[k].type = Top.type => k = Depth
  BY <1>1, TopProgress
<1>5. /\ frames' \in Seq(Frame) /\ frames' # <<>>
      /\ Nesting'
      /\ Progressing'
      /\ DOMAIN frames' = DOMAIN frames
      /\ \A i \in DOMAIN frames : /\ frames'[i].type = frames[i].type
                                  /\ frames'[i].at = frames[i].at
                                  /\ i # Len(frames) => frames'[i] = frames[i]
      /\ frames'[Len(frames)].next = Top.next + 1
  <2>1. Top.next + 1 <= Len(handlers[Top.type]) + 1
    BY <1>3, <1>4
  <2>2. processed \subseteq processed' /\ Key \in processed'
    BY <1>2
  <2>3. QED
    BY <1>1, <1>2, <1>3, <2>1, <2>2, TopMoves
<1>6. e \in Delivery /\ e.type = Top.type /\ e.place = Top.next /\ e.id = Top.id /\ e.at = Top.at
  BY <1>3 DEF Delivery
<1>7. done \in Seq(Delivery)
  BY <1>3 DEF TypeOK
<1> HIDE DEF e
<1>8. /\ done' \in Seq(Delivery)
      /\ Len(done) \in Nat
      /\ DOMAIN done = 1 .. Len(done)
      /\ DOMAIN done' = 1 .. Len(done) + 1
      /\ \A i \in DOMAIN done : done'[i] = done[i]
      /\ done'[Len(done) + 1] = e
  BY <1>2, <1>6, <1>7
<1>9. ASSUME NEW i \in DOMAIN done'
      PROVE  i \in DOMAIN done \/ (i = Len(done) + 1 /\ done'[i] = e)
  BY <1>8
<1>10. TypeOK'
  <2>1. processed' \subseteq Types \X (Nat \ {0}) \X EventIds
    BY <1>2, <1>3 DEF TypeOK
  <2>2. QED
    BY <1>1, <1>2, <1>3, <1>5, <1>8, <2>1, TypeStays
<1>11. Subscribed'
  BY <1>2 DEF IInv, Subscribed
<1>12. DoneIsProcessed'
  <2>1. \A i \in DOMAIN done : <<done[i].type, done[i].place, done[i].id>> \in processed
    BY DEF IInv, DoneIsProcessed
  <2>2. <<e.type, e.place, e.id>> \in processed'
    BY <1>2, <1>6 DEF Key
  <2>3. QED
    BY <1>2, <1>8, <1>9, <2>1, <2>2 DEF DoneIsProcessed
<1>13. HistoryIsBehind'
  <2>1. /\ \A i \in DOMAIN frames : frames[i].at <= Len(log)
        /\ \A i \in DOMAIN done : done[i].at <= Len(log)
    BY DEF IInv, HistoryIsBehind
  <2>2. /\ \A i \in DOMAIN frames' : frames'[i].at <= Len(log')
        /\ \A i \in DOMAIN done' : done'[i].at <= Len(log')
    <3>1. log' = log /\ Top.at <= Len(log)
      BY <1>2, <1>3, <2>1
    <3>2. \A i \in DOMAIN frames' : frames'[i].at <= Len(log)
      BY <1>5, <2>1
    <3>3. \A i \in DOMAIN done' : done'[i].at <= Len(log)
      BY <1>6, <1>8, <1>9, <2>1, <3>1
    <3>4. QED
      BY <3>1, <3>2, <3>3
  <2>3. ASSUME NEW i \in DOMAIN done', NEW k \in DOMAIN frames', done'[i].type = frames'[k].type
        PROVE  /\ done'[i].at <= frames'[k].at
               /\ done'[i].at = frames'[k].at => done'[i].place < frames'[k].next
    <3>1. k \in DOMAIN frames /\ frames'[k].type = frames[k].type /\ frames'[k].at = frames[k].at
      BY <1>5
    <3>2. frames[k].next \in Nat /\ frames'[k].next \in Nat /\ frames[k].next <= frames'[k].next
      BY <1>3, <1>5, <3>1, FramesTyped
    <3>3. CASE i \in DOMAIN done
      <4>1. /\ done[i].at <= frames[k].at
            /\ done[i].at = frames[k].at => done[i].place < frames[k].next
        BY <1>8, <2>3, <3>1, <3>3 DEF IInv, HistoryIsBehind
      <4>2. done[i].place \in Nat
        BY <1>3, <3>3, DoneTyped
      <4>3. QED
        BY <1>8, <3>1, <3>2, <3>3, <4>1, <4>2
    <3>4. CASE done'[i] = e
      <4>1. k = Depth
        BY <1>4, <1>6, <2>3, <3>1, <3>4
      <4>2. QED
        BY <1>3, <1>5, <1>6, <3>1, <3>4, <4>1
    <3>5. QED
      BY <1>9, <3>3, <3>4
  <2>4. QED
    BY <2>2, <2>3 DEF HistoryIsBehind
<1>14. OncePerEventId'
  <2> SUFFICES ASSUME NEW i \in DOMAIN done', NEW j \in DOMAIN done', i # j,
                      done'[i].type = done'[j].type,
                      done'[i].place = done'[j].place,
                      done'[i].id = done'[j].id
               PROVE  FALSE
    BY DEF OncePerEventId
  <2>1. \A k \in DOMAIN done : <<done[k].type, done[k].place, done[k].id>> # Key
    BY <1>4 DEF IInv, DoneIsProcessed
  <2>2. <<e.type, e.place, e.id>> = Key
    BY <1>6 DEF Key
  <2>3. CASE i \in DOMAIN done /\ j \in DOMAIN done
    BY <1>8, <2>3 DEF IInv, OncePerEventId
  <2>4. CASE i \in DOMAIN done /\ done'[j] = e
    BY <1>8, <2>1, <2>2, <2>4
  <2>5. CASE j \in DOMAIN done /\ done'[i] = e
    BY <1>8, <2>1, <2>2, <2>5
  <2>6. QED
    BY <1>9, <2>3, <2>4, <2>5
<1>15. HandledInOrder'
  <2>1. \A k \in processed : \A n \in 1 .. k[2] - 1 : <<k[1], n, k[3]>> \in processed
    BY DEF IInv, HandledInOrder
  <2>2. \A n \in 1 .. Key[2] - 1 : <<Key[1], n, Key[3]>> \in processed
    BY <1>4 DEF Key
  <2>3. QED
    BY <1>2, <2>1, <2>2 DEF HandledInOrder
<1>16. PublicationOrder'
  <2> SUFFICES ASSUME NEW i \in DOMAIN done', NEW j \in DOMAIN done', i < j,
                      done'[i].type = done'[j].type,
                      done'[i].place = done'[j].place
               PROVE  done'[i].at < done'[j].at
    BY DEF PublicationOrder
  <2>1. i \in DOMAIN done
    BY <1>8
  <2>2. CASE j \in DOMAIN done
    BY <1>8, <2>1, <2>2 DEF IInv, PublicationOrder
  <2>3. CASE done'[j] = e
    <3>1. /\ done[i].at <= Top.at
          /\ done[i].at = Top.at => done[i].place < Top.next
      BY <1>3, <1>6, <1>8, <2>1, <2>3 DEF IInv, HistoryIsBehind
    <3>2. done[i].at \in Nat /\ done[i].place \in Nat
      BY <1>3, <2>1, DoneTyped
    <3>3. done[i].place = Top.next
      BY <1>6, <1>8, <2>1, <2>3
    <3>4. QED
      BY <1>3, <1>6, <1>8, <2>1, <2>3, <3>1, <3>2, <3>3
  <2>4. QED
    BY <1>9, <2>2, <2>3
<1>17. QED
  BY <1>5, <1>10, <1>11, <1>12, <1>13, <1>14, <1>15, <1>16 DEF IInv

\* The running handler publishes: its type is below that of the new event.
LEMMA PublishNestedKeeps ==
  ASSUME IInv, NEW y \in Types, NEW id \in EventIds, PublishNested(y, id)
  PROVE  IInv'
<1>1. Depth > 0 /\ Top.running /\ y \in Publishes[handlers[Top.type][Top.next]]
  BY DEF PublishNested, Running
<1>2. Enter(y, id) /\ owner' = owner
  BY DEF PublishNested
<1>3. /\ TypeOK /\ Depth \in Nat /\ DOMAIN frames = 1 .. Depth /\ Depth \in DOMAIN frames
      /\ Depth = Len(frames) /\ Top = frames[Depth]
      /\ Top.type \in Types /\ Top.next \in Nat \ {0}
      /\ handlers[Top.type] \in Seq(Handlers)
  BY <1>1, TopTyped DEF IInv, Depth
<1>4. owner' \in Publishers
  <2>1. frames # <<>>
    BY <1>1 DEF Depth
  <2>2. QED
    BY <1>2, <1>3, <2>1 DEF TypeOK
<1>5. Level[Top.type] < Level[y]
  <2>1. Top.next <= Len(handlers[Top.type])
    BY <1>1, TopProgress
  <2>2. Top.next \in DOMAIN handlers[Top.type]
    BY <1>3, <2>1
  <2>3. <<Top.type, handlers[Top.type][Top.next]>> \in Subscribable
    BY <1>3, <2>2 DEF IInv, Subscribed
  <2>4. QED
    BY <1>1, <2>3, BusAssumption
<1>6. \A i \in DOMAIN frames : Level[frames[i].type] < Level[y] /\ frames[i].running
  <2> SUFFICES ASSUME NEW i \in DOMAIN frames
               PROVE  Level[frames[i].type] < Level[y] /\ frames[i].running
    OBVIOUS
  <2>1. CASE i = Depth
    BY <1>1, <1>3, <1>5, <2>1
  <2>2. CASE i # Depth
    <3>1. i < Depth
      BY <1>3, <2>2
    <3>2. Level[frames[i].type] < Level[Top.type] /\ frames[i].running
      BY <1>3, <3>1 DEF IInv, Nesting
    <3>3. /\ Level[frames[i].type] \in Nat /\ Level[Top.type] \in Nat /\ Level[y] \in Nat
      BY <1>3, FramesTyped, BusAssumption
    <3>4. QED
      BY <1>5, <3>2, <3>3
  <2>3. QED
    BY <2>1, <2>2
<1>7. QED
  BY <1>2, <1>4, <1>6, EnterKeeps

\* A thread enters publish while nobody is inside.
LEMMA PublishKeeps ==
  ASSUME IInv, NEW p \in Publishers, NEW y \in Types, NEW id \in EventIds, Publish(p, y, id)
  PROVE  IInv'
<1>1. owner = NoPublisher /\ owner' = p /\ Enter(y, id)
  BY DEF Publish
<1>2. frames = <<>>
  BY <1>1 DEF IInv, TypeOK
<1>3. \A i \in DOMAIN frames : Level[frames[i].type] < Level[y] /\ frames[i].running
  BY <1>2
<1>4. QED
  BY <1>1, <1>3, EnterKeeps

\* Calls that end, the innermost or all of them, leave the others as they were.
LEMMA FramesDropped ==
  ASSUME IInv, NEW m \in Nat, m <= Len(frames),
         frames' = SubSeq(frames, 1, m),
         UNCHANGED <<handlers, processed, log, done>>
  PROVE  /\ frames' \in Seq(Frame) /\ Len(frames') = m
         /\ Nesting' /\ Progressing' /\ HistoryIsBehind'
<1>1. frames \in Seq(Frame) /\ Nesting /\ Progressing /\ HistoryIsBehind
  BY DEF IInv, TypeOK
<1>2. /\ frames' \in Seq(Frame) /\ Len(frames') = m
      /\ DOMAIN frames' = 1 .. m /\ DOMAIN frames = 1 .. Len(frames)
      /\ \A i \in 1 .. m : i \in DOMAIN frames /\ frames'[i] = frames[i]
  BY <1>1
<1>3. Nesting'
  BY <1>1, <1>2 DEF Nesting
<1>4. Progressing'
  BY <1>1, <1>2 DEF Progressing
<1>5. HistoryIsBehind'
  BY <1>1, <1>2 DEF HistoryIsBehind
<1>6. QED
  BY <1>2, <1>3, <1>4, <1>5

\* The innermost call of publish returns.
LEMMA ReturnKeeps ==
  ASSUME IInv, Return
  PROVE  IInv'
<1>1. /\ Depth > 0
      /\ frames' = SubSeq(frames, 1, Depth - 1)
      /\ owner' = IF Depth = 1 THEN NoPublisher ELSE owner
      /\ UNCHANGED <<handlers, processed, log, done, failed>>
  BY DEF Return
<1>2. TypeOK /\ Depth \in Nat /\ Depth = Len(frames) /\ Depth - 1 \in Nat
  BY <1>1, TopTyped DEF IInv, Depth
<1>3. /\ frames' \in Seq(Frame) /\ Len(frames') = Depth - 1
      /\ Nesting' /\ Progressing' /\ HistoryIsBehind'
  BY <1>1, <1>2, FramesDropped
<1>4. TypeOK'
  <2>1. frames # <<>> /\ owner # NoPublisher /\ owner \in Publishers \cup {NoPublisher}
    BY <1>1, <1>2 DEF TypeOK
  <2>2. frames' = <<>> <=> Depth = 1
    BY <1>2, <1>3
  <2>3. owner' = NoPublisher <=> frames' = <<>>
    BY <1>1, <2>1, <2>2
  <2>4. owner' \in Publishers \cup {NoPublisher}
    BY <1>1, <2>1
  <2>5. QED
    BY <1>1, <1>2, <1>3, <2>3, <2>4 DEF TypeOK, Event, Frame, Delivery
<1>5. QED
  BY <1>1, <1>3, <1>4, HistoryKept DEF IInv

\* An exception ends all calls of publish.
LEMMA HandlerRaisesKeeps ==
  ASSUME IInv, HandlerRaises
  PROVE  IInv'
<1>1. /\ frames' = <<>> /\ owner' = NoPublisher
      /\ failed' = failed \cup {frames[i].at : i \in DOMAIN frames}
      /\ UNCHANGED <<handlers, processed, log, done>>
  BY DEF HandlerRaises
<1>2. TypeOK /\ HistoryIsBehind
  BY DEF IInv
<1>3. DOMAIN frames' = {} /\ frames' \in Seq(Frame)
  BY <1>1
<1>4. Nesting' /\ Progressing'
  BY <1>3 DEF Nesting, Progressing
<1>5. HistoryIsBehind'
  BY <1>1, <1>2, <1>3 DEF HistoryIsBehind
<1>6. TypeOK'
  <2>1. failed' \subseteq Nat
    BY <1>1, <1>2, FramesTyped DEF TypeOK
  <2>2. QED
    BY <1>1, <1>2, <1>3, <2>1 DEF TypeOK, Event, Frame, Delivery
<1>7. QED
  BY <1>1, <1>4, <1>5, <1>6, HistoryKept DEF IInv

\* The invariant holds before anything is subscribed.
LEMMA BusInit == Init => IInv
<1> SUFFICES ASSUME Init PROVE IInv
  OBVIOUS
<1>1. TypeOK
  BY DEF Init, TypeOK
<1>2. Subscribed
  BY DEF Init, Subscribed
<1>3. DOMAIN frames = {} /\ DOMAIN done = {} /\ processed = {}
  BY DEF Init
<1>4. Nesting /\ Progressing /\ DoneIsProcessed /\ HistoryIsBehind
  BY <1>3 DEF Nesting, Progressing, DoneIsProcessed, HistoryIsBehind
<1>5. OncePerEventId /\ HandledInOrder /\ PublicationOrder
  BY <1>3 DEF OncePerEventId, HandledInOrder, PublicationOrder
<1>6. QED
  BY <1>1, <1>2, <1>4, <1>5 DEF IInv

\* Every step keeps the invariant.
LEMMA BusStep == IInv /\ [Next]_vars => IInv'
<1> SUFFICES ASSUME IInv, [Next]_vars PROVE IInv'
  OBVIOUS
<1>1. CASE \E y \in Types, h \in Handlers : Subscribe(y, h)
  BY <1>1, SubscribeKeeps
<1>2. CASE \E p \in Publishers, y \in Types, id \in EventIds : Publish(p, y, id)
  BY <1>2, PublishKeeps
<1>3. CASE \E y \in Types, id \in EventIds : PublishNested(y, id)
  BY <1>3, PublishNestedKeeps
<1>4. CASE Skip
  BY <1>4, SkipKeeps
<1>5. CASE Call
  BY <1>5, CallKeeps
<1>6. CASE Complete
  BY <1>6, CompleteKeeps
<1>7. CASE HandlerRaises
  BY <1>7, HandlerRaisesKeeps
<1>8. CASE Return
  BY <1>8, ReturnKeeps
<1>9. CASE UNCHANGED vars
  <2>1. UNCHANGED <<handlers, processed, log, owner, frames, done, failed>>
    BY <1>9 DEF vars
  <2>2. TypeOK' /\ Nesting' /\ Progressing' /\ HistoryIsBehind'
    BY <2>1 DEF IInv, TypeOK, Event, Frame, Delivery, Nesting, Progressing, HistoryIsBehind
  <2>3. QED
    BY <2>1, <2>2, HistoryKept DEF IInv
<1>10. QED
  BY <1>1, <1>2, <1>3, <1>4, <1>5, <1>6, <1>7, <1>8, <1>9 DEF Next, Deliver

\* Variables are well typed, and a thread is inside exactly when it has a call.
THEOREM BusTypes == Spec => []TypeOK
<1>1. IInv => TypeOK
  BY DEF IInv
<1>2. QED
  BY <1>1, BusInit, BusStep, PTL DEF Spec

\* Every subscription completes an event id at most once, for any number of
\* threads and handlers: the idempotency the bus's docstring promises.
THEOREM Idempotent == Spec => []OncePerEventId
<1>1. IInv => OncePerEventId
  BY DEF IInv
<1>2. QED
  BY <1>1, BusInit, BusStep, PTL DEF Spec

\* Handlers complete an event in order of subscription, also over several
\* publications of it with handlers that raise in between.
THEOREM HandlersInOrder == Spec => []HandledInOrder
<1>1. IInv => HandledInOrder
  BY DEF IInv
<1>2. QED
  BY <1>1, BusInit, BusStep, PTL DEF Spec

\* A subscription completes the events of its type in the order of the log.
THEOREM EventsInOrder == Spec => []PublicationOrder
<1>1. IInv => PublicationOrder
  BY DEF IInv
<1>2. QED
  BY <1>1, BusInit, BusStep, PTL DEF Spec
=============================================================================
