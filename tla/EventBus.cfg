\* Two threads, three events, a handler that publishes, any handler may raise.
SPECIFICATION FairSpec
CONSTANTS
  p1 = p1  p2 = p2  i1 = i1  i2 = i2  i3 = i3  issue = issue  record = record
  Publishers = {p1, p2}
  NoPublisher = NoPublisher
  Types = {"PaymentSucceeded", "TicketIssued"}
  Handlers = {issue, record}
  Subscribable <- MCSubscribable
  Publishes <- MCPublishes
  Level <- MCLevel
  EventIds = {i1, i2, i3}
  MaxEvents = 3
  MaxSubscriptions = 2
INVARIANTS TypeOK OncePerEventId HandledInOrder PublicationOrder
PROPERTIES EventsGetThrough
CHECK_DEADLOCK FALSE
