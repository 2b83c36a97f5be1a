------------------------------ MODULE Catalog ------------------------------
(***************************************************************************)
(* catalog.py behind /events: seeding when the process starts, listing,    *)
(* and the creations and updates of admins.  No method holds a lock or a   *)
(* transaction: every statement commits by itself, and other requests come *)
(* between the check of the token, the look at the event, the clock, the   *)
(* write and the read of the answer.                                       *)
(*                                                                         *)
(* The content of an event is its title, which stands for the three texts  *)
(* that must not be blank, and its seating rows without their labels.      *)
(***************************************************************************)
EXTENDS Accounts, Sequences

CONSTANTS EventIds,          \* the uuids of events
          NoEvent,           \* the event of a creation that has not been stored
          Contents,          \* what admins send
          Demos,             \* DEFAULT_EVENTS, a sequence
          MIN_ROW_PRICE,
          MaxVersions        \* bound: writes of the table

SeatingRow == [seats : Int, priceMinor : Int]
Content == [title : STRING, rows : SUBSET SeatingRow]

Valid(c) ==
  /\ c.title # ""
  /\ c.rows # {}
  /\ \A row \in c.rows : row.seats > 0 /\ row.priceMinor > MIN_ROW_PRICE

ASSUME CatalogAssumption ==
  /\ NoEvent \notin EventIds
  /\ Contents \subseteq Content
  /\ Demos \in Seq(Content) \ {<<>>}
  /\ \A i \in DOMAIN Demos : Valid(Demos[i])
  /\ MIN_ROW_PRICE \in Int
  /\ MaxVersions \in Nat

VARIABLES events,     \* the table, in the order of insertion
          boot,       \* 0, or the demo that is created next, or Serving
          work,       \* thread -> its request to /events, with what it still needs
          journal     \* history: the writes of the table, with who made them

catalogVars == <<users, tokens, secret, now, restarts, call, events, boot, work, journal>>

EventRow == [id : EventIds, created : IsoText, content : Content]
Serving == Len(Demos) + 1

\* token: NoToken for a demo; at and under: the clock and the secret of the check.
Version == [event : EventIds, content : Content, token : Token \cup {NoToken},
            at : Nat, under : Secrets]

Ids == {events[i].id : i \in DOMAIN events}
Place(id) == CHOOSE i \in DOMAIN events : events[i].id = id
RowOf(id) == events[Place(id)]

Edit == [event : EventIds \cup {NoEvent}, content : Content, token : Token, at : Nat, under : Secrets]

Work ==
  {Idle}
  \cup [pc : {"authorized", "updating"}, edit : Edit]
  \cup [pc : {"inserting"}, edit : Edit, created : IsoText]
  \cup [pc : {"reading"}, event : EventIds, version : Nat]
  \cup [pc : {"edited"}, event : EventIds, version : Nat, shown : Content]
  \cup [pc : {"listing"}, ids : Seq(EventIds), shown : Seq(Content), since : Nat]
  \cup [pc : {"replied"}, status : {400, 401, 403, 404}]

CatalogInit ==
  /\ Init
  /\ events = <<>>
  /\ boot = 0
  /\ work = [t \in Threads |-> Idle]
  /\ journal = <<>>

Continue(t, w) == work' = [work EXCEPT ![t] = w]

Insert(id, created, content) ==
  events' = Append(events, [id |-> id, created |-> created, content |-> content])

Record(id, edit) ==
  journal' = Append(journal, [event |-> id, content |-> edit.content, token |-> edit.token,
                              at |-> edit.at, under |-> edit.under])

\* Variant: the demos are created whenever the process starts.
StartSeeding ==
  /\ boot = 0
  /\ boot' = IF Demos # <<>> THEN 1 ELSE Serving
  /\ UNCHANGED <<accountVars, events, work, journal>>

\* EventCatalog.__init__ looks whether there are events.
Start ==
  /\ boot = 0
  /\ boot' = IF events = <<>> THEN 1 ELSE Serving
  /\ UNCHANGED <<accountVars, events, work, journal>>

\* It creates one demo, before the first request is served.
Seed(id) ==
  /\ boot \in DOMAIN Demos
  /\ id \in EventIds \ Ids
  /\ boot' = boot + 1
  /\ Insert(id, IsoFormat(now), Demos[boot])
  /\ Record(id, [content |-> Demos[boot], token |-> NoToken, at |-> now, under |-> secret])
  /\ UNCHANGED <<accountVars, work>>

Ready(t) == boot = Serving /\ call[t] = Idle /\ work[t] = Idle

\* Bound: an edit begins only if it may write.
VersionLeft ==
  Len(journal) + Cardinality({t \in Threads : work[t].pc \in {"authorized", "inserting", "updating"}})
    < MaxVersions

\* POST /events, or PUT /events/{id}: require_admin lets the request through.
BeginEdit(t, header, id, content) ==
  /\ Ready(t)
  /\ VersionLeft
  /\ InSession(header)
  /\ IsAdmin(header)
  /\ Continue(t, [pc |-> "authorized",
                  edit |-> [event |-> id, content |-> content, token |-> header,
                            at |-> now, under |-> secret]])
  /\ UNCHANGED <<accountVars, events, boot, journal>>

EditRefused(t, header) ==
  /\ Ready(t)
  /\ ~(InSession(header) /\ IsAdmin(header))
  /\ Continue(t, Reply(IF InSession(header) THEN 403 ELSE 401))
  /\ UNCHANGED <<accountVars, events, boot, journal>>

EditInvalid(t) ==
  /\ work[t].pc = "authorized"
  /\ work[t].edit.event \in Ids \cup {NoEvent}
  /\ ~Valid(work[t].edit.content)
  /\ Continue(t, Reply(400))
  /\ UNCHANGED <<accountVars, events, boot, journal>>

\* create_event reads the clock before it writes.
CreateChecked(t) ==
  /\ work[t].pc = "authorized"
  /\ work[t].edit.event = NoEvent
  /\ Valid(work[t].edit.content)
  /\ Continue(t, [pc |-> "inserting", edit |-> work[t].edit, created |-> IsoFormat(now)])
  /\ UNCHANGED <<accountVars, events, boot, journal>>

\* Variant: the identifier is made from the event, and is not a key.
CreateUnkeyed(t, id) ==
  /\ work[t].pc = "inserting"
  /\ id \in EventIds
  /\ Insert(id, work[t].created, work[t].edit.content)
  /\ Record(id, work[t].edit)
  /\ Continue(t, [pc |-> "reading", event |-> id, version |-> Len(journal) + 1])
  /\ UNCHANGED <<accountVars, boot>>

CreateInserted(t, id) ==
  /\ work[t].pc = "inserting"
  /\ id \in EventIds \ Ids
  /\ Insert(id, work[t].created, work[t].edit.content)
  /\ Record(id, work[t].edit)
  /\ Continue(t, [pc |-> "reading", event |-> id, version |-> Len(journal) + 1])
  /\ UNCHANGED <<accountVars, boot>>

UpdateNotFound(t) ==
  /\ work[t].pc = "authorized"
  /\ work[t].edit.event \in EventIds \ Ids
  /\ Continue(t, Reply(404))
  /\ UNCHANGED <<accountVars, events, boot, journal>>

UpdateChecked(t) ==
  /\ work[t].pc = "authorized"
  /\ work[t].edit.event \in Ids
  /\ Valid(work[t].edit.content)
  /\ Continue(t, [pc |-> "updating", edit |-> work[t].edit])
  /\ UNCHANGED <<accountVars, events, boot, journal>>

\* Variant: UPDATE sets created_at as well.
UpdateStoredAnew(t) ==
  /\ work[t].pc = "updating"
  /\ events' = [i \in DOMAIN events |->
                  IF events[i].id = work[t].edit.event
                  THEN [id |-> events[i].id, created |-> IsoFormat(now),
                        content |-> work[t].edit.content]
                  ELSE events[i]]
  /\ Record(work[t].edit.event, work[t].edit)
  /\ Continue(t, [pc |-> "reading", event |-> work[t].edit.event, version |-> Len(journal) + 1])
  /\ UNCHANGED <<accountVars, boot>>

UpdateStored(t) ==
  /\ work[t].pc = "updating"
  /\ events' = [i \in DOMAIN events |->
                  IF events[i].id = work[t].edit.event
                  THEN [id |-> events[i].id, created |-> events[i].created,
                        content |-> work[t].edit.content]
                  ELSE events[i]]
  /\ Record(work[t].edit.event, work[t].edit)
  /\ Continue(t, [pc |-> "reading", event |-> work[t].edit.event, version |-> Len(journal) + 1])
  /\ UNCHANGED <<accountVars, boot>>

\* Variant: the answer is the event as somebody found it before this write.
ReadBackOld(t) ==
  /\ work[t].pc = "reading"
  /\ \E i \in 1 .. work[t].version :
       /\ journal[i].event = work[t].event
       /\ \A j \in i + 1 .. work[t].version - 1 : journal[j].event # work[t].event
       /\ Continue(t, [pc |-> "edited", event |-> work[t].event, version |-> work[t].version,
                       shown |-> journal[i].content])
  /\ UNCHANGED <<accountVars, events, boot, journal>>

\* The answer, 201 or 200, is what get() finds.
ReadBack(t) ==
  /\ work[t].pc = "reading"
  /\ Continue(t, [pc |-> "edited", event |-> work[t].event, version |-> work[t].version,
                  shown |-> RowOf(work[t].event).content])
  /\ UNCHANGED <<accountVars, events, boot, journal>>

\* ORDER BY created_at, a comparison of texts; ties in the order of insertion.
Before(i, j) ==
  /\ TextLeq(events[i].created, events[j].created)
  /\ events[i].created = events[j].created => i <= j

Orders ==
  {p \in [DOMAIN events -> DOMAIN events] :
     /\ \A i \in DOMAIN events : \E n \in DOMAIN events : p[n] = i
     /\ \A m, n \in DOMAIN events : m < n => Before(p[m], p[n])}

\* Variant: only events created before this instant are listed.
ListBeginsBefore(t) ==
  /\ Ready(t)
  /\ \E p \in Orders :
       LET old == {n \in DOMAIN events : FromIsoFormat(events[p[n]].created) < now} IN
         Continue(t, [pc |-> "listing", shown |-> <<>>, since |-> Len(journal),
                      ids |-> [n \in 1 .. Cardinality(old) |-> events[p[n]].id]])
  /\ UNCHANGED <<accountVars, events, boot, journal>>

\* GET /events: the identifiers first, ...
ListBegins(t) ==
  /\ Ready(t)
  /\ \E p \in Orders :
       Continue(t, [pc |-> "listing", shown |-> <<>>, since |-> Len(journal),
                    ids |-> [n \in DOMAIN events |-> events[p[n]].id]])
  /\ UNCHANGED <<accountVars, events, boot, journal>>

\* ... then the events one by one, each in a connection of its own.
ListReads(t) ==
  /\ work[t].pc = "listing"
  /\ LET n == Len(work[t].shown) + 1 IN
       /\ n <= Len(work[t].ids)
       /\ Continue(t, [pc |-> "listing", ids |-> work[t].ids, since |-> work[t].since,
                       shown |-> Append(work[t].shown, RowOf(work[t].ids[n]).content)])
  /\ UNCHANGED <<accountVars, events, boot, journal>>

Listed(w) == w.pc = "listing" /\ Len(w.shown) = Len(w.ids)

Answered(t) ==
  /\ work[t].pc \in {"edited", "replied"} \/ Listed(work[t])
  /\ Continue(t, Idle)
  /\ UNCHANGED <<accountVars, events, boot, journal>>

\* The process stops, also in the middle of seeding, and another one starts.
CatalogRestart(s) ==
  /\ Restart(s)
  /\ boot' = 0
  /\ work' = [t \in Threads |-> Idle]
  /\ UNCHANGED <<events, journal>>

\* The requests and the clock of Accounts go on beside those to /events.
AccountStep ==
  /\ \/ \E t \in Threads : Ready(t) /\ Arrive(t)
     \/ \E t \in Threads : IssueToken(t) \/ Return(t)
     \/ Tick
  /\ UNCHANGED <<events, boot, work, journal>>

EditStep(t) ==
  \/ \E header \in Headers :
       \/ EditRefused(t, header)
       \/ \E id \in EventIds \cup {NoEvent}, content \in Contents : BeginEdit(t, header, id, content)
  \/ EditInvalid(t)
  \/ CreateChecked(t)
  \/ \E id \in EventIds : CreateInserted(t, id)
  \/ UpdateNotFound(t)
  \/ UpdateChecked(t)
  \/ UpdateStored(t)
  \/ ReadBack(t)

CatalogNext ==
  \/ AccountStep
  \/ Start
  \/ \E id \in EventIds : Seed(id)
  \/ \E t \in Threads : EditStep(t) \/ ListBegins(t) \/ ListReads(t) \/ Answered(t)
  \/ \E s \in Secrets : CatalogRestart(s)

CatalogSpec == CatalogInit /\ [][CatalogNext]_catalogVars
-----------------------------------------------------------------------------
\* The types of the variables; identifiers are unique, as the primary key says.
CatalogTypeOK ==
  /\ AccountsTypeOK
  /\ events \in Seq(EventRow)
  /\ \A i, j \in DOMAIN events : events[i].id = events[j].id => i = j
  /\ boot \in 0 .. Serving
  /\ work \in [Threads -> Work]
  /\ journal \in Seq(Version)

\* v was asked for by an admin, with a token signed by that process and issued
\* less than its lifetime before.
Authorised(v) ==
  /\ v.token \in tokens \ {NoToken}
  /\ users[v.token.sub].role = "admin"
  /\ v.token.secret = v.under
  /\ v.token.issued <= v.at
  /\ v.at < v.token.issued + TokenTTL

\* Whoever changed the catalogue was authorised to do so when the request was
\* checked, and is an admin still; all other writes are the demos.
AuthorisedEdits ==
  \A i \in DOMAIN journal :
    \/ journal[i].token = NoToken /\ i \in DOMAIN Demos
    \/ Authorised(journal[i])

\* The demos are created once, in their order, before anything else, however
\* often the process starts; a catalogue that is served is never empty.
SeededOnce ==
  /\ \A i \in DOMAIN journal :
       journal[i].token = NoToken => i \in DOMAIN Demos /\ journal[i].content = Demos[i]
  /\ boot = Serving => events # <<>>

\* An admin is shown the event as this edit left it, or as a later one did.
RepliesShowTheEdit ==
  \A t \in Threads : work[t].pc = "edited" =>
    \E i \in work[t].version .. Len(journal) :
      journal[i].event = work[t].event /\ journal[i].content = work[t].shown

\* A list has every event that had been written when it was asked for, and
\* shows none of them older than it was then, although it is put together
\* from many reads.
ListsAreComplete ==
  \A t \in Threads : Listed(work[t]) =>
    \A i \in 1 .. work[t].since :
      \E n \in DOMAIN work[t].ids, j \in i .. Len(journal) :
        /\ work[t].ids[n] = journal[i].event
        /\ journal[j].event = journal[i].event
        /\ work[t].shown[n] = journal[j].content

\* The events of a list keep their order: it is that of the table now, where
\* creations that overtook each other may have put others between them.
ListOrderIsStable ==
  \A t \in Threads : work[t].pc = "listing" =>
    \A m, n \in DOMAIN work[t].ids :
      m < n => Before(Place(work[t].ids[m]), Place(work[t].ids[n]))
=============================================================================
