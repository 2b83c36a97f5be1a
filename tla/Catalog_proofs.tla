--------------------------- MODULE Catalog_proofs ---------------------------
(***************************************************************************)
(* Theorems about Catalog: it is an Accounts specification with more on    *)
(* top, so what is proved of that holds here, for any number of threads,   *)
(* events, demos, contents and edits.                                      *)
(***************************************************************************)
EXTENDS Catalog, Accounts_proofs

\* Everything the composed server does to accounts, tokens and the clock is
\* something Accounts allows.
LEMMA AccountsView ==
  ASSUME [CatalogNext]_catalogVars
  PROVE  [Next]_accountVars
<1>1. CASE UNCHANGED catalogVars
  BY <1>1 DEF catalogVars, accountVars
<1>2. CASE AccountStep
  BY <1>2 DEF AccountStep, Next, Ready
<1>3. ASSUME NEW s \in Secrets, CatalogRestart(s) PROVE [Next]_accountVars
  BY <1>3 DEF CatalogRestart, Next
<1>4. CASE Start \/ \E id \in EventIds : Seed(id)
  BY <1>4 DEF Start, Seed
<1>5. ASSUME NEW t \in Threads, EditStep(t) \/ ListBegins(t) \/ ListReads(t) \/ Answered(t)
      PROVE  UNCHANGED accountVars
  BY <1>5 DEF EditStep, BeginEdit, EditRefused, EditInvalid, CreateChecked, CreateInserted,
              UpdateNotFound, UpdateChecked, UpdateStored, ReadBack, ListBegins, ListReads, Answered
<1> QED
  BY <1>1, <1>2, <1>3, <1>4, <1>5 DEF CatalogNext

\* The server with its catalogue implements the specification of its accounts.
THEOREM CatalogKeepsAccounts == CatalogSpec => Spec
<1>1. CatalogInit => Init
  BY DEF CatalogInit
<1>2. [CatalogNext]_catalogVars => [Next]_accountVars
  BY AccountsView
<1> QED
  BY <1>1, <1>2, PTL DEF CatalogSpec, Spec

-----------------------------------------------------------------------------
(* What the steps of a request carry, and what is true of it. *)

\* The step a request is at tells what it carries with it.
LEMMA WorkKinds ==
  ASSUME NEW w \in Work
  PROVE  /\ w.pc \in {"authorized", "updating"} => w.edit \in Edit
         /\ w.pc = "inserting" => w.edit \in Edit /\ w.created \in IsoText
         /\ w.pc = "reading" => w.event \in EventIds /\ w.version \in Nat
         /\ w.pc = "edited" => w.event \in EventIds /\ w.version \in Nat /\ w.shown \in Content
         /\ w.pc = "listing" => /\ w.ids \in Seq(EventIds)
                                /\ w.shown \in Seq(Content)
                                /\ w.since \in Nat
BY DEF Work, Idle

\* The records that requests are turned into.
LEMMA WorkRecords ==
  /\ Idle \in Work
  /\ \A n \in {400, 401, 403, 404} : Reply(n) \in Work
  /\ \A e \in Edit : /\ [pc |-> "authorized", edit |-> e] \in Work
                     /\ [pc |-> "updating", edit |-> e] \in Work
                     /\ \A c \in IsoText : [pc |-> "inserting", edit |-> e, created |-> c] \in Work
  /\ \A id \in EventIds, n \in Nat :
       /\ [pc |-> "reading", event |-> id, version |-> n] \in Work
       /\ \A c \in Content :
            [pc |-> "edited", event |-> id, version |-> n, shown |-> c] \in Work
  /\ \A ids \in Seq(EventIds), shown \in Seq(Content), n \in Nat :
       /\ [pc |-> "listing", ids |-> ids, shown |-> shown, since |-> n] \in Work
       /\ [pc |-> "listing", ids |-> ids, since |-> n, shown |-> shown] \in Work
BY DEF Work, Reply

Editing == {"authorized", "inserting", "updating"}

\* What has been checked is still so.
Checked(w) ==
  /\ w.pc \in Editing => Authorised(w.edit) /\ boot = Serving
  /\ w.pc = "updating" => w.edit.event \in Ids
  /\ w.pc = "reading" => w.event \in Ids
  /\ w.pc = "listing" => \A n \in DOMAIN w.ids : w.ids[n] \in Ids

WorkInv == \A t \in Threads : Checked(work[t])

\* A token is as old as it says.
TokenTimes ==
  \A token \in tokens : token.exp = IsoFormat(token.issued + TokenTTL) /\ token.issued <= now

\* The journal begins when the table does, and a boot that seeds is at its end.
BootInv ==
  /\ journal # <<>> => events # <<>>
  /\ events # <<>> => journal # <<>>
  /\ boot \in DOMAIN Demos => Len(journal) = boot - 1

CatalogInv ==
  /\ CatalogTypeOK
  /\ AccountsInv
  /\ TokenTimes
  /\ WorkInv
  /\ BootInv

-----------------------------------------------------------------------------
(* What a step can do to the table of events and its journal. *)

\* The row of an identifier that is stored is one of the table.
LEMMA PlaceOfId ==
  ASSUME CatalogTypeOK, NEW id \in Ids
  PROVE  /\ id \in EventIds
         /\ Place(id) \in DOMAIN events
         /\ events[Place(id)].id = id
         /\ RowOf(id).content \in Content
<1>1. \E i \in DOMAIN events : events[i].id = id
  BY DEF Ids
<1>2. Place(id) \in DOMAIN events /\ events[Place(id)].id = id
  BY <1>1 DEF Place
<1>3. events[Place(id)] \in EventRow
  BY <1>2 DEF CatalogTypeOK
<1> QED
  BY <1>2, <1>3 DEF RowOf, EventRow

\* Who may write v: the process that boots, or an admin.
Allowed(v) ==
  \/ /\ v.token = NoToken
     /\ boot \in DOMAIN Demos
     /\ v.content = Demos[boot]
     /\ boot' = boot + 1
  \/ /\ Authorised(v)
     /\ boot = Serving
     /\ boot' = boot

Creates(v, created) ==
  /\ v.event \notin Ids
  /\ events' = Append(events, [id |-> v.event, created |-> created, content |-> v.content])

Updates(v) ==
  /\ v.event \in Ids
  /\ events' = [i \in DOMAIN events |->
                  IF events[i].id = v.event
                  THEN [id |-> events[i].id, created |-> events[i].created, content |-> v.content]
                  ELSE events[i]]

Writes(v) ==
  /\ v \in Version
  /\ Allowed(v)
  /\ journal' = Append(journal, v)
  /\ Updates(v) \/ \E created \in IsoText : Creates(v, created)

\* Without a write, the process may go on from looking at the table.
Boots ==
  \/ boot' = boot
  \/ boot = 0 /\ boot' = 1 /\ events = <<>>
  \/ boot = 0 /\ boot' = Serving /\ events # <<>>
  \/ boot' = 0 /\ work' = [t \in Threads |-> Idle]

TableStep ==
  \/ UNCHANGED <<events, journal>> /\ Boots
  \/ \E v \in Version : Writes(v)

\* The journal entry that an edit becomes.
LEMMA EditVersion ==
  ASSUME NEW id \in EventIds, NEW edit \in Edit
  PROVE  \E v \in Version :
           /\ v.event = id
           /\ v.content = edit.content
           /\ v.token = edit.token
           /\ v.at = edit.at
           /\ v.under = edit.under
           /\ Record(id, edit) => journal' = Append(journal, v)
<1> DEFINE v == [event |-> id, content |-> edit.content, token |-> edit.token,
                 at |-> edit.at, under |-> edit.under]
<1>1. v \in Version
  BY DEF Version, Edit
<1>2. /\ v.event = id /\ v.content = edit.content /\ v.token = edit.token
      /\ v.at = edit.at /\ v.under = edit.under
  OBVIOUS
<1>3. Record(id, edit) => journal' = Append(journal, v)
  BY DEF Record
<1> HIDE DEF v
<1> QED
  BY <1>1, <1>2, <1>3

\* Every step leaves table and journal alone or writes one allowed version.
LEMMA TableSteps ==
  ASSUME CatalogInv, [CatalogNext]_catalogVars
  PROVE  TableStep
<1> USE DEF CatalogInv
<1>1. CASE UNCHANGED catalogVars
  BY <1>1 DEF catalogVars, TableStep, Boots
<1>2. CASE AccountStep
  BY <1>2 DEF AccountStep, TableStep, Boots
<1>3. CASE Start
  <2>1. boot' = IF events = <<>> THEN 1 ELSE Serving
    BY <1>3 DEF Start
  <2> QED
    BY <1>3, <2>1 DEF Start, TableStep, Boots
<1>4. ASSUME NEW id \in EventIds, Seed(id) PROVE TableStep
  <2> DEFINE v == [event |-> id, content |-> Demos[boot], token |-> NoToken, at |-> now, under |-> secret]
  <2>1. boot \in DOMAIN Demos /\ id \notin Ids /\ boot' = boot + 1
    BY <1>4 DEF Seed
  <2>2. Demos[boot] \in Content 
    BY <2>1, CatalogAssumption
  <2>3. v \in Version
    BY <2>2 DEF Version, CatalogTypeOK, AccountsTypeOK
  <2>4. /\ v.event = id /\ v.content = Demos[boot] /\ v.token = NoToken
    OBVIOUS
  <2>5. IsoFormat(now) \in IsoText
    BY IsoFormatType DEF CatalogTypeOK, AccountsTypeOK
  <2>6. /\ events' = Append(events, [id |-> id, created |-> IsoFormat(now), content |-> Demos[boot]])
        /\ journal' = Append(journal, v)
    BY <1>4 DEF Seed, Insert, Record
  <2> HIDE DEF v
  <2>7. Creates(v, IsoFormat(now))
    BY <2>1, <2>4, <2>6 DEF Creates
  <2>8. Writes(v)
    BY <2>1, <2>2, <2>3, <2>4, <2>5, <2>6, <2>7 DEF Writes, Allowed
  <2> QED
    BY <2>3, <2>8 DEF TableStep
<1>5. ASSUME NEW t \in Threads, NEW id \in EventIds, CreateInserted(t, id) PROVE TableStep
  <2>0. PICK edit : edit = work[t].edit
    OBVIOUS
  <2>1. work[t] \in Work /\ work[t].pc = "inserting"
    BY <1>5 DEF CreateInserted, CatalogTypeOK
  <2>2. edit \in Edit /\ work[t].created \in IsoText
    BY <2>0, <2>1, WorkKinds
  <2>3. Authorised(edit) /\ boot = Serving
    BY <2>0, <2>1 DEF WorkInv, Checked, Editing
  <2>4. PICK v \in Version : /\ v.event = id
                             /\ v.content = edit.content
                             /\ v.token = edit.token
                             /\ v.at = edit.at
                             /\ v.under = edit.under
                             /\ Record(id, edit) => journal' = Append(journal, v)
    BY <2>2, EditVersion
  <2>5. /\ id \notin Ids
        /\ events' = Append(events, [id |-> id, created |-> work[t].created, content |-> edit.content])
        /\ journal' = Append(journal, v)
        /\ boot' = boot
    BY <1>5, <2>0, <2>4 DEF CreateInserted, Insert
  <2>6. Creates(v, work[t].created)
    BY <2>4, <2>5 DEF Creates
  <2>7. Authorised(v)
    BY <2>3, <2>4 DEF Authorised
  <2> QED
    BY <2>2, <2>3, <2>4, <2>5, <2>6, <2>7 DEF TableStep, Writes, Allowed
<1>6. ASSUME NEW t \in Threads, UpdateStored(t) PROVE TableStep
  <2>0. PICK edit : edit = work[t].edit
    OBVIOUS
  <2>1. work[t] \in Work /\ work[t].pc = "updating"
    BY <1>6 DEF UpdateStored, CatalogTypeOK
  <2>2. edit \in Edit
    BY <2>0, <2>1, WorkKinds
  <2>3. Authorised(edit) /\ boot = Serving /\ edit.event \in Ids
    BY <2>0, <2>1 DEF WorkInv, Checked, Editing
  <2>4. edit.event \in EventIds
    BY <2>3, PlaceOfId
  <2>5. PICK v \in Version : /\ v.event = edit.event
                             /\ v.content = edit.content
                             /\ v.token = edit.token
                             /\ v.at = edit.at
                             /\ v.under = edit.under
                             /\ Record(edit.event, edit) => journal' = Append(journal, v)
    BY <2>2, <2>4, EditVersion
  <2>6. /\ events' = [i \in DOMAIN events |->
                        IF events[i].id = edit.event
                        THEN [id |-> events[i].id, created |-> events[i].created,
                              content |-> edit.content]
                        ELSE events[i]]
        /\ journal' = Append(journal, v)
        /\ boot' = boot
    BY <1>6, <2>0, <2>5 DEF UpdateStored
  <2>7. Updates(v)
    BY <2>3, <2>5, <2>6 DEF Updates
  <2>8. Authorised(v)
    BY <2>3, <2>5 DEF Authorised
  <2> QED
    BY <2>3, <2>5, <2>6, <2>7, <2>8 DEF TableStep, Writes, Allowed
<1>7. ASSUME NEW t \in Threads,
             \/ \E header, id, content : BeginEdit(t, header, id, content)
             \/ \E header : EditRefused(t, header)
             \/ EditInvalid(t) \/ CreateChecked(t) \/ UpdateNotFound(t) \/ UpdateChecked(t)
             \/ ReadBack(t) \/ ListBegins(t) \/ ListReads(t) \/ Answered(t)
      PROVE  TableStep
  <2>1. UNCHANGED <<events, boot, journal>>
    BY <1>7 DEF BeginEdit, EditRefused, EditInvalid, CreateChecked, UpdateNotFound, UpdateChecked,
                ReadBack, ListBegins, ListReads, Answered
  <2> QED
    BY <2>1 DEF TableStep, Boots
<1>8. ASSUME NEW s \in Secrets, CatalogRestart(s) PROVE TableStep
  BY <1>8 DEF CatalogRestart, TableStep, Boots
<1> QED
  BY <1>1, <1>2, <1>3, <1>4, <1>5, <1>6, <1>7, <1>8 DEF CatalogNext, EditStep

\* What a write appends is found at the end, and the rest where it was.
LEMMA AppendedAt ==
  ASSUME NEW S, NEW s \in Seq(S), NEW x \in S
  PROVE  /\ Append(s, x) \in Seq(S)
         /\ DOMAIN Append(s, x) = DOMAIN s \cup {Len(s) + 1}
         /\ Len(Append(s, x)) = Len(s) + 1
         /\ DOMAIN s = 1 .. Len(s)
         /\ Append(s, x)[Len(s) + 1] = x
         /\ \A i \in DOMAIN s : Append(s, x)[i] = s[i]
OBVIOUS

\* What a write does to one row of the table.
LEMMA RowsAfterWrite ==
  ASSUME CatalogTypeOK, NEW v \in Version, Writes(v)
  PROVE  /\ events' \in Seq(EventRow)
         /\ DOMAIN events \subseteq DOMAIN events'
         /\ \A i \in DOMAIN events : /\ events'[i].id = events[i].id
                                     /\ events'[i].created = events[i].created
         /\ \A i \in DOMAIN events' : \/ events'[i].id = v.event /\ events'[i].content = v.content
                                      \/ /\ i \in DOMAIN events
                                         /\ events'[i] = events[i]
                                         /\ events[i].id # v.event
         /\ \A i, j \in DOMAIN events' : events'[i].id = events'[j].id => i = j
         /\ events' # <<>>
<1>1. v.event \in EventIds /\ v.content \in Content
  BY DEF Version
<1>2. ASSUME NEW created \in IsoText, Creates(v, created)
      PROVE  /\ events' \in Seq(EventRow)
             /\ DOMAIN events \subseteq DOMAIN events'
             /\ \A i \in DOMAIN events : events'[i] = events[i]
             /\ \A i \in DOMAIN events' \ DOMAIN events :
                  events'[i].id = v.event /\ events'[i].content = v.content
             /\ \A i \in DOMAIN events : events[i].id # v.event
             /\ \A i, j \in DOMAIN events' : events'[i].id = events'[j].id => i = j
             /\ events' # <<>>
  <2> DEFINE row == [id |-> v.event, created |-> created, content |-> v.content]
  <2>1. row \in EventRow /\ row.id = v.event /\ row.content = v.content
    BY <1>1 DEF EventRow
  <2>2. events' = Append(events, row) /\ v.event \notin Ids
    BY <1>2 DEF Creates
  <2> HIDE DEF row
  <2>3. events \in Seq(EventRow)
    BY DEF CatalogTypeOK
  <2>4. /\ events' \in Seq(EventRow)
        /\ DOMAIN events' = DOMAIN events \cup {Len(events) + 1}
        /\ events'[Len(events) + 1] = row
        /\ \A i \in DOMAIN events : events'[i] = events[i]
        /\ events' # <<>>
    BY <2>1, <2>2, <2>3, AppendedAt
  <2>5. \A i \in DOMAIN events : events[i].id # v.event
    BY <2>2 DEF Ids
  <2> QED
    BY <2>1, <2>4, <2>5 DEF CatalogTypeOK
<1>3. ASSUME Updates(v)
      PROVE  /\ events' \in Seq(EventRow)
             /\ DOMAIN events' = DOMAIN events
             /\ \A i \in DOMAIN events : /\ events'[i].id = events[i].id
                                         /\ events'[i].created = events[i].created
                                         /\ events[i].id = v.event => events'[i].content = v.content
                                         /\ events[i].id # v.event => events'[i] = events[i]
             /\ events' # <<>>
  <2>1. ASSUME NEW i \in DOMAIN events
        PROVE  /\ events[i] \in EventRow
               /\ [id |-> events[i].id, created |-> events[i].created, content |-> v.content] \in EventRow
    <3>1. events[i] \in EventRow
      BY DEF CatalogTypeOK
    <3>2. events[i].id \in EventIds /\ events[i].created \in IsoText
      BY <3>1 DEF EventRow
    <3> QED
      BY <1>1, <3>1, <3>2 DEF EventRow
  <2>2. /\ DOMAIN events' = DOMAIN events
        /\ \A i \in DOMAIN events : /\ events'[i].id = events[i].id
                                    /\ events'[i].created = events[i].created
                                    /\ events[i].id = v.event => events'[i].content = v.content
                                    /\ events[i].id # v.event => events'[i] = events[i]
    BY <1>3 DEF Updates
  <2>3. events' \in Seq(EventRow)
    <3>1. events \in Seq(EventRow) /\ DOMAIN events = 1 .. Len(events) /\ Len(events) \in Nat
      BY DEF CatalogTypeOK
    <3>2. events' \in [1 .. Len(events) -> EventRow]
      BY <1>3, <2>1, <3>1 DEF Updates
    <3> QED
      BY <3>1, <3>2
  <2>4. events' # <<>>
    <3>1. DOMAIN events # {}
      BY <1>3 DEF Updates, Ids
    <3> QED
      BY <2>2, <3>1
  <2> QED
    BY <2>2, <2>3, <2>4
<1>4. \A i, j \in DOMAIN events : events[i].id = events[j].id => i = j
  BY DEF CatalogTypeOK
<1> QED
  BY <1>2, <1>3, <1>4 DEF Writes

\* No step removes an event, moves it, or gives it another time.
LEMMA PlacesStay ==
  ASSUME CatalogInv, [CatalogNext]_catalogVars
  PROVE  /\ DOMAIN events \subseteq DOMAIN events'
         /\ \A i \in DOMAIN events : /\ events'[i].id = events[i].id
                                     /\ events'[i].created = events[i].created
         /\ Ids \subseteq Ids'
<1>1. /\ DOMAIN events \subseteq DOMAIN events'
      /\ \A i \in DOMAIN events : /\ events'[i].id = events[i].id
                                  /\ events'[i].created = events[i].created
  BY TableSteps, RowsAfterWrite DEF TableStep, CatalogInv
<1> QED
  BY <1>1 DEF Ids

\* The clock never goes back.
LEMMA TimePasses ==
  ASSUME AccountsTypeOK, [Next]_accountVars
  PROVE  now <= now'
<1>1. ASSUME NEW t \in Threads, Arrive(t) \/ IssueToken(t) \/ Return(t)
      PROVE  now' = now
  BY <1>1 DEF Arrive, RegisterInvalid, EmailTaken, Register, LoginRefused, LoginGranted, Me,
              IssueToken, Return
<1>2. ASSUME NEW s \in Secrets, Restart(s) PROVE now' = now
  BY <1>2 DEF Restart
<1>3. CASE Tick
  BY <1>3 DEF Tick, AccountsTypeOK
<1>4. CASE UNCHANGED accountVars
  BY <1>4 DEF accountVars, AccountsTypeOK
<1>5. now \in Nat
  BY DEF AccountsTypeOK
<1> QED
  BY <1>1, <1>2, <1>3, <1>4, <1>5 DEF Next

\* Tokens are never forgotten, and only IssueToken makes one.
LEMMA TokensGrow ==
  ASSUME AccountsTypeOK, [Next]_accountVars
  PROVE  /\ tokens \subseteq tokens'
         /\ \A token \in tokens' \ tokens :
              token.exp = IsoFormat(token.issued + TokenTTL) /\ token.issued = now
<1>1. CASE UNCHANGED accountVars
  BY <1>1 DEF accountVars
<1>2. CASE Next
  <2>1. TokensStep
    BY <1>2, AccountSteps
  <2> QED
    BY <2>1 DEF TokensStep, NewToken
<1> QED
  BY <1>1, <1>2

\* Tokens keep the times they were issued with.
LEMMA TokenTimesStep ==
  ASSUME CatalogInv, [CatalogNext]_catalogVars
  PROVE  TokenTimes'
<1>1. AccountsTypeOK /\ [Next]_accountVars
  BY AccountsView DEF CatalogInv, AccountsInv
<1>2. now \in Nat /\ now' \in Nat /\ now <= now'
  BY <1>1, TimePasses, AccountsTypeStep DEF AccountsTypeOK
<1>3. \A token \in tokens : token.issued \in Nat
  BY <1>1 DEF AccountsTypeOK, Token
<1>4. ASSUME NEW token \in tokens'
      PROVE  token.exp = IsoFormat(token.issued + TokenTTL) /\ token.issued <= now'
  <2>1. CASE token \in tokens
    BY <1>2, <1>3, <2>1 DEF CatalogInv, TokenTimes
  <2>2. CASE token \notin tokens
    BY <1>1, <1>2, <2>2, TokensGrow
  <2> QED
    BY <2>1, <2>2
<1> QED
  BY <1>4 DEF TokenTimes

\* Who was authorised is so after any step: an admin stays one.
LEMMA AuthorisedStays ==
  ASSUME CatalogInv, [CatalogNext]_catalogVars, NEW v, Authorised(v)
  PROVE  Authorised(v)'
<1>1. AccountsInv /\ [Next]_accountVars
  BY AccountsView DEF CatalogInv
<1>2. v.token \in tokens /\ v.token.sub \in DOMAIN users
  BY <1>1 DEF Authorised, AccountsInv, TokensAreEarned
<1>3. v.token \in tokens'
  BY <1>1, <1>2, TokensGrow DEF AccountsInv
<1>4. users'[v.token.sub] = users[v.token.sub]
  BY <1>1, <1>2, RowsStay DEF AccountsInv
<1> QED
  BY <1>3, <1>4 DEF Authorised

-----------------------------------------------------------------------------
(* What a step can do to a request. *)

\* The order of a list names places of the table.
LEMMA OrdersName ==
  ASSUME CatalogTypeOK, NEW p \in Orders
  PROVE  /\ [n \in DOMAIN events |-> events[p[n]].id] \in Seq(EventIds)
         /\ \A n \in DOMAIN events : events[p[n]].id \in Ids /\ p[n] \in DOMAIN events
<1>1. p \in [DOMAIN events -> DOMAIN events]
  BY DEF Orders
<1>2. ASSUME NEW n \in DOMAIN events
      PROVE  p[n] \in DOMAIN events /\ events[p[n]].id \in Ids /\ events[p[n]].id \in EventIds
  <2>1. p[n] \in DOMAIN events
    BY <1>1
  <2>2. events[p[n]].id \in Ids
    BY <2>1 DEF Ids
  <2> QED
    BY <2>1, <2>2, PlaceOfId
<1>3. events \in Seq(EventRow) /\ Len(events) \in Nat /\ DOMAIN events = 1 .. Len(events)
  BY DEF CatalogTypeOK
<1>4. [n \in 1 .. Len(events) |-> events[p[n]].id] \in [1 .. Len(events) -> EventIds]
  BY <1>2, <1>3
<1> QED
  BY <1>2, <1>3, <1>4

\* An admin's request that is let through carries a checked edit.
LEMMA BegunEdit ==
  ASSUME CatalogInv, NEW t \in Threads, NEW header \in Headers, NEW id \in EventIds \cup {NoEvent},
         NEW content \in Contents, BeginEdit(t, header, id, content)
  PROVE  \E edit \in Edit : /\ Authorised(edit)
                            /\ boot = Serving
                            /\ Continue(t, [pc |-> "authorized", edit |-> edit])
<1> DEFINE edit == [event |-> id, content |-> content, token |-> header, at |-> now, under |-> secret]
<1>1. /\ header \in tokens \ {NoToken} /\ header.secret = secret
      /\ now < FromIsoFormat(header.exp)
      /\ users[header.sub].role = "admin"
      /\ boot = Serving
  BY DEF BeginEdit, Headers, InSession, IsAdmin, Ready
<1>2. header \in Token /\ now \in Nat /\ secret \in Secrets
  BY <1>1 DEF CatalogInv, CatalogTypeOK, AccountsTypeOK
<1>3. header.exp = IsoFormat(header.issued + TokenTTL) /\ header.issued <= now
  BY <1>1 DEF CatalogInv, TokenTimes
<1>4. header.issued \in Nat
  BY <1>2 DEF Token
<1>5. header.issued + TokenTTL \in Nat
  BY <1>4, AccountsAssumption
<1>6. now < header.issued + TokenTTL
  BY <1>1, <1>3, <1>5, FromIsoFormatInverts
<1>7. content \in Content
  BY CatalogAssumption
<1>8. edit \in Edit
  BY <1>2, <1>7 DEF Edit
<1>9. edit.token = header /\ edit.at = now /\ edit.under = secret
  OBVIOUS
<1>10. Continue(t, [pc |-> "authorized", edit |-> edit])
  BY DEF BeginEdit
<1> HIDE DEF edit
<1>11. Authorised(edit)
  BY <1>1, <1>3, <1>6, <1>9 DEF Authorised
<1> QED
  BY <1>1, <1>8, <1>10, <1>11

\* A request goes on to where it may be, with what has been checked.
Moves(t, w) ==
  /\ w \in Work
  /\ Checked(w)'
  /\ work' = [work EXCEPT ![t] = w]

WorkStep ==
  \/ UNCHANGED work
  \/ work' = [t \in Threads |-> Idle]
  \/ \E t \in Threads, w \in Work : Moves(t, w)

\* Every step moves one request, none, or ends them all.
LEMMA WorkSteps ==
  ASSUME CatalogInv, [CatalogNext]_catalogVars
  PROVE  WorkStep
<1> USE DEF CatalogInv
<1>0. ASSUME NEW t \in Threads
      PROVE  work[t] \in Work /\ Checked(work[t])
  BY DEF CatalogTypeOK, WorkInv
<1>1. CASE UNCHANGED catalogVars
  BY <1>1 DEF catalogVars, WorkStep
<1>2. CASE AccountStep \/ Start \/ \E id \in EventIds : Seed(id)
  BY <1>2 DEF AccountStep, Start, Seed, WorkStep
<1>3. ASSUME NEW s \in Secrets, CatalogRestart(s) PROVE WorkStep
  BY <1>3 DEF CatalogRestart, WorkStep
<1>4. ASSUME NEW t \in Threads, NEW header \in Headers, NEW id \in EventIds \cup {NoEvent},
             NEW content \in Contents, BeginEdit(t, header, id, content)
      PROVE  WorkStep
  <2>1. PICK edit \in Edit : /\ Authorised(edit)
                             /\ boot = Serving
                             /\ Continue(t, [pc |-> "authorized", edit |-> edit])
    BY <1>4, BegunEdit
  <2>2. PICK w \in Work : /\ w.pc = "authorized"
                          /\ w.edit = edit
                          /\ work' = [work EXCEPT ![t] = w]
    BY <2>1, WorkRecords DEF Continue
  <2>3. Authorised(edit)' /\ boot' = Serving
    BY <1>4, <2>1, AuthorisedStays DEF BeginEdit, Serving
  <2>4. Checked(w)'
    BY <2>2, <2>3 DEF Checked, Serving
  <2> QED
    BY <2>2, <2>4 DEF WorkStep, Moves
<1>5. ASSUME NEW t \in Threads,
             \/ \E header \in Headers : EditRefused(t, header)
             \/ EditInvalid(t) \/ UpdateNotFound(t) \/ Answered(t)
      PROVE  WorkStep
  <2>1. \E w \in Work : w.pc \in {"replied", "idle"} /\ work' = [work EXCEPT ![t] = w]
    <3>1. /\ Idle \in Work /\ Idle.pc = "idle"
          /\ \A n \in {400, 401, 403, 404} : Reply(n) \in Work /\ Reply(n).pc = "replied"
      BY WorkRecords DEF Idle, Reply
    <3>2. ASSUME NEW header \in Headers, EditRefused(t, header)
          PROVE  \E n \in {401, 403} : Continue(t, Reply(n))
      BY <3>2 DEF EditRefused
    <3>3. (EditInvalid(t) => Continue(t, Reply(400))) /\ (UpdateNotFound(t) => Continue(t, Reply(404)))
          /\ (Answered(t) => Continue(t, Idle))
      BY DEF EditInvalid, UpdateNotFound, Answered
    <3> QED
      BY <1>5, <3>1, <3>2, <3>3 DEF Continue
  <2>2. ASSUME NEW w \in Work, w.pc \in {"replied", "idle"}
        PROVE  Checked(w)'
    BY <2>2 DEF Checked, Editing
  <2> QED
    BY <2>1, <2>2 DEF WorkStep, Moves
<1>6. ASSUME NEW t \in Threads, CreateChecked(t) PROVE WorkStep
  <2>1. PICK edit : edit = work[t].edit
    OBVIOUS
  <2>2. work[t].pc = "authorized"
    BY <1>6, <2>1 DEF CreateChecked
  <2>3. edit \in Edit /\ Authorised(edit) /\ boot = Serving
    BY <1>0, <2>1, <2>2, WorkKinds DEF Checked, Editing
  <2>4. IsoFormat(now) \in IsoText
    BY IsoFormatType DEF CatalogTypeOK, AccountsTypeOK
  <2>5. PICK w \in Work : /\ w.pc = "inserting"
                          /\ w.edit = edit
                          /\ work' = [work EXCEPT ![t] = w]
    BY <1>6, <2>1, <2>3, <2>4, WorkRecords DEF CreateChecked, Continue
  <2>6. Authorised(edit)' /\ boot' = Serving
    BY <1>6, <2>3, AuthorisedStays DEF CreateChecked, Serving
  <2>7. Checked(w)'
    BY <2>2, <2>5, <2>6 DEF Checked, Serving
  <2> QED
    BY <2>5, <2>7 DEF WorkStep, Moves
<1>7. ASSUME NEW t \in Threads, UpdateChecked(t) PROVE WorkStep
  <2>1. PICK edit : edit = work[t].edit
    OBVIOUS
  <2>2. work[t].pc = "authorized" /\ edit.event \in Ids
    BY <1>7, <2>1 DEF UpdateChecked
  <2>3. edit \in Edit /\ Authorised(edit) /\ boot = Serving
    BY <1>0, <2>1, <2>2, WorkKinds DEF Checked, Editing
  <2>4. PICK w \in Work : /\ w.pc = "updating"
                          /\ w.edit = edit
                          /\ work' = [work EXCEPT ![t] = w]
    BY <1>7, <2>1, <2>3, WorkRecords DEF UpdateChecked, Continue
  <2>5. Authorised(edit)' /\ boot' = Serving /\ edit.event \in Ids'
    BY <1>7, <2>2, <2>3, AuthorisedStays, PlacesStay DEF UpdateChecked, Serving
  <2>6. Checked(w)'
    BY <2>2, <2>4, <2>5 DEF Checked, Serving
  <2> QED
    BY <2>4, <2>6 DEF WorkStep, Moves
<1>8. ASSUME NEW t \in Threads, NEW id \in EventIds, id \in Ids',
             work' = [work EXCEPT ![t] = [pc |-> "reading", event |-> id, version |-> Len(journal) + 1]]
      PROVE  WorkStep
  <2>1. Len(journal) + 1 \in Nat
    BY DEF CatalogTypeOK
  <2>2. PICK w \in Work : w.pc = "reading" /\ w.event = id /\ work' = [work EXCEPT ![t] = w]
    BY <1>8, <2>1, WorkRecords
  <2>3. Checked(w)'
    BY <1>8, <2>2 DEF Checked, Editing
  <2> QED
    BY <2>2, <2>3 DEF WorkStep, Moves
<1>9. ASSUME NEW t \in Threads, NEW id \in EventIds, CreateInserted(t, id) PROVE WorkStep
  <2>1. id \in Ids'
    <3> DEFINE row == [id |-> id, created |-> work[t].created, content |-> work[t].edit.content]
    <3>1. events' = Append(events, row) /\ row.id = id
      BY <1>9 DEF CreateInserted, Insert
    <3>2. events \in Seq(EventRow) /\ Len(events) \in Nat
      BY DEF CatalogTypeOK
    <3> HIDE DEF row
    <3>3. Len(events) + 1 \in DOMAIN events' /\ events'[Len(events) + 1] = row
      BY <3>1, <3>2
    <3> QED
      BY <3>1, <3>3 DEF Ids
  <2>2. work' = [work EXCEPT ![t] = [pc |-> "reading", event |-> id, version |-> Len(journal) + 1]]
    BY <1>9 DEF CreateInserted, Continue
  <2> QED
    BY <1>8, <2>1, <2>2
<1>10. ASSUME NEW t \in Threads, UpdateStored(t) PROVE WorkStep
  <2>1. PICK id : id = work[t].edit.event
    OBVIOUS
  <2>2. id \in Ids
    BY <1>0, <1>10, <2>1 DEF UpdateStored, Checked
  <2>3. id \in EventIds /\ id \in Ids'
    BY <2>2, PlaceOfId, PlacesStay
  <2>4. work' = [work EXCEPT ![t] = [pc |-> "reading", event |-> id, version |-> Len(journal) + 1]]
    BY <1>10, <2>1 DEF UpdateStored, Continue
  <2> QED
    BY <1>8, <2>3, <2>4
<1>11. ASSUME NEW t \in Threads, ReadBack(t) PROVE WorkStep
  <2>1. work[t].pc = "reading"
    BY <1>11 DEF ReadBack
  <2>2. work[t].event \in EventIds /\ work[t].version \in Nat /\ work[t].event \in Ids
    BY <1>0, <2>1, WorkKinds DEF Checked
  <2>3. RowOf(work[t].event).content \in Content
    BY <2>2, PlaceOfId
  <2>4. PICK w \in Work : w.pc = "edited" /\ work' = [work EXCEPT ![t] = w]
    BY <1>11, <2>2, <2>3, WorkRecords DEF ReadBack, Continue
  <2>5. Checked(w)'
    BY <2>4 DEF Checked, Editing
  <2> QED
    BY <2>4, <2>5 DEF WorkStep, Moves
<1>12. ASSUME NEW t \in Threads, ListBegins(t) PROVE WorkStep
  <2>1. PICK p \in Orders :
          Continue(t, [pc |-> "listing", shown |-> <<>>, since |-> Len(journal),
                       ids |-> [n \in DOMAIN events |-> events[p[n]].id]])
    BY <1>12 DEF ListBegins
  <2>2. PICK ids : ids = [n \in DOMAIN events |-> events[p[n]].id]
    OBVIOUS
  <2>3. ids \in Seq(EventIds) /\ \A n \in DOMAIN ids : ids[n] \in Ids
    BY <2>2, OrdersName
  <2>4. Len(journal) \in Nat /\ <<>> \in Seq(Content)
    BY DEF CatalogTypeOK
  <2>5. PICK w \in Work : w.pc = "listing" /\ w.ids = ids /\ work' = [work EXCEPT ![t] = w]
    BY <2>1, <2>2, <2>3, <2>4, WorkRecords DEF Continue
  <2>6. Checked(w)'
    BY <2>3, <2>5, PlacesStay DEF Checked, Editing
  <2> QED
    BY <2>5, <2>6 DEF WorkStep, Moves
<1>13. ASSUME NEW t \in Threads, ListReads(t) PROVE WorkStep
  <2> DEFINE n == Len(work[t].shown) + 1
             shown == Append(work[t].shown, RowOf(work[t].ids[n]).content)
  <2>1. work[t].pc = "listing" /\ n <= Len(work[t].ids)
    BY <1>13 DEF ListReads
  <2>2. /\ work[t].ids \in Seq(EventIds)
        /\ work[t].shown \in Seq(Content)
        /\ work[t].since \in Nat
        /\ \A m \in DOMAIN work[t].ids : work[t].ids[m] \in Ids
    BY <1>0, <2>1, WorkKinds DEF Checked
  <2>3. n \in DOMAIN work[t].ids
    BY <2>1, <2>2
  <2>4. RowOf(work[t].ids[n]).content \in Content
    BY <2>2, <2>3, PlaceOfId
  <2>5. shown \in Seq(Content)
    BY <2>2, <2>4
  <2>6. work' = [work EXCEPT ![t] = [pc |-> "listing", ids |-> work[t].ids,
                                     since |-> work[t].since, shown |-> shown]]
    BY <1>13 DEF ListReads, Continue
  <2> HIDE DEF shown, n
  <2>7. PICK ids : ids = work[t].ids
    OBVIOUS
  <2>8. PICK w \in Work : w.pc = "listing" /\ w.ids = ids /\ work' = [work EXCEPT ![t] = w]
    BY <2>2, <2>5, <2>6, <2>7, WorkRecords
  <2>9. Checked(w)'
    BY <2>2, <2>7, <2>8, PlacesStay DEF Checked, Editing
  <2> QED
    BY <2>8, <2>9 DEF WorkStep, Moves
<1> QED
  BY <1>1, <1>2, <1>3, <1>4, <1>5, <1>6, <1>7, <1>9, <1>10, <1>11, <1>12, <1>13
     DEF CatalogNext, EditStep

-----------------------------------------------------------------------------
(* The invariant. *)

\* The journal grows by what a write says.
LEMMA JournalAfterWrite ==
  ASSUME CatalogTypeOK, NEW v \in Version, Writes(v)
  PROVE  /\ journal' \in Seq(Version)
         /\ DOMAIN journal' = DOMAIN journal \cup {Len(journal) + 1}
         /\ Len(journal') = Len(journal) + 1
         /\ DOMAIN journal = 1 .. Len(journal)
         /\ Len(journal) \in Nat
         /\ journal'[Len(journal) + 1] = v
         /\ \A i \in DOMAIN journal : journal'[i] = journal[i]
         /\ journal' # <<>>
<1>1. journal \in Seq(Version) /\ journal' = Append(journal, v)
  BY DEF CatalogTypeOK, Writes
<1> QED
  BY <1>1, AppendedAt

\* A step keeps the types.
LEMMA CatalogTypeStep ==
  ASSUME CatalogInv, [CatalogNext]_catalogVars
  PROVE  CatalogTypeOK'
<1> USE DEF CatalogInv
<1>1. AccountsTypeOK'
  BY AccountsView, AccountsTypeStep DEF AccountsInv
<1>2. CASE UNCHANGED <<events, journal>> /\ Boots
  <2>1. Demos \in Seq(Content) /\ Len(Demos) \in Nat
    BY CatalogAssumption
  <2>2. boot' \in 0 .. Serving
    BY <1>2, <2>1 DEF Boots, CatalogTypeOK, Serving
  <2> QED
    BY <1>1, <1>2, <2>2, WorkSteps DEF CatalogTypeOK, WorkStep, Moves, Work
<1>3. ASSUME NEW v \in Version, Writes(v) PROVE CatalogTypeOK'
  <2>1. Demos \in Seq(Content) /\ Len(Demos) \in Nat /\ DOMAIN Demos = 1 .. Len(Demos)
    BY CatalogAssumption
  <2>2. boot' \in 0 .. Serving
    BY <1>3, <2>1 DEF Writes, Allowed, CatalogTypeOK, Serving
  <2>3. work' \in [Threads -> Work]
    BY WorkSteps DEF CatalogTypeOK, WorkStep, Moves, Work
  <2> QED
    BY <1>1, <1>3, <2>2, <2>3, RowsAfterWrite, JournalAfterWrite DEF CatalogTypeOK
<1> QED
  BY <1>2, <1>3, TableSteps DEF TableStep

\* What has been checked of the request that did not move is still so.
LEMMA CheckedStays ==
  ASSUME CatalogInv, [CatalogNext]_catalogVars, NEW w \in Work, Checked(w),
         ~(boot' = 0 /\ work' = [t \in Threads |-> Idle])
  PROVE  Checked(w)'
<1>1. boot = Serving => boot' = Serving
  <2>1. Serving \in Nat /\ Serving # 0 /\ Serving \notin DOMAIN Demos
    BY CatalogAssumption DEF Serving
  <2> QED
    BY <2>1, TableSteps DEF TableStep, Boots, Writes, Allowed, Serving
<1>2. Authorised(w.edit) => Authorised(w.edit)'
  <2>1. PICK edit : edit = w.edit
    OBVIOUS
  <2> QED
    BY <2>1, AuthorisedStays
<1> QED
  BY <1>1, <1>2, PlacesStay DEF Checked, Serving

\* A step keeps what requests have checked.
LEMMA WorkInvStep ==
  ASSUME CatalogInv, [CatalogNext]_catalogVars
  PROVE  WorkInv'
<1> SUFFICES ASSUME NEW t \in Threads PROVE Checked(work[t])'
  BY DEF WorkInv
<1>1. PICK w : w = work'[t]
  OBVIOUS
<1> SUFFICES Checked(w)'
  BY <1>1 DEF Checked
<1>2. CASE w = Idle
  BY <1>2 DEF Checked, Idle, Editing
<1>3. CASE w # Idle
  <2>1. ~(boot' = 0 /\ work' = [u \in Threads |-> Idle])
    BY <1>1, <1>3
  <2>2. work \in [Threads -> Work]
    BY DEF CatalogInv, CatalogTypeOK
  <2>3. CASE w = work[t]
    BY <2>1, <2>2, <2>3, CheckedStays DEF CatalogInv, WorkInv
  <2>4. CASE w # work[t]
    <3>1. PICK u \in Threads, x \in Work : Moves(u, x)
      BY <1>1, <1>3, <2>4, WorkSteps DEF WorkStep
    <3>2. u = t /\ x = w
      BY <1>1, <2>2, <2>4, <3>1 DEF Moves
    <3> QED
      BY <3>1, <3>2 DEF Moves
  <2> QED
    BY <2>3, <2>4
<1> QED
  BY <1>2, <1>3

\* A step keeps journal, table and boot together.
LEMMA BootInvStep ==
  ASSUME CatalogInv, [CatalogNext]_catalogVars
  PROVE  BootInv'
<1> USE DEF CatalogInv
<1>1. Demos \in Seq(Content) /\ Len(Demos) \in Nat /\ DOMAIN Demos = 1 .. Len(Demos)
  BY CatalogAssumption
<1>2. CASE UNCHANGED <<events, journal>> /\ Boots
  <2>1. events = <<>> => Len(journal) = 0
    BY DEF BootInv
  <2> QED
    BY <1>1, <1>2, <2>1 DEF Boots, BootInv, Serving
<1>3. ASSUME NEW v \in Version, Writes(v) PROVE BootInv'
  BY <1>1, <1>3, RowsAfterWrite, JournalAfterWrite DEF Writes, Allowed, BootInv, CatalogTypeOK, Serving
<1> QED
  BY <1>2, <1>3, TableSteps DEF TableStep

\* The server starts with its invariant.
LEMMA CatalogInvInit == CatalogInit => CatalogInv
<1> SUFFICES ASSUME CatalogInit PROVE CatalogInv
  OBVIOUS
<1>1. Init /\ events = <<>> /\ journal = <<>> /\ boot = 0 /\ work = [t \in Threads |-> Idle]
      /\ tokens = {} /\ users = [u \in {} |-> Idle] /\ call = [t \in Threads |-> Idle]
  BY DEF CatalogInit, Init
<1>2. AccountsTypeOK /\ AccountsInv
  BY <1>1, AccountsTypeInit DEF AccountsInv, CanonicalRows, CallsAreEarned, TokensAreEarned, Idle
<1>3. CatalogTypeOK
  <2>1. Len(Demos) \in Nat
    BY CatalogAssumption
  <2> QED
    BY <1>1, <1>2, <2>1, WorkRecords DEF CatalogTypeOK, Serving
<1>4. WorkInv
  BY <1>1 DEF WorkInv, Checked, Idle, Editing
<1>5. BootInv /\ TokenTimes
  <2>1. 0 \notin DOMAIN Demos
    BY CatalogAssumption
  <2> QED
    BY <1>1, <2>1 DEF BootInv, TokenTimes
<1> QED
  BY <1>2, <1>3, <1>4, <1>5 DEF CatalogInv

\* Every step of the server keeps its invariant.
LEMMA CatalogInvStep == CatalogInv /\ [CatalogNext]_catalogVars => CatalogInv'
<1> SUFFICES ASSUME CatalogInv, [CatalogNext]_catalogVars PROVE CatalogInv'
  OBVIOUS
<1>1. [Next]_accountVars
  BY AccountsView
<1>2. AccountsInv'
  BY <1>1, AccountsTypeStep, CanonicalStep, EarnedStep DEF CatalogInv, AccountsInv
<1> QED
  BY <1>2, CatalogTypeStep, TokenTimesStep, WorkInvStep, BootInvStep DEF CatalogInv

\* It always holds.
LEMMA CatalogInvariant == CatalogSpec => []CatalogInv
BY CatalogInvInit, CatalogInvStep, PTL DEF CatalogSpec

-----------------------------------------------------------------------------
(* What it shows. *)

\* The server, its table and its requests are well typed, and no two events
\* have one identifier.
THEOREM CatalogTypes == CatalogSpec => []CatalogTypeOK
<1>1. CatalogInv => CatalogTypeOK
  BY DEF CatalogInv
<1> QED
  BY <1>1, CatalogInvariant, PTL

\* The accounts keep their promises beside the catalogue.
THEOREM CatalogAccounts ==
  CatalogSpec => [](OneAccountPerEmail /\ TokensAreEarned) /\ AccountsArePermanent
BY CatalogKeepsAccounts, MailboxHasOneAccount, TokensNameTheirHolder, AccountsStay, PTL

\* Only admins in session change the catalogue (auth.py:125-162).
THEOREM EditsAreAuthorised == CatalogSpec => []AuthorisedEdits
<1>1. CatalogInit => AuthorisedEdits
  <2>1. DOMAIN << >> = {}
    OBVIOUS
  <2> QED
    BY <2>1 DEF CatalogInit, AuthorisedEdits
<1>2. CatalogInv /\ AuthorisedEdits /\ [CatalogNext]_catalogVars => AuthorisedEdits'
  <2> SUFFICES ASSUME CatalogInv, AuthorisedEdits, [CatalogNext]_catalogVars,
                      NEW i \in DOMAIN journal'
               PROVE  \/ journal'[i].token = NoToken /\ i \in DOMAIN Demos
                      \/ Authorised(journal[i])'
    BY DEF AuthorisedEdits
  <2>1. PICK v : v = journal'[i]
    OBVIOUS
  <2>2. Authorised(v) => Authorised(journal[i])'
    BY <2>1, AuthorisedStays DEF Authorised
  <2>3. CASE i \in DOMAIN journal /\ journal'[i] = journal[i]
    BY <2>1, <2>2, <2>3 DEF AuthorisedEdits
  <2>4. ASSUME NEW x \in Version, Writes(x), ~(i \in DOMAIN journal /\ journal'[i] = journal[i])
        PROVE  (v.token = NoToken /\ i \in DOMAIN Demos) \/ Authorised(v)
    <3>1. v = x /\ i = Len(journal) + 1
      BY <2>1, <2>4, JournalAfterWrite DEF CatalogInv
    <3>2. boot \in DOMAIN Demos => i = boot
      BY <3>1, CatalogAssumption DEF CatalogInv, BootInv, CatalogTypeOK
    <3> QED
      BY <2>4, <3>1, <3>2 DEF Writes, Allowed
  <2> QED
    BY <2>1, <2>2, <2>3, <2>4, TableSteps DEF TableStep
<1> QED
  BY <1>1, <1>2, CatalogInvariant, PTL DEF CatalogSpec

\* The demos are created once, in their order and before anything else, and
\* nobody is served an empty catalogue (catalog.py:77-83).
THEOREM DemosComeOnce == CatalogSpec => []SeededOnce
<1>1. CatalogInit => SeededOnce
  <2>1. DOMAIN << >> = {} /\ Serving # 0
    BY CatalogAssumption DEF Serving
  <2> QED
    BY <2>1 DEF CatalogInit, SeededOnce
<1>2. CatalogInv /\ SeededOnce /\ [CatalogNext]_catalogVars => SeededOnce'
  <2> SUFFICES ASSUME CatalogInv, SeededOnce, [CatalogNext]_catalogVars
               PROVE  SeededOnce'
    OBVIOUS
  <2>1. Demos \in Seq(Content) /\ Len(Demos) \in Nat \ {0} /\ DOMAIN Demos = 1 .. Len(Demos)
    BY CatalogAssumption
  <2>2. boot \in DOMAIN Demos => boot = Len(journal) + 1
    BY <2>1 DEF CatalogInv, BootInv, CatalogTypeOK
  <2>3. CASE UNCHANGED <<events, journal>> /\ Boots
    BY <2>1, <2>3 DEF SeededOnce, Boots, Serving
  <2>4. ASSUME NEW v \in Version, Writes(v) PROVE SeededOnce'
    <3>1. v.token = NoToken => boot \in DOMAIN Demos /\ v.content = Demos[boot]
      BY <2>4 DEF Writes, Allowed, Authorised
    <3>2. /\ DOMAIN journal' = DOMAIN journal \cup {Len(journal) + 1}
          /\ journal'[Len(journal) + 1] = v
          /\ \A i \in DOMAIN journal : journal'[i] = journal[i]
          /\ events' # <<>>
      BY <2>4, RowsAfterWrite, JournalAfterWrite DEF CatalogInv
    <3> QED
      BY <2>2, <3>1, <3>2 DEF SeededOnce
  <2> QED
    BY <2>3, <2>4, TableSteps DEF TableStep
<1> QED
  BY <1>1, <1>2, CatalogInvariant, PTL DEF CatalogSpec

-----------------------------------------------------------------------------
(* What clients are shown. *)

\* A request that shows something stays where it is or takes one of its steps.
LEMMA RequestMoves ==
  ASSUME CatalogInv, [CatalogNext]_catalogVars, NEW t \in Threads
  PROVE  \/ work'[t] = work[t]
         \/ work'[t].pc \notin {"reading", "edited", "listing"}
         \/ ReadBack(t) \/ UpdateStored(t) \/ (\E id \in EventIds : CreateInserted(t, id))
         \/ ListBegins(t) \/ ListReads(t)
<1>1. work \in [Threads -> Work]
  BY DEF CatalogInv, CatalogTypeOK
<1>2. CASE UNCHANGED catalogVars \/ AccountStep \/ Start \/ \E id \in EventIds : Seed(id)
  BY <1>2 DEF catalogVars, AccountStep, Start, Seed
<1>3. ASSUME NEW s \in Secrets, CatalogRestart(s) PROVE work'[t].pc = "idle"
  BY <1>3 DEF CatalogRestart, Idle
<1>4. ASSUME NEW u \in Threads, EditStep(u) \/ ListBegins(u) \/ ListReads(u) \/ Answered(u), u # t
      PROVE  work'[t] = work[t]
  <2>1. \E w : work' = [work EXCEPT ![u] = w]
    BY <1>4 DEF EditStep, BeginEdit, EditRefused, EditInvalid, CreateChecked, CreateInserted,
                UpdateNotFound, UpdateChecked, UpdateStored, ReadBack, ListBegins, ListReads, Answered,
                Continue
  <2> QED
    BY <1>1, <1>4, <2>1
<1>5. ASSUME \/ \E header \in Headers : EditRefused(t, header)
             \/ EditInvalid(t) \/ UpdateNotFound(t) \/ Answered(t)
      PROVE  work'[t].pc \in {"replied", "idle"}
  <2>1. (\E n \in {400, 401, 403, 404} : Continue(t, Reply(n))) \/ Continue(t, Idle)
    BY <1>5 DEF EditRefused, EditInvalid, UpdateNotFound, Answered
  <2> QED
    BY <1>1, <2>1 DEF Continue, Reply, Idle
<1>6. ASSUME \/ \E header \in Headers, id \in EventIds \cup {NoEvent}, content \in Contents :
                  BeginEdit(t, header, id, content)
             \/ CreateChecked(t) \/ UpdateChecked(t)
      PROVE  work'[t].pc \in Editing
  BY <1>1, <1>6 DEF BeginEdit, CreateChecked, UpdateChecked, Continue, Editing
<1> QED
  BY <1>2, <1>3, <1>4, <1>5, <1>6 DEF CatalogNext, EditStep, Editing

\* Identifiers keep their places, and places their order.
LEMMA OrderStays ==
  ASSUME CatalogInv, [CatalogNext]_catalogVars
  PROVE  /\ \A id \in Ids : Place(id)' = Place(id)
         /\ \A i, j \in DOMAIN events : Before(i, j) => Before(i, j)'
<1>1. ASSUME NEW id \in Ids
      PROVE  Place(id)' = Place(id)
  <2>1. Place(id) \in DOMAIN events /\ events[Place(id)].id = id
    BY PlaceOfId DEF CatalogInv
  <2>2. PICK i : i = Place(id)
    OBVIOUS
  <2>3. i \in DOMAIN events' /\ events'[i].id = id
    BY <2>1, <2>2, PlacesStay
  <2>4. \A j \in DOMAIN events' : events'[j].id = id => j = i
    BY <2>3, CatalogTypeStep DEF CatalogTypeOK
  <2>5. Place(id)' = i
    BY <2>3, <2>4 DEF Place
  <2> QED
    BY <2>2, <2>5
<1>2. ASSUME NEW i \in DOMAIN events, NEW j \in DOMAIN events, Before(i, j)
      PROVE  Before(i, j)'
  BY <1>2, PlacesStay DEF Before
<1> QED
  BY <1>1, <1>2

\* A list that was begun keeps agreeing with the order of the table, which
\* admins cannot change by updating events (catalog.py:145-182).
THEOREM ListsKeepTheirOrder == CatalogSpec => []ListOrderIsStable
<1>1. CatalogInit => ListOrderIsStable
  BY DEF CatalogInit, ListOrderIsStable, Idle
<1>2. CatalogInv /\ ListOrderIsStable /\ [CatalogNext]_catalogVars => ListOrderIsStable'
  <2> SUFFICES ASSUME CatalogInv, ListOrderIsStable, [CatalogNext]_catalogVars,
                      NEW t \in Threads, work'[t].pc = "listing",
                      NEW m \in DOMAIN work'[t].ids, NEW n \in DOMAIN work'[t].ids, m < n
               PROVE  Before(Place(work[t].ids[m]), Place(work[t].ids[n]))'
    BY DEF ListOrderIsStable
  <2>0. work \in [Threads -> Work]
    BY DEF CatalogInv, CatalogTypeOK
  <2>1. PICK a, b : a = work'[t].ids[m] /\ b = work'[t].ids[n]
    OBVIOUS
  <2>2. ASSUME a \in Ids, b \in Ids, Before(Place(a), Place(b))
        PROVE  Before(Place(work[t].ids[m]), Place(work[t].ids[n]))'
    <3>1. PICK i, j : i = Place(a) /\ j = Place(b)
      OBVIOUS
    <3>2. i \in DOMAIN events /\ j \in DOMAIN events
      BY <2>2, <3>1, PlaceOfId DEF CatalogInv
    <3>3. Before(i, j)'
      BY <2>2, <3>1, <3>2, OrderStays
    <3>4. Place(a)' = i /\ Place(b)' = j
      BY <2>2, <3>1, OrderStays
    <3> QED
      BY <2>1, <3>3, <3>4
  <2>3. CASE work[t].pc = "listing" /\ work'[t].ids = work[t].ids
    <3>1. a \in Ids /\ b \in Ids
      BY <2>1, <2>3 DEF CatalogInv, WorkInv, Checked
    <3>2. Before(Place(a), Place(b))
      BY <2>1, <2>3 DEF ListOrderIsStable
    <3> QED
      BY <2>2, <3>1, <3>2
  <2>4. CASE ListBegins(t)
    <3>1. PICK p \in Orders : work'[t].ids = [k \in DOMAIN events |-> events[p[k]].id]
      BY <2>0, <2>4 DEF ListBegins, Continue
    <3>2. m \in DOMAIN events /\ n \in DOMAIN events /\ a = events[p[m]].id /\ b = events[p[n]].id
      BY <2>1, <3>1
    <3>3. /\ p[m] \in DOMAIN events /\ p[n] \in DOMAIN events
          /\ a \in Ids /\ b \in Ids
      BY <3>2, OrdersName DEF CatalogInv
    <3>4. Place(a) = p[m] /\ Place(b) = p[n]
      BY <3>2, <3>3, PlaceOfId DEF CatalogInv, CatalogTypeOK
    <3>5. Before(p[m], p[n])
      BY <3>2 DEF Orders
    <3> QED
      BY <2>2, <3>3, <3>4, <3>5
  <2>5. CASE ListReads(t)
    BY <2>0, <2>3, <2>5 DEF ListReads, Continue
  <2>6. work'[t].pc \notin {"reading", "edited"}
    OBVIOUS
  <2>7. CASE ReadBack(t) \/ UpdateStored(t) \/ \E id \in EventIds : CreateInserted(t, id)
    BY <2>0, <2>6, <2>7 DEF ReadBack, UpdateStored, CreateInserted, Continue
  <2> QED
    BY <2>3, <2>4, <2>5, <2>7, RequestMoves
<1> QED
  BY <1>1, <1>2, CatalogInvariant, PTL DEF CatalogSpec

-----------------------------------------------------------------------------
(* The table is what the journal says last of each event. *)

LastOf(id, k) ==
  /\ k \in DOMAIN journal
  /\ journal[k].event = id
  /\ \A j \in DOMAIN journal : journal[j].event = id => j <= k

TableIsLast ==
  /\ \A k \in DOMAIN journal : journal[k].event \in Ids
  /\ \A i \in DOMAIN events : \E k \in DOMAIN journal :
       LastOf(events[i].id, k) /\ journal[k].content = events[i].content

\* The event that is written has its row.
LEMMA WrittenIsStored ==
  ASSUME CatalogInv, [CatalogNext]_catalogVars, NEW v \in Version, Writes(v)
  PROVE  v.event \in Ids'
<1>1. CASE Updates(v)
  BY <1>1, PlacesStay DEF Updates
<1>2. ASSUME NEW created \in IsoText, Creates(v, created) PROVE v.event \in Ids'
  <2> DEFINE row == [id |-> v.event, created |-> created, content |-> v.content]
  <2>1. events' = Append(events, row) /\ row.id = v.event
    BY <1>2 DEF Creates
  <2>2. events \in Seq(EventRow) /\ Len(events) \in Nat
    BY DEF CatalogInv, CatalogTypeOK
  <2> HIDE DEF row
  <2>3. Len(events) + 1 \in DOMAIN events' /\ events'[Len(events) + 1] = row
    BY <2>1, <2>2
  <2> QED
    BY <2>1, <2>3 DEF Ids
<1> QED
  BY <1>1, <1>2 DEF Writes

\* A write becomes the last of its event, and of no other.
LEMMA TableIsLastStep ==
  ASSUME CatalogInv, TableIsLast, [CatalogNext]_catalogVars
  PROVE  TableIsLast'
<1>1. CASE UNCHANGED <<events, journal>>
  BY <1>1 DEF TableIsLast, LastOf, Ids
<1>2. ASSUME NEW v \in Version, Writes(v) PROVE TableIsLast'
  <2>0. /\ DOMAIN journal' = DOMAIN journal \cup {Len(journal) + 1}
        /\ DOMAIN journal = 1 .. Len(journal) /\ Len(journal) \in Nat
        /\ journal'[Len(journal) + 1] = v
        /\ \A i \in DOMAIN journal : journal'[i] = journal[i]
    BY <1>2, JournalAfterWrite DEF CatalogInv
  <2>1. ASSUME NEW k \in DOMAIN journal' PROVE journal'[k].event \in Ids'
    <3>1. CASE k \in DOMAIN journal
      BY <2>0, <3>1, PlacesStay DEF TableIsLast
    <3>2. CASE k = Len(journal) + 1
      BY <1>2, <2>0, <3>2, WrittenIsStored
    <3> QED
      BY <2>0, <3>1, <3>2
  <2>2. ASSUME NEW i \in DOMAIN events'
        PROVE  \E k \in DOMAIN journal' :
                 /\ journal'[k].event = events'[i].id
                 /\ \A j \in DOMAIN journal' : journal'[j].event = events'[i].id => j <= k
                 /\ journal'[k].content = events'[i].content
    <3>1. CASE events'[i].id = v.event /\ events'[i].content = v.content
      BY <2>0, <3>1
    <3>2. CASE i \in DOMAIN events /\ events'[i] = events[i] /\ events[i].id # v.event
      <4>1. PICK k \in DOMAIN journal : LastOf(events[i].id, k) /\ journal[k].content = events[i].content
        BY <3>2 DEF TableIsLast
      <4>2. k \in DOMAIN journal' /\ journal'[k].event = events'[i].id
            /\ journal'[k].content = events'[i].content
        BY <2>0, <3>2, <4>1 DEF LastOf
      <4>3. \A j \in DOMAIN journal' : journal'[j].event = events'[i].id => j <= k
        BY <2>0, <3>2, <4>1 DEF LastOf
      <4> QED
        BY <4>2, <4>3
    <3> QED
      BY <1>2, <3>1, <3>2, RowsAfterWrite DEF CatalogInv
  <2> QED
    BY <2>1, <2>2 DEF TableIsLast, LastOf
<1> QED
  BY <1>1, <1>2, TableSteps DEF TableStep

\* It always is.
LEMMA TableIsAlwaysLast == CatalogSpec => []TableIsLast
<1>1. CatalogInit => TableIsLast
  <2>1. DOMAIN << >> = {}
    OBVIOUS
  <2> QED
    BY <2>1 DEF CatalogInit, TableIsLast
<1> QED
  BY <1>1, TableIsLastStep, CatalogInvariant, PTL DEF CatalogSpec

\* What a read finds is the last that was written, so not older than anything.
LEMMA ReadsAreFresh ==
  ASSUME CatalogInv, TableIsLast, NEW id \in Ids, NEW i \in DOMAIN journal, journal[i].event = id
  PROVE  \E k \in i .. Len(journal) :
           journal[k].event = id /\ journal[k].content = RowOf(id).content
<1>1. Place(id) \in DOMAIN events /\ events[Place(id)].id = id
  BY PlaceOfId DEF CatalogInv
<1>2. PICK k \in DOMAIN journal : LastOf(id, k) /\ journal[k].content = RowOf(id).content
  BY <1>1 DEF TableIsLast, RowOf
<1>3. i <= k
  BY <1>2 DEF LastOf
<1>4. DOMAIN journal = 1 .. Len(journal) /\ Len(journal) \in Nat
  BY DEF CatalogInv, CatalogTypeOK
<1> QED
  BY <1>2, <1>3, <1>4 DEF LastOf

\* The journal only grows.
LEMMA JournalGrows ==
  ASSUME CatalogInv, [CatalogNext]_catalogVars
  PROVE  /\ Len(journal) \in Nat /\ Len(journal') \in Nat
         /\ Len(journal) <= Len(journal')
         /\ DOMAIN journal = 1 .. Len(journal) /\ DOMAIN journal' = 1 .. Len(journal')
         /\ \A i \in DOMAIN journal : journal'[i] = journal[i]
<1>1. journal \in Seq(Version)
  BY DEF CatalogInv, CatalogTypeOK
<1>2. CASE UNCHANGED journal
  BY <1>1, <1>2
<1>3. ASSUME NEW v \in Version, Writes(v)
      PROVE  /\ Len(journal') = Len(journal) + 1
             /\ journal' \in Seq(Version)
             /\ \A i \in DOMAIN journal : journal'[i] = journal[i]
  BY <1>3, JournalAfterWrite DEF CatalogInv
<1>4. Len(journal) \in Nat /\ DOMAIN journal = 1 .. Len(journal)
  BY <1>1
<1>5. ASSUME NEW v \in Version, Writes(v)
      PROVE  /\ Len(journal') = Len(journal) + 1
             /\ DOMAIN journal' = 1 .. Len(journal')
  BY <1>3, <1>5
<1> QED
  BY <1>2, <1>3, <1>4, <1>5, TableSteps DEF TableStep

\* A request that has written knows where in the journal it did.
WritesAreFound ==
  \A t \in Threads : work[t].pc \in {"reading", "edited"} =>
    work[t].version \in DOMAIN journal /\ journal[work[t].version].event = work[t].event

\* The two writes leave the request at the entry they made.
LEMMA EntryOfWrite ==
  ASSUME CatalogInv, NEW t \in Threads, NEW id, NEW edit,
         Record(id, edit),
         Continue(t, [pc |-> "reading", event |-> id, version |-> Len(journal) + 1])
  PROVE  /\ work'[t].pc = "reading" /\ work'[t].event = id /\ work'[t].version = Len(journal) + 1
         /\ Len(journal) + 1 \in DOMAIN journal'
         /\ journal'[Len(journal) + 1].event = id
<1>1. work \in [Threads -> Work] /\ journal \in Seq(Version)
  BY DEF CatalogInv, CatalogTypeOK
<1>2. work'[t].pc = "reading" /\ work'[t].event = id /\ work'[t].version = Len(journal) + 1
  BY <1>1 DEF Continue
<1>3. PICK v : journal' = Append(journal, v) /\ v.event = id
  BY DEF Record
<1> QED
  BY <1>1, <1>2, <1>3

\* Each step keeps that, and answers an edit with it or a later one.
LEMMA RepliesStep ==
  ASSUME CatalogInv, TableIsLast, WritesAreFound, RepliesShowTheEdit, [CatalogNext]_catalogVars
  PROVE  WritesAreFound' /\ RepliesShowTheEdit'
<1> SUFFICES ASSUME NEW t \in Threads
             PROVE  /\ work'[t].pc \in {"reading", "edited"} =>
                         /\ work'[t].version \in DOMAIN journal'
                         /\ journal'[work'[t].version].event = work'[t].event
                    /\ work'[t].pc = "edited" =>
                         \E i \in work'[t].version .. Len(journal') :
                           /\ journal'[i].event = work'[t].event
                           /\ journal'[i].content = work'[t].shown
  BY DEF WritesAreFound, RepliesShowTheEdit
<1>0. work \in [Threads -> Work] /\ work[t] \in Work
  BY DEF CatalogInv, CatalogTypeOK
<1>1. CASE work'[t] = work[t]
  <2>1. ASSUME work[t].pc \in {"reading", "edited"}
        PROVE  work[t].version \in DOMAIN journal' /\ journal'[work[t].version].event = work[t].event
    BY <2>1, JournalGrows DEF WritesAreFound
  <2>2. ASSUME work[t].pc = "edited"
        PROVE  \E i \in work[t].version .. Len(journal') :
                 journal'[i].event = work[t].event /\ journal'[i].content = work[t].shown
    <3>1. work[t].version \in DOMAIN journal
      BY <2>2 DEF WritesAreFound
    <3>2. PICK i \in work[t].version .. Len(journal) :
            journal[i].event = work[t].event /\ journal[i].content = work[t].shown
      BY <2>2 DEF RepliesShowTheEdit
    <3>3. i \in DOMAIN journal /\ i \in work[t].version .. Len(journal')
      BY <3>1, <3>2, JournalGrows
    <3> QED
      BY <3>2, <3>3, JournalGrows
  <2> QED
    BY <1>1, <2>1, <2>2
<1>2. CASE ReadBack(t)
  <2>1. work[t].pc = "reading" /\ work'[t] = [pc |-> "edited", event |-> work[t].event,
          version |-> work[t].version, shown |-> RowOf(work[t].event).content] /\ journal' = journal
    BY <1>0, <1>2 DEF ReadBack, Continue
  <2>2. work[t].version \in DOMAIN journal /\ journal[work[t].version].event = work[t].event
        /\ work[t].event \in Ids
    BY <2>1 DEF WritesAreFound, CatalogInv, WorkInv, Checked
  <2>3. \E k \in work[t].version .. Len(journal) :
          journal[k].event = work[t].event /\ journal[k].content = RowOf(work[t].event).content
    BY <2>2, ReadsAreFresh
  <2>4. /\ work'[t].pc = "edited" /\ work'[t].event = work[t].event
        /\ work'[t].version = work[t].version /\ work'[t].shown = RowOf(work[t].event).content
    BY <2>1
  <2> QED
    BY <2>1, <2>2, <2>3, <2>4
<1>3. CASE UpdateStored(t) \/ \E id \in EventIds : CreateInserted(t, id)
  <2>1. \E id, edit : /\ Record(id, edit)
                      /\ Continue(t, [pc |-> "reading", event |-> id, version |-> Len(journal) + 1])
    BY <1>3 DEF UpdateStored, CreateInserted
  <2> QED
    BY <2>1, EntryOfWrite
<1>4. CASE ListBegins(t) \/ ListReads(t)
  <2>1. work'[t].pc = "listing"
    BY <1>0, <1>4 DEF ListBegins, ListReads, Continue
  <2> QED
    BY <2>1
<1> QED
  BY <1>1, <1>2, <1>3, <1>4, RequestMoves

\* An admin is answered with the edit or with one that came after it, although
\* the answer is a read of its own (catalog.py:142, 163).
THEOREM RepliesAreOfTheEdit == CatalogSpec => []RepliesShowTheEdit
<1>1. CatalogInit => WritesAreFound /\ RepliesShowTheEdit
  BY DEF CatalogInit, WritesAreFound, RepliesShowTheEdit, Idle
<1> QED
  BY <1>1, RepliesStep, CatalogInvariant, TableIsAlwaysLast, PTL DEF CatalogSpec

\* What a list that is being read has shown of the versions it had to show.
Shows(w) ==
  /\ w.since <= Len(journal)
  /\ Len(w.shown) <= Len(w.ids)
  /\ \A i \in 1 .. w.since : \E n \in DOMAIN w.ids : w.ids[n] = journal[i].event
  /\ \A n \in DOMAIN w.shown, i \in 1 .. w.since : journal[i].event = w.ids[n] =>
       \E j \in i .. Len(journal) :
         journal[j].event = w.ids[n] /\ journal[j].content = w.shown[n]

ListsShow == \A t \in Threads : work[t].pc = "listing" => Shows(work[t])

\* A list that is not read further shows what it did.
LEMMA ShowsStays ==
  ASSUME CatalogInv, [CatalogNext]_catalogVars, NEW w \in Work, w.pc = "listing", Shows(w)
  PROVE  Shows(w)'
<1>1. w.since \in Nat /\ w.since <= Len(journal)
  BY WorkKinds DEF Shows
<1>2. \A i \in 1 .. w.since : i \in DOMAIN journal /\ i \in Nat /\ journal'[i] = journal[i]
  BY <1>1, JournalGrows
<1>3. w.since <= Len(journal')
  BY <1>1, JournalGrows
<1>4. ASSUME NEW n \in DOMAIN w.shown, NEW i \in 1 .. w.since, journal'[i].event = w.ids[n]
      PROVE  \E j \in i .. Len(journal') :
               journal'[j].event = w.ids[n] /\ journal'[j].content = w.shown[n]
  <2>1. PICK j \in i .. Len(journal) : journal[j].event = w.ids[n] /\ journal[j].content = w.shown[n]
    BY <1>2, <1>4 DEF Shows
  <2>2. j \in DOMAIN journal /\ j \in i .. Len(journal')
    BY <1>2, <2>1, JournalGrows
  <2> QED
    BY <2>1, <2>2, JournalGrows
<1>5. \A i \in 1 .. w.since : \E n \in DOMAIN w.ids : w.ids[n] = journal'[i].event
  BY <1>2 DEF Shows
<1>6. Len(w.shown) <= Len(w.ids)
  BY DEF Shows
<1> QED
  BY <1>3, <1>4, <1>5, <1>6 DEF Shows

\* A list that begins names every event of the journal.
LEMMA ShowsBegins ==
  ASSUME CatalogInv, TableIsLast, NEW t \in Threads, ListBegins(t)
  PROVE  journal' = journal /\ Shows(work'[t])
<1>0. work \in [Threads -> Work]
  BY DEF CatalogInv, CatalogTypeOK
<1>1. PICK p \in Orders : work'[t] = [pc |-> "listing", shown |-> <<>>, since |-> Len(journal),
                                      ids |-> [n \in DOMAIN events |-> events[p[n]].id]]
  BY <1>0 DEF ListBegins, Continue
<1>2. PICK w : w = work'[t]
  OBVIOUS
<1>3. w.shown = <<>> /\ w.since = Len(journal) /\ w.ids = [n \in DOMAIN events |-> events[p[n]].id]
  BY <1>1, <1>2
<1>4. w.ids \in Seq(EventIds)
  BY <1>3, OrdersName DEF CatalogInv
<1>5. ASSUME NEW i \in 1 .. w.since
      PROVE  \E n \in DOMAIN w.ids : w.ids[n] = journal[i].event
  <2>1. i \in DOMAIN journal
    BY <1>3, <1>5 DEF CatalogInv, CatalogTypeOK
  <2>2. PICK k \in DOMAIN events : events[k].id = journal[i].event
    BY <2>1 DEF TableIsLast, Ids
  <2>3. PICK n \in DOMAIN events : p[n] = k
    BY DEF Orders
  <2> QED
    BY <1>3, <2>2, <2>3
<1>6. w.since <= Len(journal)
  BY <1>3 DEF CatalogInv, CatalogTypeOK
<1>7. Len(w.shown) <= Len(w.ids) /\ DOMAIN w.shown = {}
  BY <1>3, <1>4
<1>8. Shows(w)
  BY <1>5, <1>6, <1>7 DEF Shows
<1> QED
  BY <1>2, <1>8 DEF ListBegins

\* The next event of a list is read no older than it has to be.
LEMMA ShowsReads ==
  ASSUME CatalogInv, TableIsLast, NEW t \in Threads, work[t].pc = "listing", Shows(work[t]), ListReads(t)
  PROVE  journal' = journal /\ Shows(work'[t])
<1>0. work \in [Threads -> Work] /\ work[t] \in Work
  BY DEF CatalogInv, CatalogTypeOK
<1>1. PICK old : old = work[t]
  OBVIOUS
<1>2. PICK w : w = work'[t]
  OBVIOUS
<1>3. PICK m : m = Len(old.shown) + 1
  OBVIOUS
<1>4. /\ m <= Len(old.ids)
      /\ w = [pc |-> "listing", ids |-> old.ids, since |-> old.since,
              shown |-> Append(old.shown, RowOf(old.ids[m]).content)]
  BY <1>0, <1>1, <1>2, <1>3 DEF ListReads, Continue
<1>5. w.ids = old.ids /\ w.since = old.since /\ w.shown = Append(old.shown, RowOf(old.ids[m]).content)
  BY <1>4
<1>6. old.ids \in Seq(EventIds) /\ old.shown \in Seq(Content) /\ old.since \in Nat
  BY <1>0, <1>1, WorkKinds
<1>7. m \in DOMAIN old.ids
  BY <1>3, <1>4, <1>6
<1>8. old.ids[m] \in Ids
  BY <1>1, <1>7 DEF CatalogInv, WorkInv, Checked
<1>9. RowOf(old.ids[m]).content \in Content
  BY <1>8, PlaceOfId DEF CatalogInv
<1>10. /\ DOMAIN w.shown = DOMAIN old.shown \cup {m} /\ Len(w.shown) = m
       /\ w.shown[m] = RowOf(old.ids[m]).content
       /\ \A n \in DOMAIN old.shown : w.shown[n] = old.shown[n]
  BY <1>3, <1>5, <1>6, <1>9, AppendedAt
<1>11. Shows(old)
  BY <1>1
<1>12. ASSUME NEW n \in DOMAIN w.shown, NEW i \in 1 .. w.since, journal[i].event = w.ids[n]
       PROVE  \E j \in i .. Len(journal) :
                journal[j].event = w.ids[n] /\ journal[j].content = w.shown[n]
  <2>1. CASE n \in DOMAIN old.shown
    <3>1. w.shown[n] = old.shown[n] /\ w.ids[n] = old.ids[n] /\ i \in 1 .. old.since
      BY <1>5, <1>10, <2>1
    <3>2. \E j \in i .. Len(journal) :
            journal[j].event = old.ids[n] /\ journal[j].content = old.shown[n]
      BY <1>11, <1>12, <2>1, <3>1 DEF Shows
    <3> QED
      BY <3>1, <3>2
  <2>2. CASE n = m
    <3>1. i \in DOMAIN journal
      BY <1>5, <1>6, <1>11 DEF Shows, CatalogInv, CatalogTypeOK
    <3>2. journal[i].event = old.ids[m]
      BY <1>5, <1>12, <2>2
    <3>3. \E k \in i .. Len(journal) :
            journal[k].event = old.ids[m] /\ journal[k].content = RowOf(old.ids[m]).content
      BY <1>8, <3>1, <3>2, ReadsAreFresh
    <3> QED
      BY <1>5, <1>10, <2>2, <3>3
  <2> QED
    BY <1>10, <2>1, <2>2
<1>13. w.since <= Len(journal) /\ \A i \in 1 .. w.since : \E n \in DOMAIN w.ids : w.ids[n] = journal[i].event
  BY <1>5, <1>11 DEF Shows
<1>14. Len(w.shown) <= Len(w.ids)
  BY <1>4, <1>5, <1>10
<1>15. Shows(w)
  BY <1>12, <1>13, <1>14 DEF Shows
<1> QED
  BY <1>2, <1>15 DEF ListReads

\* Each step keeps what lists show.
LEMMA ListsShowStep ==
  ASSUME CatalogInv, TableIsLast, ListsShow, [CatalogNext]_catalogVars
  PROVE  ListsShow'
<1> SUFFICES ASSUME NEW t \in Threads, work'[t].pc = "listing" PROVE Shows(work[t])'
  BY DEF ListsShow
<1>0. work \in [Threads -> Work] /\ work[t] \in Work
  BY DEF CatalogInv, CatalogTypeOK
<1>1. PICK w : w = work'[t]
  OBVIOUS
<1> SUFFICES Shows(w)'
  BY <1>1 DEF Shows
<1>2. CASE work'[t] = work[t]
  BY <1>0, <1>1, <1>2, ShowsStays DEF ListsShow
<1>3. CASE ListBegins(t)
  BY <1>1, <1>3, ShowsBegins DEF Shows
<1>4. CASE ListReads(t)
  <2>1. work[t].pc = "listing"
    BY <1>4 DEF ListReads
  <2> QED
    BY <1>1, <1>4, <2>1, ShowsReads DEF Shows, ListsShow
<1>5. CASE ReadBack(t) \/ UpdateStored(t) \/ \E id \in EventIds : CreateInserted(t, id)
  BY <1>0, <1>5 DEF ReadBack, UpdateStored, CreateInserted, Continue
<1> QED
  BY <1>2, <1>3, <1>4, <1>5, RequestMoves

\* A list has every event there was when it was asked for, as it was then or
\* as it was changed since (catalog.py:179-182).
THEOREM ListsHaveThemAll == CatalogSpec => []ListsAreComplete
<1>1. CatalogInit => ListsShow
  BY DEF CatalogInit, ListsShow, Idle
<1>2. CatalogInv /\ ListsShow => ListsAreComplete
  <2> SUFFICES ASSUME CatalogInv, ListsShow, NEW t \in Threads, Listed(work[t]),
                      NEW i \in 1 .. work[t].since
               PROVE  \E n \in DOMAIN work[t].ids, j \in i .. Len(journal) :
                        /\ work[t].ids[n] = journal[i].event
                        /\ journal[j].event = journal[i].event
                        /\ work[t].shown[n] = journal[j].content
    BY DEF ListsAreComplete
  <2>1. Shows(work[t]) /\ work[t].pc = "listing" /\ Len(work[t].shown) = Len(work[t].ids)
    BY DEF ListsShow, Listed
  <2>2. work[t].ids \in Seq(EventIds) /\ work[t].shown \in Seq(Content)
    BY <2>1, WorkKinds DEF CatalogInv, CatalogTypeOK
  <2>3. PICK n \in DOMAIN work[t].ids : work[t].ids[n] = journal[i].event
    BY <2>1 DEF Shows
  <2>4. n \in DOMAIN work[t].shown
    BY <2>1, <2>2
  <2>5. PICK j \in i .. Len(journal) :
          journal[j].event = work[t].ids[n] /\ journal[j].content = work[t].shown[n]
    BY <2>1, <2>3, <2>4 DEF Shows
  <2> QED
    BY <2>3, <2>5
<1> QED
  BY <1>1, <1>2, ListsShowStep, CatalogInvariant, TableIsAlwaysLast, PTL DEF CatalogSpec
=============================================================================
