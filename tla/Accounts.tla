------------------------------ MODULE Accounts ------------------------------
(***************************************************************************)
(* auth.py behind its routes: registration, login, and the bearer tokens   *)
(* that the other routes ask for.  The accounts are a table, so they       *)
(* outlive the process; a token is not stored anywhere: it is what its     *)
(* signature under AUTH_SECRET says it is.  A request handled here reads   *)
(* or writes the table in one statement, so each of its actions begins     *)
(* with the arrival of the request and ends with that statement.           *)
(*                                                                         *)
(* A stored password hash is the password: hash and salt are equal exactly *)
(* when the passwords are.  Names are left out.                            *)
(***************************************************************************)
EXTENDS IsoTime, FiniteSets

CONSTANTS Threads,           \* threads of the HTTP server
          UserIds,           \* the uuids of accounts
          Emails,            \* what clients send as their email
          Canonical,         \* strip() and lower() of it
          ValidEmails,       \* canonical emails that register accepts
          Passwords,
          ValidPasswords,    \* at least 8 characters
          Secrets,           \* values of AUTH_SECRET
          TokenTTL,          \* TOKEN_TTL_SECONDS, in instants
          NoToken,           \* a request without a bearer token
          MaxNow,            \* bound: the last instant
          MaxTokens,         \* bound: tokens issued
          MaxRestarts        \* bound: restarts of the process

Roles == {"user", "admin"}

ASSUME AccountsAssumption ==
  /\ Canonical \in [Emails -> Emails]
  /\ \A e \in Emails : Canonical[Canonical[e]] = Canonical[e]
  /\ ValidEmails \subseteq Emails
  /\ ValidPasswords \subseteq Passwords
  /\ TokenTTL \in Nat \ {0}
  /\ {MaxNow, MaxTokens, MaxRestarts} \subseteq Nat

VARIABLES users,      \* the table: user id -> account
          tokens,     \* the tokens that clients have been given
          secret,     \* AUTH_SECRET of the running process
          now,        \* the clock
          restarts,
          call        \* thread -> its request to /auth, with what it still needs

accountVars == <<users, tokens, secret, now, restarts, call>>

Account == [email : Emails, password : Passwords, role : Roles]

\* issued, email and password are history: when, and for which credentials.
Token == [sub : UserIds, exp : IsoText, secret : Secrets,
          issued : Nat, email : Emails, password : Passwords]

Idle == [pc |-> "idle"]
Reply(status) == [pc |-> "replied", status |-> status]

Call ==
  {Idle}
  \cup [pc : {"issuing"}, sub : UserIds, email : Emails, password : Passwords, status : {200, 201}]
  \cup [pc : {"replied"}, status : {200, 201, 400, 401, 409}]

Init ==
  /\ users = [u \in {} |-> Idle]
  /\ tokens = {}
  /\ secret \in Secrets
  /\ now = 0
  /\ restarts = 0
  /\ call = [t \in Threads |-> Idle]

Goto(t, c) == call' = [call EXCEPT ![t] = c]

Issuing(u, e, p, status) ==
  [pc |-> "issuing", sub |-> u, email |-> Canonical[e], password |-> p, status |-> status]

\* Bound: a request that may issue a token begins only if one is left.
TokenLeft ==
  Cardinality(tokens) + Cardinality({t \in Threads : call[t].pc = "issuing"}) < MaxTokens

\* "owner" stands for the roles that register refuses.
Acceptable(e, p, role) == Canonical[e] \in ValidEmails /\ p \in ValidPasswords /\ role \in Roles

Taken(email) == \E u \in DOMAIN users : users[u].email = email

RegisterInvalid(t, e, p, role) ==
  /\ call[t] = Idle
  /\ ~Acceptable(e, p, role)
  /\ Goto(t, Reply(400))
  /\ UNCHANGED <<users, tokens, secret, now, restarts>>

WithUser(u, account) ==
  [v \in DOMAIN users \cup {u} |-> IF v = u THEN account ELSE users[v]]

\* Variant: the email is stored, and compared, as it was typed.
RegisterTyped(t, e, p, role, u) ==
  /\ call[t] = Idle
  /\ TokenLeft
  /\ Acceptable(e, p, role)
  /\ u \notin DOMAIN users
  /\ ~Taken(e)
  /\ users' = WithUser(u, [email |-> e, password |-> p, role |-> role])
  /\ Goto(t, Issuing(u, e, p, 201))
  /\ UNCHANGED <<tokens, secret, now, restarts>>

\* Variant: INSERT OR REPLACE.
RegisterReplacing(t, e, p, role, u) ==
  /\ call[t] = Idle
  /\ TokenLeft
  /\ Acceptable(e, p, role)
  /\ u \notin DOMAIN users
  /\ users' = [v \in {w \in DOMAIN users : users[w].email # Canonical[e]} \cup {u} |->
                 IF v = u THEN [email |-> Canonical[e], password |-> p, role |-> role]
                 ELSE users[v]]
  /\ Goto(t, Issuing(u, e, p, 201))
  /\ UNCHANGED <<tokens, secret, now, restarts>>

\* The unique index on email decides between two registrations.
Register(t, e, p, role, u) ==
  /\ call[t] = Idle
  /\ TokenLeft
  /\ Acceptable(e, p, role)
  /\ u \notin DOMAIN users
  /\ ~Taken(Canonical[e])
  /\ users' = WithUser(u, [email |-> Canonical[e], password |-> p, role |-> role])
  /\ Goto(t, Issuing(u, e, p, 201))
  /\ UNCHANGED <<tokens, secret, now, restarts>>

\* Variant: a registration that was sent again is answered with the account.
RegisterAgain(t, e, p, role) ==
  /\ call[t] = Idle
  /\ TokenLeft
  /\ Acceptable(e, p, role)
  /\ \E u \in DOMAIN users : users[u].email = Canonical[e] /\ Goto(t, Issuing(u, e, p, 201))
  /\ UNCHANGED <<users, tokens, secret, now, restarts>>

EmailTaken(t, e, p, role) ==
  /\ call[t] = Idle
  /\ Acceptable(e, p, role)
  /\ Taken(Canonical[e])
  /\ Goto(t, Reply(409))
  /\ UNCHANGED <<users, tokens, secret, now, restarts>>

Matches(u, e, p) == users[u].email = Canonical[e] /\ users[u].password = p

LoginGranted(t, e, p, u) ==
  /\ call[t] = Idle
  /\ TokenLeft
  /\ u \in DOMAIN users
  /\ Matches(u, e, p)
  /\ Goto(t, Issuing(u, e, p, 200))
  /\ UNCHANGED <<users, tokens, secret, now, restarts>>

LoginRefused(t, e, p) ==
  /\ call[t] = Idle
  /\ ~ \E u \in DOMAIN users : Matches(u, e, p)
  /\ Goto(t, Reply(401))
  /\ UNCHANGED <<users, tokens, secret, now, restarts>>

NewToken(c) ==
  [sub |-> c.sub, exp |-> IsoFormat(now + TokenTTL), secret |-> secret,
   issued |-> now, email |-> c.email, password |-> c.password]

\* The clock is read after the statement on the table, and the reply is sent.
IssueToken(t) ==
  /\ call[t].pc = "issuing"
  /\ tokens' = tokens \cup {NewToken(call[t])}
  /\ Goto(t, Reply(call[t].status))
  /\ UNCHANGED <<users, secret, now, restarts>>

\* What clients send in the Authorization header.
Headers == tokens \cup {NoToken}

\* Variant: the token of the last instant is taken, and lives one too long.
InSessionInclusive(header) ==
  /\ header # NoToken
  /\ header.secret = secret
  /\ now <= FromIsoFormat(header.exp)

\* user_from_auth_header does not raise.  No account is ever deleted, so the
\* user of a token that was signed is found.
InSession(header) ==
  /\ header # NoToken
  /\ header.secret = secret
  /\ now < FromIsoFormat(header.exp)

IsAdmin(header) == users[header.sub].role = "admin"

\* GET /auth/me
Me(t, header) ==
  /\ call[t] = Idle
  /\ Goto(t, Reply(IF InSession(header) THEN 200 ELSE 401))
  /\ UNCHANGED <<users, tokens, secret, now, restarts>>

Return(t) ==
  /\ call[t].pc = "replied"
  /\ Goto(t, Idle)
  /\ UNCHANGED <<users, tokens, secret, now, restarts>>

\* A new process has the same secret, or another one.
Restart(s) ==
  /\ restarts < MaxRestarts
  /\ restarts' = restarts + 1
  /\ secret' = s
  /\ call' = [t \in Threads |-> Idle]
  /\ UNCHANGED <<users, tokens, now>>

Tick ==
  /\ now < MaxNow
  /\ now' = now + 1
  /\ UNCHANGED <<users, tokens, secret, restarts, call>>

Arrive(t) ==
  \/ \E e \in Emails, p \in Passwords, role \in Roles \cup {"owner"} :
       \/ RegisterInvalid(t, e, p, role)
       \/ EmailTaken(t, e, p, role)
       \/ \E u \in UserIds : Register(t, e, p, role, u)
  \/ \E e \in Emails, p \in Passwords :
       \/ LoginRefused(t, e, p)
       \/ \E u \in UserIds : LoginGranted(t, e, p, u)
  \/ \E header \in Headers : Me(t, header)

Next ==
  \/ \E t \in Threads : Arrive(t) \/ IssueToken(t) \/ Return(t)
  \/ \E s \in Secrets : Restart(s)
  \/ Tick

Spec == Init /\ [][Next]_accountVars
-----------------------------------------------------------------------------
\* The types of the variables.
AccountsTypeOK ==
  /\ \E ids \in SUBSET UserIds : users \in [ids -> Account]
  /\ tokens \subseteq Token
  /\ secret \in Secrets
  /\ now \in Nat
  /\ restarts \in Nat
  /\ call \in [Threads -> Call]

\* However two registrations race, and however they write it, a mailbox has one
\* account: the index on email sees what strip() and lower() left.
OneAccountPerEmail ==
  \A u, v \in DOMAIN users : Canonical[users[u].email] = Canonical[users[v].email] => u = v

\* No request changes an account: neither its password nor its role, and a
\* registration of the same email does not replace it.
AccountsArePermanent ==
  [][\A u \in DOMAIN users : u \in DOMAIN users' /\ users'[u] = users[u]]_users

\* Whoever holds a token, from a registration or a login, has sent the email
\* and the password of the account that the token names.
TokensAreEarned ==
  \A token \in tokens :
    /\ token.sub \in DOMAIN users
    /\ Matches(token.sub, token.email, token.password)
=============================================================================
