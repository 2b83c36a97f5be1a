-------------------------- MODULE Accounts_proofs --------------------------
(***************************************************************************)
(* Theorems about Accounts, for any threads, clients, emails, passwords,   *)
(* secrets and lifetimes of a token.                                       *)
(***************************************************************************)
EXTENDS Accounts, IsoTime_proofs

\* The step a request is at tells what it carries with it.
LEMMA IssuingCall ==
  ASSUME NEW c \in Call, c.pc = "issuing"
  PROVE  /\ c.sub \in UserIds
         /\ c.email \in Emails
         /\ c.password \in Passwords
         /\ c.status \in {200, 201}
BY DEF Call, Idle

-----------------------------------------------------------------------------
(* What a step can do to the table, and to the tokens. *)

\* An account is added for a mailbox that had none.
Registers(u, account) ==
  /\ u \in UserIds \ DOMAIN users
  /\ account \in Account
  /\ Canonical[account.email] = account.email
  /\ ~Taken(account.email)
  /\ users' = WithUser(u, account)

\* A request has named an account with its password.
Proves(c) ==
  /\ c.sub \in DOMAIN users'
  /\ users'[c.sub].email = Canonical[c.email]
  /\ users'[c.sub].password = c.password

\* Calls are left as they are, or are put where they may be.
CallStep ==
  \/ UNCHANGED call
  \/ call' = [t \in Threads |-> Idle]
  \/ \E t \in Threads, c \in Call :
       /\ c.pc = "issuing" => Proves(c)
       /\ call' = [call EXCEPT ![t] = c]

UsersStep ==
  \/ UNCHANGED users
  \/ \E u \in UserIds, account \in Account : Registers(u, account)

TokensStep ==
  \/ UNCHANGED tokens
  \/ \E t \in Threads :
       /\ call[t].pc = "issuing"
       /\ UNCHANGED users
       /\ tokens' = tokens \cup {NewToken(call[t])}

\* Every step moves the table, the tokens and the calls in one of these ways.
LEMMA AccountSteps ==
  ASSUME AccountsTypeOK, Next
  PROVE  UsersStep /\ TokensStep /\ CallStep
<1> USE AccountsAssumption
<1>1. ASSUME NEW t \in Threads, NEW e \in Emails, NEW p \in Passwords, NEW role,
             \/ RegisterInvalid(t, e, p, role)
             \/ EmailTaken(t, e, p, role)
      PROVE  UsersStep /\ TokensStep /\ CallStep
  <2>1. /\ Reply(400) \in Call /\ Reply(400).pc # "issuing"
        /\ Reply(409) \in Call /\ Reply(409).pc # "issuing"
    BY DEF Call, Reply
  <2> QED
    BY <1>1, <2>1 DEF RegisterInvalid, EmailTaken, Goto, UsersStep, TokensStep, CallStep
<1>2. ASSUME NEW t \in Threads, NEW e \in Emails, NEW p \in Passwords, NEW role, NEW u \in UserIds,
             Register(t, e, p, role, u)
      PROVE  UsersStep /\ TokensStep /\ CallStep
  <2> DEFINE account == [email |-> Canonical[e], password |-> p, role |-> role]
             c == Issuing(u, e, p, 201)
  <2>1. account \in Account /\ account.email = Canonical[e] /\ account.password = p
    BY <1>2 DEF Register, Acceptable, Account
  <2>2. Canonical[account.email] = account.email
    BY <2>1
  <2>3. Registers(u, account)
    BY <1>2, <2>1, <2>2 DEF Register, Registers
  <2>4. c \in Call /\ c.sub = u /\ c.email = Canonical[e] /\ c.password = p
    BY DEF Call, Issuing
  <2>5. u \in DOMAIN users' /\ users'[u] = account
    BY <2>3 DEF Registers, WithUser
  <2>6. Proves(c)
    <3> HIDE DEF account, c
    <3> QED BY <2>1, <2>4, <2>5 DEF Proves
  <2>7. call' = [call EXCEPT ![t] = c] /\ UNCHANGED tokens
    BY <1>2 DEF Register, Goto
  <2> HIDE DEF account, c
  <2> QED
    BY <2>1, <2>3, <2>4, <2>6, <2>7 DEF UsersStep, TokensStep, CallStep
<1>3. ASSUME NEW t \in Threads, NEW e \in Emails, NEW p \in Passwords, LoginRefused(t, e, p)
      PROVE  UsersStep /\ TokensStep /\ CallStep
  <2>1. Reply(401) \in Call /\ Reply(401).pc # "issuing"
    BY DEF Call, Reply
  <2> QED
    BY <1>3, <2>1 DEF LoginRefused, Goto, UsersStep, TokensStep, CallStep
<1>4. ASSUME NEW t \in Threads, NEW e \in Emails, NEW p \in Passwords, NEW u \in UserIds,
             LoginGranted(t, e, p, u)
      PROVE  UsersStep /\ TokensStep /\ CallStep
  <2> DEFINE c == Issuing(u, e, p, 200)
  <2>1. c \in Call /\ c.sub = u /\ c.email = Canonical[e] /\ c.password = p
    BY DEF Call, Issuing
  <2>2. UNCHANGED <<users, tokens>> /\ call' = [call EXCEPT ![t] = c] /\ u \in DOMAIN users
        /\ Matches(u, e, p)
    BY <1>4 DEF LoginGranted, Goto
  <2> HIDE DEF c
  <2>3. Proves(c)
    BY <2>1, <2>2 DEF Proves, Matches
  <2> QED
    BY <2>1, <2>2, <2>3 DEF UsersStep, TokensStep, CallStep
<1>5. ASSUME NEW t \in Threads, NEW header, Me(t, header)
      PROVE  UsersStep /\ TokensStep /\ CallStep
  <2>1. /\ Reply(200) \in Call /\ Reply(200).pc # "issuing"
        /\ Reply(401) \in Call /\ Reply(401).pc # "issuing"
    BY DEF Call, Reply
  <2>2. CASE InSession(header)
    BY <1>5, <2>1, <2>2 DEF Me, Goto, UsersStep, TokensStep, CallStep
  <2>3. CASE ~InSession(header)
    BY <1>5, <2>1, <2>3 DEF Me, Goto, UsersStep, TokensStep, CallStep
  <2> QED BY <2>2, <2>3
<1>6. ASSUME NEW t \in Threads, IssueToken(t)
      PROVE  UsersStep /\ TokensStep /\ CallStep
  <2>1. call[t] \in Call
    BY DEF AccountsTypeOK
  <2>2. call[t].status \in {200, 201}
    BY <1>6, <2>1, IssuingCall DEF IssueToken
  <2>3. Reply(call[t].status) \in Call /\ Reply(call[t].status).pc # "issuing"
    BY <2>2 DEF Call, Reply
  <2> QED
    BY <1>6, <2>3 DEF IssueToken, Goto, UsersStep, TokensStep, CallStep
<1>7. ASSUME NEW t \in Threads, Return(t)
      PROVE  UsersStep /\ TokensStep /\ CallStep
  <2>1. Idle \in Call /\ Idle.pc # "issuing"
    BY DEF Call, Idle
  <2> QED
    BY <1>7, <2>1 DEF Return, Goto, UsersStep, TokensStep, CallStep
<1>8. ASSUME NEW s \in Secrets, Restart(s)
      PROVE  UsersStep /\ TokensStep /\ CallStep
  BY <1>8 DEF Restart, UsersStep, TokensStep, CallStep
<1>9. CASE Tick
  BY <1>9 DEF Tick, UsersStep, TokensStep, CallStep
<1> QED
  BY <1>1, <1>2, <1>3, <1>4, <1>5, <1>6, <1>7, <1>8, <1>9 DEF Next, Arrive
-----------------------------------------------------------------------------
(* Types. *)

\* A token that is issued is a token.
LEMMA NewTokenType ==
  ASSUME AccountsTypeOK, NEW c \in Call, c.pc = "issuing"
  PROVE  NewToken(c) \in Token
<1>1. now + TokenTTL \in Nat
  BY AccountsAssumption DEF AccountsTypeOK
<1>2. IsoFormat(now + TokenTTL) \in IsoText
  BY <1>1, IsoFormatType
<1> QED
  BY <1>2, IssuingCall DEF NewToken, Token, AccountsTypeOK

\* The first state is well typed.
LEMMA AccountsTypeInit == Init => AccountsTypeOK
<1> SUFFICES ASSUME Init PROVE AccountsTypeOK
  OBVIOUS
<1>1. users \in [{} -> Account] /\ {} \in SUBSET UserIds
  BY DEF Init
<1>2. Idle \in Call
  BY DEF Call
<1> QED
  BY <1>1, <1>2 DEF Init, AccountsTypeOK

\* A step keeps the types.
LEMMA AccountsTypeStep ==
  ASSUME AccountsTypeOK, [Next]_accountVars
  PROVE  AccountsTypeOK'
<1>1. CASE UNCHANGED accountVars
  BY <1>1 DEF accountVars, AccountsTypeOK
<1>2. CASE Next
  <2>0. UsersStep /\ TokensStep /\ CallStep
    BY <1>2, AccountSteps
  <2>1. (\E ids \in SUBSET UserIds : users \in [ids -> Account])'
    <3>1. PICK ids \in SUBSET UserIds : users \in [ids -> Account]
      BY DEF AccountsTypeOK
    <3>2. ASSUME NEW u \in UserIds, NEW account \in Account, Registers(u, account)
          PROVE  users' \in [ids \cup {u} -> Account] /\ ids \cup {u} \in SUBSET UserIds
      BY <3>1, <3>2 DEF Registers, WithUser
    <3> QED
      BY <2>0, <3>1, <3>2 DEF UsersStep
  <2>2. (tokens \subseteq Token)'
    <3>1. ASSUME NEW t \in Threads, call[t].pc = "issuing"
          PROVE  NewToken(call[t]) \in Token
      BY <3>1, NewTokenType DEF AccountsTypeOK
    <3> QED
      BY <2>0, <3>1 DEF TokensStep, AccountsTypeOK
  <2>3. (secret \in Secrets /\ now \in Nat /\ restarts \in Nat)'
    <3>1. ASSUME NEW t \in Threads, Arrive(t) \/ IssueToken(t) \/ Return(t)
          PROVE  UNCHANGED <<secret, now, restarts>>
      BY <3>1 DEF Arrive, RegisterInvalid, EmailTaken, Register, LoginRefused, LoginGranted, Me,
                  IssueToken, Return
    <3>2. ASSUME NEW s \in Secrets, Restart(s)
          PROVE  secret' \in Secrets /\ now' \in Nat /\ restarts' \in Nat
      BY <3>2 DEF Restart, AccountsTypeOK
    <3>3. CASE Tick
      BY <3>3 DEF Tick, AccountsTypeOK
    <3> QED
      BY <1>2, <3>1, <3>2, <3>3 DEF Next, AccountsTypeOK
  <2>4. (call \in [Threads -> Call])'
    <3>1. Idle \in Call
      BY DEF Call
    <3> QED
      BY <2>0, <3>1 DEF CallStep, AccountsTypeOK
  <2> QED
    BY <2>1, <2>2, <2>3, <2>4 DEF AccountsTypeOK
<1> QED
  BY <1>1, <1>2

\* auth.py keeps its types in every reachable state.
THEOREM AccountTypes == Spec => []AccountsTypeOK
<1>1. Init => AccountsTypeOK
  BY AccountsTypeInit
<1>2. AccountsTypeOK /\ [Next]_accountVars => AccountsTypeOK'
  BY AccountsTypeStep
<1> QED
  BY <1>1, <1>2, PTL DEF Spec

-----------------------------------------------------------------------------
(* The accounts. *)

\* Rows hold canonical emails, no two of them the same.
CanonicalRows ==
  /\ \A u \in DOMAIN users : Canonical[users[u].email] = users[u].email
  /\ \A u, v \in DOMAIN users : users[u].email = users[v].email => u = v

\* A request that is about to get a token has sent the password of its account.
CallsAreEarned ==
  \A t \in Threads : call[t].pc = "issuing" =>
    /\ call[t].sub \in DOMAIN users
    /\ Matches(call[t].sub, call[t].email, call[t].password)

AccountsInv == AccountsTypeOK /\ CanonicalRows /\ CallsAreEarned /\ TokensAreEarned

\* No step touches a row that is there.
LEMMA RowsStay ==
  ASSUME AccountsTypeOK, [Next]_accountVars, NEW u \in DOMAIN users
  PROVE  u \in DOMAIN users' /\ users'[u] = users[u]
<1>1. CASE UNCHANGED accountVars
  BY <1>1 DEF accountVars
<1>2. CASE Next
  <2>1. UsersStep
    BY <1>2, AccountSteps
  <2>2. ASSUME NEW v \in UserIds, NEW account \in Account, Registers(v, account)
        PROVE  u \in DOMAIN users' /\ users'[u] = users[u]
    BY <2>2 DEF Registers, WithUser
  <2> QED
    BY <2>1, <2>2 DEF UsersStep
<1> QED
  BY <1>1, <1>2

\* A match of an account stays one.
LEMMA MatchesStay ==
  ASSUME AccountsTypeOK, [Next]_accountVars, NEW u \in DOMAIN users, NEW e, NEW p, Matches(u, e, p)
  PROVE  u \in DOMAIN users' /\ Matches(u, e, p)'
BY RowsStay DEF Matches

\* A step keeps the mailboxes apart.
LEMMA CanonicalStep ==
  ASSUME AccountsTypeOK, CanonicalRows, [Next]_accountVars
  PROVE  CanonicalRows'
<1>1. CASE UNCHANGED accountVars
  BY <1>1 DEF accountVars, CanonicalRows
<1>2. CASE Next
  <2>1. UsersStep
    BY <1>2, AccountSteps
  <2>2. ASSUME NEW w \in UserIds, NEW account \in Account, Registers(w, account)
        PROVE  CanonicalRows'
    <3>1. /\ DOMAIN users' = DOMAIN users \cup {w}
          /\ users'[w] = account
          /\ w \notin DOMAIN users
          /\ \A u \in DOMAIN users : users'[u] = users[u] /\ users[u].email # account.email
      BY <2>2 DEF Registers, WithUser, Taken
    <3>2. Canonical[account.email] = account.email
      BY <2>2 DEF Registers
    <3> QED
      BY <3>1, <3>2 DEF CanonicalRows
  <2> QED
    BY <2>1, <2>2 DEF UsersStep, CanonicalRows
<1> QED
  BY <1>1, <1>2

\* A step keeps requests and tokens earned.
LEMMA EarnedStep ==
  ASSUME AccountsInv, [Next]_accountVars
  PROVE  CallsAreEarned' /\ TokensAreEarned'
<1> USE DEF AccountsInv
<1>1. CASE UNCHANGED accountVars
  BY <1>1 DEF accountVars, CallsAreEarned, TokensAreEarned, Matches
<1>2. CASE Next
  <2>0. TokensStep /\ CallStep
    BY <1>2, AccountSteps
  <2>1. CallsAreEarned'
    <3> SUFFICES ASSUME NEW t \in Threads, call'[t].pc = "issuing"
                 PROVE  /\ call'[t].sub \in DOMAIN users'
                        /\ Matches(call[t].sub, call[t].email, call[t].password)'
      BY DEF CallsAreEarned
    <3>1. CASE call'[t] = call[t]
      BY <3>1, MatchesStay DEF CallsAreEarned, Matches
    <3>2. CASE call'[t] = Idle
      BY <3>2 DEF Idle
    <3>3. CASE \E c \in Call : (c.pc = "issuing" => Proves(c)) /\ call'[t] = c
      BY <3>3 DEF Proves, Matches
    <3>4. call \in [Threads -> Call]
      BY DEF AccountsTypeOK
    <3> QED
      BY <2>0, <3>1, <3>2, <3>3, <3>4 DEF CallStep
  <2>2. TokensAreEarned'
    <3> SUFFICES ASSUME NEW token \in tokens'
                 PROVE  /\ token.sub \in DOMAIN users'
                        /\ Matches(token.sub, token.email, token.password)'
      BY DEF TokensAreEarned, Matches
    <3>1. CASE token \in tokens
      <4>1. token.sub \in DOMAIN users /\ Matches(token.sub, token.email, token.password)
        BY <3>1 DEF TokensAreEarned
      <4> QED
        BY <4>1, MatchesStay DEF Matches
    <3>2. CASE token \notin tokens
      <4>1. PICK t \in Threads : call[t].pc = "issuing" /\ token = NewToken(call[t])
        BY <2>0, <3>2 DEF TokensStep
      <4>2. /\ token.sub = call[t].sub
            /\ token.email = call[t].email
            /\ token.password = call[t].password
        BY <4>1 DEF NewToken
      <4>3. token.sub \in DOMAIN users /\ Matches(token.sub, token.email, token.password)
        BY <4>1, <4>2 DEF CallsAreEarned, Matches
      <4> QED
        BY <4>3, MatchesStay DEF Matches
    <3> QED
      BY <3>1, <3>2
  <2> QED
    BY <2>1, <2>2
<1> QED
  BY <1>1, <1>2

\* The invariant of the accounts is inductive.
LEMMA AccountsInvariant == Spec => []AccountsInv
<1>1. Init => AccountsInv
  <2> SUFFICES ASSUME Init PROVE AccountsInv
    OBVIOUS
  <2>1. DOMAIN users = {} /\ tokens = {} /\ call = [t \in Threads |-> Idle] /\ Idle.pc # "issuing"
    BY DEF Init, Idle
  <2> QED
    BY <2>1, AccountsTypeInit DEF AccountsInv, CanonicalRows, CallsAreEarned, TokensAreEarned
<1>2. AccountsInv /\ [Next]_accountVars => AccountsInv'
  <2> SUFFICES ASSUME AccountsInv, [Next]_accountVars PROVE AccountsInv'
    OBVIOUS
  <2> QED
    BY AccountsTypeStep, CanonicalStep, EarnedStep DEF AccountsInv
<1> QED
  BY <1>1, <1>2, PTL DEF Spec

\* A mailbox never has two accounts, whatever its registrations look like and
\* however they race (auth.py:94-102).
THEOREM MailboxHasOneAccount == Spec => []OneAccountPerEmail
<1>1. AccountsInv => OneAccountPerEmail
  BY DEF AccountsInv, CanonicalRows, OneAccountPerEmail
<1> QED
  BY <1>1, AccountsInvariant, PTL

\* Every token was issued to somebody who sent the password of its account
\* (auth.py:105-123).
THEOREM TokensNameTheirHolder == Spec => []TokensAreEarned
<1>1. AccountsInv => TokensAreEarned
  BY DEF AccountsInv
<1> QED
  BY <1>1, AccountsInvariant, PTL

\* Accounts, their passwords and their roles are never changed or removed.
THEOREM AccountsStay == Spec => AccountsArePermanent
<1>1. AccountsTypeOK /\ [Next]_accountVars =>
        [\A u \in DOMAIN users : u \in DOMAIN users' /\ users'[u] = users[u]]_users
  BY RowsStay
<1> QED
  BY <1>1, AccountTypes, PTL DEF Spec, AccountsArePermanent
=============================================================================
