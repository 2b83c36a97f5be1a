\* Clients register and log in, and admins edit the catalogue, around a restart.
SPECIFICATION CatalogSpec
CONSTANTS
  t1 = t1  t2 = t2  u1 = u1  u2 = u2   e1 = e1  e2 = e2  e3 = e3
  right = right  short = short  other = other  secret1 = secret1  secret2 = secret2
  Threads = {t1, t2}
  UserIds = {u1, u2}
  Emails = {"sara@x.ir", "Sara@x.ir ", "sara"}
  Canonical <- MCCanonical
  ValidEmails = {"sara@x.ir"}
  Passwords = {right, other, short}
  ValidPasswords = {right, other}
  Secrets = {secret1, secret2}
  TokenTTL = 1
  NoToken = NoToken
  MaxNow = 1
  MaxTokens = 2
  MaxRestarts = 2
  SecondLength = 2
  EventIds = {e1, e2, e3}
  NoEvent = NoEvent
  Contents <- MCContents
  Demos <- MCDemos
  MIN_ROW_PRICE = 100000
  MaxVersions = 3
SYMMETRY Symmetry
INVARIANTS
  OneAccountPerEmail TokensAreEarned CatalogTypeOK AuthorisedEdits
  SeededOnce RepliesShowTheEdit ListsAreComplete ListOrderIsStable
PROPERTIES AccountsArePermanent
