\* One request at a time, the event handlers beside it.
SPECIFICATION Spec
CONSTANTS
  None = None
  Ids = {i1, i2}
  Emails = {e1}
  Workers = {w1}
  MaxTokens = 4
\* Tokens are bounded and everyone may delete the account.
CHECK_DEADLOCK FALSE
INVARIANTS
  OneAccountPerEmail
PROPERTIES
  LinkIsUsedOnce
  LiveLinkStays
  DeletedIsFrozen
