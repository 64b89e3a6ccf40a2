\* The handler of UserCreated fails or comes before the commit.
SPECIFICATION Spec
CONSTANTS
  None = None
  Ids = {i1}
  Emails = {e1}
  Workers = {w1}
  MaxTokens = 2
\* Tokens are bounded and everyone may delete the account.
CHECK_DEADLOCK FALSE
INVARIANTS
  EmailTokenExists
