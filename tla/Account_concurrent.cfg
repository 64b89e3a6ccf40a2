\* Two requests in flight and the event handlers, over two accounts.
SPECIFICATION Spec
CONSTANTS
  None = None
  Ids = {i1, i2}
  Emails = {e1, e2}
  Workers = {w1, w2}
  MaxTokens = 2
SYMMETRY Symmetry
\* Tokens are bounded and everyone may delete the account.
CHECK_DEADLOCK FALSE
INVARIANTS
  TypeOK
  OwnerProvedAddress
  EmailTokenWasMailed
