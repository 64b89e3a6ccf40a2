\* Three requests compete for one row.
SPECIFICATION FairSpec
CONSTANTS
  None = None
  Users = {u1, u2}
  Verified = {u1, u2}
  Conns = {c1}
  Workers = {w1, w2, w3}
\* Everyone may delete the account, and then no request is possible.
CHECK_DEADLOCK FALSE
PROPERTIES
  EveryRequestEnds
