\* One request at a time is enough for two accepted connections.
SPECIFICATION Spec
CONSTANTS
  None = None
  Users = {u1, u2, u3}
  Verified = {u1, u2, u3}
  Conns = {c1, c2}
  Workers = {w1}
\* Everyone may delete the account, and then no request is possible.
CHECK_DEADLOCK FALSE
INVARIANTS
  OneAcceptedConnection
