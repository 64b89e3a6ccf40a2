\* One request at a time, over three connections; u3 has not verified the email.
SPECIFICATION SpaceSpec
CONSTANTS
  None = None
  Users = {u1, u2, u3}
  Verified = {u1, u2}
  Conns = {c1, c2, c3}
  Workers = {w1}
  Posts = {p1}
  Messages = {m1}
  Handlers = {h1}
  MaxInFlight = 1
SYMMETRY Symmetry
\* Everyone may delete the account, and then no request is possible.
CHECK_DEADLOCK FALSE
INVARIANTS
  OneRequestOut
  LiveSpaceHasConnection
  LivePostHasBlog
  LiveMessageHasRoom
PROPERTIES
  KeepsLifecycle
  NothingRevives
