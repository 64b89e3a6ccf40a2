\* A post is created while its connection is being disconnected.
SPECIFICATION SpaceSpec
CONSTANTS
  None = None
  Users = {u1, u2}
  Verified = {u1, u2}
  Conns = {c1}
  Workers = {w1}
  Posts = {p1}
  Messages = {}
  Handlers = {h1}
  MaxInFlight = 2
\* Everyone may delete the account, and then no request is possible.
CHECK_DEADLOCK FALSE
INVARIANTS
  LivePostHasBlog
