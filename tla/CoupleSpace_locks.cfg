\* A disconnect and its cascade beside the requests that edit the space.
SPECIFICATION SpaceFairSpec
CONSTANTS
  None = None
  Users = {u1, u2}
  Verified = {u1, u2}
  Conns = {c1}
  Workers = {w1}
  Posts = {p1}
  Messages = {}
  Handlers = {h1}
  MaxInFlight = 2
\* Everyone may delete the account, and then no request is possible.
CHECK_DEADLOCK FALSE
PROPERTIES
  EverySpaceRequestEnds
