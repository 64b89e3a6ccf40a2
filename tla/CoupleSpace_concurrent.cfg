\* Two requests in flight, of any kind, around one connection.
SPECIFICATION SpaceSpec
CONSTANTS
  None = None
  Users = {u1, u2, u3}
  Verified = {u1, u2, u3}
  Conns = {c1}
  Workers = {w1, w2}
  Posts = {p1}
  Messages = {m1}
  Handlers = {h1}
  MaxInFlight = 2
SYMMETRY Symmetry
\* Everyone may delete the account, and then no request is possible.
CHECK_DEADLOCK FALSE
INVARIANTS
  SpaceTypeOK
  SpaceNeedsConnection
  AuthorsAreParties
PROPERTIES
  CascadeIsAtomic
  ImplementsUserConnection
