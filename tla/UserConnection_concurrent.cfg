\* Two requests in flight over two rows and three users.
SPECIFICATION Spec
CONSTANTS
  None = None
  Users = {u1, u2, u3}
  Verified = {u1, u2, u3}
  Conns = {c1, c2}
  Workers = {w1, w2}
SYMMETRY Symmetry
\* Everyone may delete the account, and then no request is possible.
CHECK_DEADLOCK FALSE
INVARIANTS
  TypeOK
  DeletedIffTerminal
  RequestsAreEntitled
PROPERTIES
  OnlyEntitledMoves
