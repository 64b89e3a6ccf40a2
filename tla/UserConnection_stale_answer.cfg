\* Two requests in flight: an answer overwrites another one.
SPECIFICATION Spec
CONSTANTS
  None = None
  Users = {u1, u2}
  Verified = {u1, u2}
  Conns = {c1}
  Workers = {w1, w2}
\* Everyone may delete the account, and then no request is possible.
CHECK_DEADLOCK FALSE
PROPERTIES
  OnlyPendingIsAnswered
