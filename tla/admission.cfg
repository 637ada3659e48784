SPECIFICATION FairSpec
CONSTANTS
  Requests = {r1, r2, r3}
  Budget = 2
  Sizes = {1, 2, 3}
  MaxTickets = 5
INVARIANT GateSound
PROPERTIES KeepsContract NoRequestWaitsForever
\* The model stops once MaxTickets tickets are handed out.
CHECK_DEADLOCK FALSE
