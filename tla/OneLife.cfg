CONSTANTS
  e1 = e1
  e2 = e2
  Events = {e1, e2}
  Reactions <- TwoReactions
  EventOf <- TwoOfOne
  Registrations <- SomeRegistered
  Workers = {w1, w2}
  Drainers = {d1}
  Poller = poller
  None = none
  PollLimit = 2
  QueueCap = 1
  MaxLives = 1
  MaxFaults = 1
  Ticking = TRUE
  HooksInOrder = FALSE
SPECIFICATION Spec
SYMMETRY Symmetry
INVARIANTS IInv WorkedOnOnce OncePerProcess PendingCountsFlight NoneStrandedInService
PROPERTIES DrainLeavesNothing
