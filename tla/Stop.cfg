CONSTANTS
  e1 = e1
  e2 = e2
  Events = {e1, e2}
  Reactions <- TwoReactions
  EventOf <- TwoOfOne
  Registrations <- AllRegistered
  Workers = {w1}
  Drainers = {d1}
  Poller = poller
  None = none
  PollLimit = 2
  QueueCap = 1
  MaxLives = 1
  MaxFaults = 0
  Ticking = TRUE
  HooksInOrder = TRUE
SPECIFICATION FairSpec
INVARIANTS NoSendPanic
PROPERTIES ShutdownEnds DrainEnds
