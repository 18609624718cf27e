CONSTANTS
  e1 = e1
  e2 = e2
  Events = {e1, e2}
  Reactions <- TwoReactions
  EventOf <- OneEach
  Registrations <- SomeRegistered
  Workers = {w1}
  Drainers = {}
  Poller = poller
  None = none
  PollLimit = 1
  QueueCap = 1
  MaxLives = 2
  MaxFaults = 0
  Ticking = TRUE
  HooksInOrder = TRUE
SPECIFICATION FairSpec
PROPERTIES EventuallySettled
