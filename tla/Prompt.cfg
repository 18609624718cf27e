CONSTANTS
  e1 = e1
  e2 = e2
  Events = {e1, e2}
  Reactions <- TwoReactions
  EventOf <- OneEach
  Registrations <- AllRegistered
  Workers = {w1, w2}
  Drainers = {}
  Poller = poller
  None = none
  PollLimit = 2
  QueueCap = 1
  MaxLives = 1
  MaxFaults = 0
  Ticking = FALSE
  HooksInOrder = TRUE
SPECIFICATION FairSpec
PROPERTIES EventuallySettled
