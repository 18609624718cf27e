CONSTANTS
  m1 = m1
  m2 = m2
  thread = thread
  Incoming = {m1, m2}
  SessionOf <- OneThread
  Worlds <- TwoWorkers
  Perception = FALSE
  ReplyTool = TRUE
  NoCall = NoCall
  MaxRounds = 1
  MaxFacts = 1
SPECIFICATION Spec
INVARIANT InterruptedMeansRestart
CHECK_DEADLOCK FALSE
