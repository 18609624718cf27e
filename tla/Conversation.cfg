CONSTANTS
  m1 = m1
  m2 = m2
  thread = thread
  Incoming = {m1, m2}
  SessionOf <- OneThread
  Worlds <- AllWorlds
  Perception = TRUE
  ReplyTool = TRUE
  NoCall = NoCall
  MaxRounds = 1
  MaxFacts = 1
SPECIFICATION Spec
INVARIANTS RequestsAnswered RequestsAccepted RequestIsOnRecord RecordedOnce CallsRecordedBeforeRun OffsetIsTurnStart FactsSeeWholeTurn
CHECK_DEADLOCK FALSE
