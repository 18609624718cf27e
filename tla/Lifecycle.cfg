CONSTANTS
  N <- ThreeModules
  Hosts <- HostModules
  Recorders <- RecordingOnes
  Worker = worker
SPECIFICATION FairSpec
INVARIANTS LInv RecordsReachDatabase QuietOrReported EveryModuleStopped SignalIsClean CleanOnlyOnSignal
PROPERTIES StopsBetweenHooks Terminates
