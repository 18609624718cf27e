-------------------------- MODULE LifecycleProofs --------------------------
(***************************************************************************)
(* Proofs about Lifecycle.  LInv ties the stage of the main goroutine to   *)
(* the bus, the database, the modules and to what was reported; there is a *)
(* lemma for each conjunct, with a step for each action.                   *)
(***************************************************************************)
EXTENDS Lifecycle, TLAPS

\* The modules are counted from 1 to N.
LEMMA Counting ==
  /\ N \in Modules /\ 1 \in Modules /\ Modules \subseteq Nat
  /\ \A k \in Modules : k <= N /\ (~(k > 1) => k = 1)
  /\ \A k \in Modules : k < N => k + 1 \in Modules
  /\ \A k \in Modules : k > 1 => k - 1 \in Modules
  BY LifecycleAssumption DEF Modules

\* The supervisor takes the first event; the others move up by one place.
LEMMA Taken ==
  ASSUME NEW q \in Seq(Event), q # <<>>
  PROVE  /\ Head(q) \in Event /\ Tail(q) \in Seq(Event)
         /\ Head(q) = q[1] /\ 1 \in 1..Len(q)
         /\ \A i \in 1..Len(Tail(q)) : i + 1 \in 1..Len(q) /\ Tail(q)[i] = q[i + 1]
  OBVIOUS

\* An event that a module reports goes behind the others.
LEMMA Reported ==
  ASSUME NEW q \in Seq(Event), NEW e \in Event
  PROVE  /\ Append(q, e) \in Seq(Event)
         /\ \A i \in 1..Len(Append(q, e)) :
              (i \in 1..Len(q) /\ Append(q, e)[i] = q[i]) \/ Append(q, e)[i] = e
  OBVIOUS

USE Counting

\* What a report of module m changes, place by place.
LEMMA ReportFacts ==
  ASSUME TypeOK, NEW m \in Modules,
         NEW s \in {"nil", "err", "panic"}, NEW r \in {"stopped", "error", "panic"},
         Report(m, s, r)
  PROVE  /\ status' \in [Modules -> {"new", "ready", "run", "failing", "nil", "err", "panic"}]
         /\ events' \in Seq(Event)
         /\ \A k \in Modules : status'[k] = IF k = m THEN s ELSE status[k]
         /\ \A i \in 1..Len(events') :
              (i \in 1..Len(events) /\ events'[i] = events[i]) \/ events'[i].reason = r
<1> DEFINE e == [mod |-> m, reason |-> r]
<1>1. status' = [status EXCEPT ![m] = s] /\ events' = Append(events, e)
  BY DEF Report
<1>2. status \in [Modules -> {"new", "ready", "run", "failing", "nil", "err", "panic"}]
      /\ events \in Seq(Event)
  BY DEF TypeOK
<1>3. e \in Event /\ e.reason = r
  BY DEF Event
<1> HIDE DEF e
<1>4. /\ events' \in Seq(Event)
      /\ \A i \in 1..Len(events') :
           (i \in 1..Len(events) /\ events'[i] = events[i]) \/ events'[i] = e
  BY <1>1, <1>2, <1>3, Reported
<1>5. \A i \in 1..Len(events') :
        (i \in 1..Len(events) /\ events'[i] = events[i]) \/ events'[i].reason = r
  BY <1>3, <1>4
<1>6. /\ status' \in [Modules -> {"new", "ready", "run", "failing", "nil", "err", "panic"}]
      /\ \A k \in Modules : status'[k] = IF k = m THEN s ELSE status[k]
  BY <1>1, <1>2
<1>7. QED
  BY <1>4, <1>5, <1>6

\* A report keeps the types.
LEMMA ReportTypes ==
  ASSUME TypeOK, NEW m \in Modules,
         NEW s \in {"nil", "err", "panic"}, NEW r \in {"stopped", "error", "panic"},
         Report(m, s, r), UNCHANGED <<mainVars, busVars, ctx, db>>,
         cause' \in {"none", "signal", "module"}
  PROVE  TypeOK'
<1>1. /\ status' \in [Modules -> {"new", "ready", "run", "failing", "nil", "err", "panic"}]
      /\ events' \in Seq(Event)
  BY ReportFacts
<1>2. QED
  BY <1>1 DEF TypeOK, Stages, mainVars, errs, busVars

\* A module that reports nil had its context ended; so WhyItEnds stays true.
LEMMA ReportWhyItEnds ==
  ASSUME TypeOK, WhyItEnds, NEW m \in Modules,
         NEW s \in {"nil", "err", "panic"}, NEW r \in {"stopped", "error", "panic"},
         Report(m, s, r), UNCHANGED <<mainVars, busVars, ctx, db>>,
         RunDead \/ r # "stopped"
  PROVE  WhyItEnds'
<1>1. \A i \in 1..Len(events') :
        (i \in 1..Len(events) /\ events'[i] = events[i]) \/ events'[i].reason = r
  BY ReportFacts
<1>2. UNCHANGED <<stage, cancelled, ctx, failed>>
  BY DEF mainVars
<1>3. RunDead' = RunDead
  BY <1>2 DEF RunDead
<1>4. ~RunDead => \A i \in 1..Len(events') : events'[i].reason # "stopped"
  BY <1>1 DEF WhyItEnds
<1>5. QED
  BY <1>2, <1>3, <1>4 DEF WhyItEnds

\* After a signal that came first modules report nil; so SignalFirst stays true.
LEMMA NilSignalFirst ==
  ASSUME TypeOK, SignalFirst, NEW m \in Modules, status[m] \notin {"new", "ready", "panic"},
         Report(m, "nil", "stopped"), UNCHANGED <<mainVars, busVars, ctx, cause, db>>
  PROVE  SignalFirst'
<1>1. /\ \A k \in Modules : status'[k] = IF k = m THEN "nil" ELSE status[k]
      /\ \A i \in 1..Len(events') :
           (i \in 1..Len(events) /\ events'[i] = events[i]) \/ events'[i].reason = "stopped"
  BY ReportFacts
<1>2. UNCHANGED <<hookErrs, stopErrs, failed, ctx, cause>>
  BY DEF mainVars, errs
<1>3. Started => Started'
  BY <1>1 DEF Started
<1>4. \A k \in Modules : (status'[k] = "panic") <=> (status[k] = "panic")
  BY <1>1
<1>5. cause' = "none" => \A k \in Modules : status'[k] \notin {"failing", "err", "panic"}
  BY <1>1, <1>2 DEF SignalFirst
<1>6. cause' # "module" /\ (\A k \in Modules : status'[k] # "panic") =>
        (\A k \in Modules : status'[k] # "err")
  BY <1>1, <1>2, <1>4 DEF SignalFirst
<1>7. cause' # "module" /\ (\A k \in Modules : status'[k] # "panic") =>
        (\A i \in 1..Len(events') : events'[i].reason = "stopped")
  BY <1>1, <1>2, <1>4 DEF SignalFirst
<1>8. cause' = "signal" => ctx' = "signal" /\ Started'
  BY <1>2, <1>3 DEF SignalFirst
<1>9. cause' = "signal" /\ failed' =>
        (\E k \in Modules : status'[k] = "panic") \/ hookErrs' # {} \/ stopErrs' # {}
  BY <1>2, <1>4 DEF SignalFirst
<1>10. QED
  BY <1>5, <1>6, <1>7, <1>8, <1>9 DEF SignalFirst

\* A host that reports an error is a failure that came first, or a panic, which
\* SignalFirst exempts.
LEMMA FailureSignalFirst ==
  ASSUME TypeOK, SignalFirst, NEW m \in Modules, status[m] \notin {"new", "ready", "panic"},
         NEW s \in {"err", "panic"}, NEW r \in {"error", "panic"},
         Report(m, s, r), UNCHANGED <<mainVars, busVars, ctx, db>>,
         cause' = "module" \/ (s = "panic" /\ cause' = cause /\ cause = "signal")
  PROVE  SignalFirst'
<1>1. \A k \in Modules : status'[k] = IF k = m THEN s ELSE status[k]
  BY ReportFacts
<1>2. UNCHANGED <<hookErrs, stopErrs, failed, ctx>>
  BY DEF mainVars, errs
<1>3. Started => Started'
  BY <1>1 DEF Started
<1>4. CASE cause' = "module"
  BY <1>4 DEF SignalFirst
<1>5. CASE s = "panic" /\ cause' = cause /\ cause = "signal"
  <2>1. status'[m] = "panic"
    BY <1>1, <1>5
  <2>2. ctx' = "signal" /\ Started'
    BY <1>2, <1>3, <1>5 DEF SignalFirst
  <2>3. QED
    BY <1>5, <2>1, <2>2 DEF SignalFirst
<1>6. QED
  BY <1>4, <1>5

\* What modules report keeps TypeOK.
LEMMA ReportingTypeOK ==
  ASSUME TypeOK, NEW m \in Modules,
         ModuleReturns(m) \/ HostReturns(m) \/ HostPanics(m)
  PROVE  TypeOK'
<1>1. CASE ModuleReturns(m)
  <2>1. cause' = cause /\ cause \in {"none", "signal", "module"}
    BY <1>1 DEF ModuleReturns, TypeOK
  <2>2. QED
    BY <1>1, <2>1, ReportTypes DEF ModuleReturns
<1>2. CASE HostReturns(m)
  <2>1. CASE RunDead
    <3>1. cause' = cause /\ cause \in {"none", "signal", "module"}
      BY <1>2 DEF HostReturns, TypeOK
    <3>2. QED
      BY <1>2, <2>1, <3>1, ReportTypes DEF HostReturns
  <2>2. CASE ~RunDead
    <3>1. cause' = cause /\ cause \in {"none", "signal", "module"}
      BY <1>2 DEF HostReturns, TypeOK
    <3>2. QED
      BY <1>2, <2>2, <3>1, ReportTypes DEF HostReturns
  <2>3. QED
    BY <2>1, <2>2
<1>3. CASE HostPanics(m)
  <2>1. cause' \in {"none", "signal", "module"}
    BY <1>3 DEF HostPanics, TypeOK
  <2>2. QED
    BY <1>3, <2>1, ReportTypes DEF HostPanics
<1>4. QED
  BY <1>1, <1>2, <1>3

\* What modules report keeps WhyItEnds.
LEMMA ReportingWhyItEnds ==
  ASSUME TypeOK, WhyItEnds, NEW m \in Modules,
         ModuleReturns(m) \/ HostReturns(m) \/ HostPanics(m)
  PROVE  WhyItEnds'
<1>1. CASE ModuleReturns(m)
  BY <1>1, ReportWhyItEnds DEF ModuleReturns
<1>2. CASE HostReturns(m)
  <2>1. CASE RunDead
    BY <1>2, <2>1, ReportWhyItEnds DEF HostReturns
  <2>2. CASE ~RunDead
    BY <1>2, <2>2, ReportWhyItEnds DEF HostReturns
  <2>3. QED
    BY <2>1, <2>2
<1>3. CASE HostPanics(m)
  BY <1>3, ReportWhyItEnds DEF HostPanics
<1>4. QED
  BY <1>1, <1>2, <1>3

\* What modules report keeps SignalFirst.
LEMMA ReportingSignalFirst ==
  ASSUME TypeOK, SignalFirst, NEW m \in Modules,
         ModuleReturns(m) \/ HostReturns(m) \/ HostPanics(m)
  PROVE  SignalFirst'
<1>1. CASE ModuleReturns(m)
  BY <1>1, NilSignalFirst DEF ModuleReturns
<1>2. CASE HostReturns(m)
  <2>1. CASE RunDead
    BY <1>2, <2>1, NilSignalFirst DEF HostReturns
  <2>2. CASE ~RunDead
    <3>1. cause # "none"
      BY <1>2 DEF SignalFirst, HostReturns
    <3>2. cause # "signal"
      BY <2>2 DEF SignalFirst, RunDead
    <3>3. cause' = "module"
      BY <1>2, <3>1, <3>2 DEF TypeOK, HostReturns
    <3>4. QED
      BY <1>2, <2>2, <3>3, FailureSignalFirst DEF HostReturns
  <2>3. QED
    BY <2>1, <2>2
<1>3. CASE HostPanics(m)
  <2>1. cause' = "module" \/ (cause' = cause /\ cause = "signal")
    BY <1>3 DEF TypeOK, HostPanics
  <2>2. QED
    BY <1>3, <2>1, FailureSignalFirst DEF HostPanics
<1>4. QED
  BY <1>1, <1>2, <1>3

\* Steps keep the types.
LEMMA TypeStep ==
  ASSUME TypeOK, [Next]_vars
  PROVE  TypeOK'
<1>11. ASSUME NEW m \in Modules, ModuleReturns(m) PROVE TypeOK'
  BY <1>11, ReportingTypeOK
<1>12. ASSUME NEW m \in Modules, HostReturns(m) PROVE TypeOK'
  BY <1>12, ReportingTypeOK
<1>14. ASSUME NEW m \in Modules, HostPanics(m) PROVE TypeOK'
  BY <1>14, ReportingTypeOK
<1> USE DEF TypeOK, Stages, Event,
           vars, mainVars, errs, modVars, busVars
<1>1. CASE Boot
  BY <1>1, ZenonT(60) DEF Boot, GiveUp
<1>2. CASE InitModule
  <2>1. next' \in Modules
    BY <1>2, LifecycleAssumption DEF InitModule, GiveUp, Modules
  <2>2. status' \in [Modules -> {"new", "ready", "run", "failing", "nil", "err", "panic"}]
    BY <1>2 DEF InitModule, GiveUp
  <2>3. stage' \in Stages /\ failed' \in BOOLEAN
    BY <1>2 DEF InitModule, GiveUp
  <2>4. QED
    BY <1>2, <2>1, <2>2, <2>3 DEF InitModule
<1>3. CASE BusStart
  BY <1>3, ZenonT(60) DEF BusStart, GiveUp
<1>4. CASE FirstTerminal
  <2>1. CASE ctx = "signal" /\ UNCHANGED <<failed, events>>
    BY <1>4, <2>1 DEF FirstTerminal
  <2>2. CASE /\ events # <<>> /\ events' = Tail(events)
             /\ failed' = (Head(events).reason # "stopped")
    BY <1>4, <2>2, Taken DEF FirstTerminal
  <2>3. QED
    BY <1>4, <2>1, <2>2 DEF FirstTerminal
<1>5. CASE DrainHook
  BY <1>5, ZenonT(40) DEF DrainHook
<1>6. CASE StopModule
  <2>1. next' \in Modules /\ stage' \in Stages
    BY <1>6, LifecycleAssumption DEF StopModule, Modules
  <2>2. stops' \in Seq(Modules)
    BY <1>6 DEF StopModule
  <2>3. hookErrs' = hookErrs /\ stopErrs' \subseteq Modules
    BY <1>6 DEF StopModule
  <2>4. QED
    BY <1>6, <2>1, <2>2, <2>3 DEF StopModule
<1>7. CASE CloseBus
  BY <1>7 DEF CloseBus
<1>8. CASE JoinWorkers
  BY <1>8 DEF JoinWorkers, Joinable
<1>9. CASE Close
  BY <1>9 DEF Close
<1>10. CASE Signal
  BY <1>10 DEF Signal
<1>13. ASSUME NEW m \in Modules, SourceFails(m) PROVE TypeOK'
  BY <1>13 DEF SourceFails
<1>15. ASSUME NEW x \in Recorders \union {Worker}, RecordBegins(x) PROVE TypeOK'
  BY <1>15 DEF RecordBegins
<1>16. ASSUME NEW x \in Recorders \union {Worker}, RecordEnds(x) PROVE TypeOK'
  BY <1>16 DEF RecordEnds
<1>17. CASE HandlerBegins
  BY <1>17 DEF HandlerBegins
<1>18. CASE HandlerReturns
  BY <1>18 DEF HandlerReturns
<1>19. CASE UNCHANGED vars
  BY <1>19
<1>20. CASE PollerLocks
  BY <1>20 DEF PollerLocks
<1>21. CASE PollerUnlocks
  BY <1>21 DEF PollerUnlocks
<1>22. QED
  BY <1>1, <1>2, <1>3, <1>4, <1>5, <1>6, <1>7, <1>8, <1>9, <1>10, <1>11, <1>12,
     <1>13, <1>14, <1>15, <1>16, <1>17, <1>18, <1>19,
     <1>20, <1>21
  DEF Next, Main, ModuleStep, Gone

\* Steps keep what the stage says of bus, workers and database.
LEMMA StageSaysStep ==
  ASSUME TypeOK, StageSays, [Next]_vars
  PROVE  StageSays'
<1> USE DEF TypeOK, StageSays, Started,
           vars, mainVars, errs, modVars, busVars
<1>1. CASE Boot
  BY <1>1 DEF Boot, GiveUp
<1>2. CASE InitModule
  BY <1>2 DEF InitModule, GiveUp
<1>3. CASE BusStart
  BY <1>3 DEF BusStart, GiveUp
<1>4. CASE FirstTerminal
  BY <1>4 DEF FirstTerminal
<1>5. CASE DrainHook
  BY <1>5 DEF DrainHook
<1>6. CASE StopModule
  BY <1>6 DEF StopModule
<1>7. CASE CloseBus
  BY <1>7 DEF CloseBus
<1>8. CASE JoinWorkers
  BY <1>8 DEF JoinWorkers, Joinable
<1>9. CASE Close
  BY <1>9 DEF Close
<1>10. CASE Signal
  BY <1>10 DEF Signal
<1>11. ASSUME NEW m \in Modules, ModuleReturns(m) PROVE StageSays'
  BY <1>11 DEF ModuleReturns, Report
<1>12. ASSUME NEW m \in Modules, HostReturns(m) PROVE StageSays'
  BY <1>12 DEF HostReturns, Report
<1>13. ASSUME NEW m \in Modules, SourceFails(m) PROVE StageSays'
  BY <1>13 DEF SourceFails
<1>14. ASSUME NEW m \in Modules, HostPanics(m) PROVE StageSays'
  BY <1>14 DEF HostPanics, Report
<1>15. ASSUME NEW x \in Recorders \union {Worker}, RecordBegins(x) PROVE StageSays'
  BY <1>15 DEF RecordBegins
<1>16. ASSUME NEW x \in Recorders \union {Worker}, RecordEnds(x) PROVE StageSays'
  BY <1>16 DEF RecordEnds
<1>17. CASE HandlerBegins
  BY <1>17 DEF HandlerBegins
<1>18. CASE HandlerReturns
  BY <1>18 DEF HandlerReturns
<1>19. CASE UNCHANGED vars
  BY <1>19
<1>20. CASE PollerLocks
  BY <1>20 DEF PollerLocks
<1>21. CASE PollerUnlocks
  BY <1>21 DEF PollerUnlocks
<1>22. QED
  BY <1>1, <1>2, <1>3, <1>4, <1>5, <1>6, <1>7, <1>8, <1>9, <1>10, <1>11, <1>12,
     <1>13, <1>14, <1>15, <1>16, <1>17, <1>18, <1>19,
     <1>20, <1>21
  DEF Next, Main, ModuleStep, Gone

\* Nobody is let in once Shutdown waits for the lock, and it waits for all others.
LEMMA LeftOversStep ==
  ASSUME TypeOK, StageSays, LeftOvers, [Next]_vars
  PROVE  LeftOvers'
<1> USE DEF TypeOK, StageSays, LeftOvers,
           vars, mainVars, errs, modVars, busVars
<1>1. CASE Boot
  BY <1>1 DEF Boot, GiveUp
<1>2. CASE InitModule
  BY <1>2 DEF InitModule, GiveUp
<1>3. CASE BusStart
  BY <1>3 DEF BusStart, GiveUp
<1>4. CASE FirstTerminal
  BY <1>4 DEF FirstTerminal
<1>5. CASE DrainHook
  BY <1>5 DEF DrainHook
<1>6. CASE StopModule
  BY <1>6 DEF StopModule
<1>7. CASE CloseBus
  BY <1>7 DEF CloseBus
<1>8. CASE JoinWorkers
  BY <1>8 DEF JoinWorkers, Joinable
<1>9. CASE Close
  BY <1>9 DEF Close
<1>10. CASE Signal
  BY <1>10 DEF Signal
<1>11. ASSUME NEW m \in Modules, ModuleReturns(m) PROVE LeftOvers'
  BY <1>11 DEF ModuleReturns, Report
<1>12. ASSUME NEW m \in Modules, HostReturns(m) PROVE LeftOvers'
  BY <1>12 DEF HostReturns, Report
<1>13. ASSUME NEW m \in Modules, SourceFails(m) PROVE LeftOvers'
  BY <1>13 DEF SourceFails
<1>14. ASSUME NEW m \in Modules, HostPanics(m) PROVE LeftOvers'
  BY <1>14 DEF HostPanics, Report
<1>15. ASSUME NEW x \in Recorders \union {Worker}, RecordBegins(x) PROVE LeftOvers'
  BY <1>15 DEF RecordBegins
<1>16. ASSUME NEW x \in Recorders \union {Worker}, RecordEnds(x) PROVE LeftOvers'
  BY <1>16 DEF RecordEnds
<1>17. CASE HandlerBegins
  BY <1>17 DEF HandlerBegins
<1>18. CASE HandlerReturns
  BY <1>18 DEF HandlerReturns
<1>19. CASE UNCHANGED vars
  BY <1>19
<1>20. CASE PollerLocks
  BY <1>20 DEF PollerLocks
<1>21. CASE PollerUnlocks
  BY <1>21 DEF PollerUnlocks
<1>22. QED
  BY <1>1, <1>2, <1>3, <1>4, <1>5, <1>6, <1>7, <1>8, <1>9, <1>10, <1>11, <1>12,
     <1>13, <1>14, <1>15, <1>16, <1>17, <1>18, <1>19,
     <1>20, <1>21
  DEF Next, Main, ModuleStep, Gone

\* A module returns nil only when its context has ended.
LEMMA WhyItEndsStep ==
  ASSUME TypeOK, StageSays, WhyItEnds, [Next]_vars
  PROVE  WhyItEnds'
<1>11. ASSUME NEW m \in Modules, ModuleReturns(m) PROVE WhyItEnds'
  BY <1>11, ReportingWhyItEnds
<1>12. ASSUME NEW m \in Modules, HostReturns(m) PROVE WhyItEnds'
  BY <1>12, ReportingWhyItEnds
<1>14. ASSUME NEW m \in Modules, HostPanics(m) PROVE WhyItEnds'
  BY <1>14, ReportingWhyItEnds
<1> USE DEF TypeOK, StageSays, WhyItEnds, RunDead, Event,
           vars, mainVars, errs, modVars, busVars
<1>1. CASE Boot
  BY <1>1 DEF Boot, GiveUp
<1>2. CASE InitModule
  BY <1>2 DEF InitModule, GiveUp
<1>3. CASE BusStart
  BY <1>3 DEF BusStart, GiveUp
<1>4. CASE FirstTerminal
  <2>1. CASE ctx = "signal" /\ UNCHANGED <<failed, events>>
    BY <1>4, <2>1 DEF FirstTerminal
  <2>2. CASE /\ events # <<>> /\ events' = Tail(events)
             /\ failed' = (Head(events).reason # "stopped")
    <3>1. cancelled' = TRUE /\ stage = "serve" /\ ctx' = ctx
      BY <1>4 DEF FirstTerminal
    <3>2. Head(events) = events[1] /\ 1 \in 1..Len(events)
      BY <2>2, Taken
    <3>3. ctx = "live" => Head(events).reason # "stopped"
      BY <3>1, <3>2
    <3>4. ctx = "live" => failed'
      BY <2>2, <3>3
    <3>5. QED
      BY <3>1, <3>4
  <2>3. QED
    BY <1>4, <2>1, <2>2 DEF FirstTerminal
<1>5. CASE DrainHook
  BY <1>5 DEF DrainHook
<1>6. CASE StopModule
  BY <1>6 DEF StopModule
<1>7. CASE CloseBus
  BY <1>7 DEF CloseBus
<1>8. CASE JoinWorkers
  BY <1>8 DEF JoinWorkers, Joinable
<1>9. CASE Close
  BY <1>9 DEF Close
<1>10. CASE Signal
  BY <1>10 DEF Signal
<1>13. ASSUME NEW m \in Modules, SourceFails(m) PROVE WhyItEnds'
  BY <1>13 DEF SourceFails
<1>15. ASSUME NEW x \in Recorders \union {Worker}, RecordBegins(x) PROVE WhyItEnds'
  BY <1>15 DEF RecordBegins
<1>16. ASSUME NEW x \in Recorders \union {Worker}, RecordEnds(x) PROVE WhyItEnds'
  BY <1>16 DEF RecordEnds
<1>17. CASE HandlerBegins
  BY <1>17 DEF HandlerBegins
<1>18. CASE HandlerReturns
  BY <1>18 DEF HandlerReturns
<1>19. CASE UNCHANGED vars
  BY <1>19
<1>20. CASE PollerLocks
  BY <1>20 DEF PollerLocks
<1>21. CASE PollerUnlocks
  BY <1>21 DEF PollerUnlocks
<1>22. QED
  BY <1>1, <1>2, <1>3, <1>4, <1>5, <1>6, <1>7, <1>8, <1>9, <1>10, <1>11, <1>12,
     <1>13, <1>14, <1>15, <1>16, <1>17, <1>18, <1>19,
     <1>20, <1>21
  DEF Next, Main, ModuleStep, Gone

\* After a signal the hosts drop the errors of their sources.
LEMMA SignalFirstStep ==
  ASSUME TypeOK, StageSays, SignalFirst, [Next]_vars
  PROVE  SignalFirst'
<1>11. ASSUME NEW m \in Modules, ModuleReturns(m) PROVE SignalFirst'
  BY <1>11, ReportingSignalFirst
<1>12. ASSUME NEW m \in Modules, HostReturns(m) PROVE SignalFirst'
  BY <1>12, ReportingSignalFirst
<1>14. ASSUME NEW m \in Modules, HostPanics(m) PROVE SignalFirst'
  BY <1>14, ReportingSignalFirst
<1> USE DEF TypeOK, StageSays, SignalFirst, RunDead, Event, Started,
           vars, mainVars, errs, modVars, busVars
<1>1. CASE Boot
  BY <1>1 DEF Boot, GiveUp
<1>2. CASE InitModule
  BY <1>2 DEF InitModule, GiveUp
<1>3. CASE BusStart
  BY <1>3 DEF BusStart, GiveUp
<1>4. CASE FirstTerminal
  <2>1. CASE ctx = "signal" /\ UNCHANGED <<failed, events>>
    BY <1>4, <2>1 DEF FirstTerminal
  <2>2. CASE /\ events # <<>> /\ events' = Tail(events)
             /\ failed' = (Head(events).reason # "stopped")
    BY <1>4, <2>2, Taken DEF FirstTerminal
  <2>3. QED
    BY <1>4, <2>1, <2>2 DEF FirstTerminal
<1>5. CASE DrainHook
  BY <1>5 DEF DrainHook
<1>6. CASE StopModule
  BY <1>6 DEF StopModule
<1>7. CASE CloseBus
  BY <1>7 DEF CloseBus
<1>8. CASE JoinWorkers
  BY <1>8 DEF JoinWorkers, Joinable
<1>9. CASE Close
  BY <1>9 DEF Close
<1>10. CASE Signal
  BY <1>10 DEF Signal
<1>13. ASSUME NEW m \in Modules, SourceFails(m) PROVE SignalFirst'
  BY <1>13 DEF SourceFails
<1>15. ASSUME NEW x \in Recorders \union {Worker}, RecordBegins(x) PROVE SignalFirst'
  BY <1>15 DEF RecordBegins
<1>16. ASSUME NEW x \in Recorders \union {Worker}, RecordEnds(x) PROVE SignalFirst'
  BY <1>16 DEF RecordEnds
<1>17. CASE HandlerBegins
  BY <1>17 DEF HandlerBegins
<1>18. CASE HandlerReturns
  BY <1>18 DEF HandlerReturns
<1>19. CASE UNCHANGED vars
  BY <1>19
<1>20. CASE PollerLocks
  BY <1>20 DEF PollerLocks
<1>21. CASE PollerUnlocks
  BY <1>21 DEF PollerUnlocks
<1>22. QED
  BY <1>1, <1>2, <1>3, <1>4, <1>5, <1>6, <1>7, <1>8, <1>9, <1>10, <1>11, <1>12,
     <1>13, <1>14, <1>15, <1>16, <1>17, <1>18, <1>19,
     <1>20, <1>21
  DEF Next, Main, ModuleStep, Gone

\* stopAll goes through the modules from the last to the first.
LEMMA StopsSoFarStep ==
  ASSUME TypeOK, StageSays, StopsSoFar, [Next]_vars
  PROVE  StopsSoFar'
<1> USE DEF TypeOK, StageSays, StopsSoFar, Stopped, Started,
           vars, mainVars, errs, modVars, busVars
<1>1. CASE Boot
  BY <1>1 DEF Boot, GiveUp
<1>2. CASE InitModule
  BY <1>2 DEF InitModule, GiveUp
<1>3. CASE BusStart
  BY <1>3 DEF BusStart, GiveUp
<1>4. CASE FirstTerminal
  BY <1>4 DEF FirstTerminal
<1>5. CASE DrainHook
  BY <1>5 DEF DrainHook
<1>6. CASE StopModule
  <2> DEFINE n == N - next
  <2>1. n \in Nat /\ stops = [i \in 1..n |-> N + 1 - i] /\ next \in Nat /\ N \in Nat
    BY <1>6, LifecycleAssumption DEF StopModule, Modules
  <2>2. stops \in Seq(Modules) /\ Len(stops) = n
    BY <2>1
  <2>3. Append(stops, next) = [i \in 1..(n + 1) |-> N + 1 - i]
    BY <2>1, <2>2
  <2>4. n + 1 = N - (next - 1)
    BY <2>1
  <2>5. CASE next > 1
    BY <1>6, <2>1, <2>3, <2>4, <2>5 DEF StopModule
  <2>6. CASE ~(next > 1)
    BY <1>6, <2>1, <2>3, <2>4, <2>6 DEF StopModule
  <2>7. QED
    BY <2>5, <2>6
<1>7. CASE CloseBus
  BY <1>7 DEF CloseBus
<1>8. CASE JoinWorkers
  BY <1>8 DEF JoinWorkers, Joinable
<1>9. CASE Close
  BY <1>9 DEF Close
<1>10. CASE Signal
  BY <1>10 DEF Signal
<1>11. ASSUME NEW m \in Modules, ModuleReturns(m) PROVE StopsSoFar'
  BY <1>11 DEF ModuleReturns, Report
<1>12. ASSUME NEW m \in Modules, HostReturns(m) PROVE StopsSoFar'
  BY <1>12 DEF HostReturns, Report
<1>13. ASSUME NEW m \in Modules, SourceFails(m) PROVE StopsSoFar'
  BY <1>13 DEF SourceFails
<1>14. ASSUME NEW m \in Modules, HostPanics(m) PROVE StopsSoFar'
  BY <1>14 DEF HostPanics, Report
<1>15. ASSUME NEW x \in Recorders \union {Worker}, RecordBegins(x) PROVE StopsSoFar'
  BY <1>15 DEF RecordBegins
<1>16. ASSUME NEW x \in Recorders \union {Worker}, RecordEnds(x) PROVE StopsSoFar'
  BY <1>16 DEF RecordEnds
<1>17. CASE HandlerBegins
  BY <1>17 DEF HandlerBegins
<1>18. CASE HandlerReturns
  BY <1>18 DEF HandlerReturns
<1>19. CASE UNCHANGED vars
  BY <1>19
<1>20. CASE PollerLocks
  BY <1>20 DEF PollerLocks
<1>21. CASE PollerUnlocks
  BY <1>21 DEF PollerUnlocks
<1>22. QED
  BY <1>1, <1>2, <1>3, <1>4, <1>5, <1>6, <1>7, <1>8, <1>9, <1>10, <1>11, <1>12,
     <1>13, <1>14, <1>15, <1>16, <1>17, <1>18, <1>19,
     <1>20, <1>21
  DEF Next, Main, ModuleStep, Gone

\* The invariant holds in every reachable state, for any number of modules.
THEOREM LifecycleInvariance == Spec => []LInv
<1>1. Init => LInv
  <2> SUFFICES ASSUME Init PROVE LInv
    OBVIOUS
  <2>1. TypeOK
    <3>1. <<>> \in Seq(Event) /\ <<>> \in Seq(Modules)
      OBVIOUS
    <3>2. next \in Modules
      BY DEF Init
    <3>3. QED
      BY <3>1, <3>2 DEF Init, TypeOK, Stages
  <2>2. stops = [i \in 1..0 |-> N + 1 - i]
    BY DEF Init
  <2>3. status[1] = "new" /\ events = <<>> /\ Len(events) = 0
    BY DEF Init
  <2>4. QED
    BY <2>1, <2>2, <2>3 DEF Init, LInv, StageSays, LeftOvers, StopsSoFar, Stopped,
       WhyItEnds, SignalFirst, Started, RunDead
<1>2. LInv /\ [Next]_vars => LInv'
  BY TypeStep, StageSaysStep, LeftOversStep, WhyItEndsStep, SignalFirstStep,
     StopsSoFarStep DEF LInv
<1>3. QED
  BY <1>1, <1>2, PTL DEF Spec

\* Whoever is inside Record has an open database, however long the goroutines of
\* modules and handlers outlive the shutdown: RecordsReachDatabase.
THEOREM DatabaseOutlivesRecords == Spec => []RecordsReachDatabase
<1>1. LInv => RecordsReachDatabase
  BY DEF LInv, TypeOK, Stages, StageSays, LeftOvers, RecordsReachDatabase
<1>2. QED
  BY <1>1, LifecycleInvariance, PTL

\* Workers that outlive the database are reported: QuietOrReported.
THEOREM LeftWorkersAreReported == Spec => []QuietOrReported
<1>1. LInv => QuietOrReported
  BY DEF LInv, StageSays, LeftOvers, QuietOrReported
<1>2. QED
  BY <1>1, LifecycleInvariance, PTL

\* Every module that was started is stopped once, from the last to the first,
\* before the bus is shut down: EveryModuleStopped.
THEOREM StopReachesAll == Spec => []EveryModuleStopped
<1>1. LInv => EveryModuleStopped
  BY DEF LInv, StopsSoFar, Stopped, EveryModuleStopped
<1>2. QED
  BY <1>1, LifecycleInvariance, PTL

\* A signal that comes first ends the program without an error: SignalIsClean.
THEOREM SignalEndsWell == Spec => []SignalIsClean
<1>1. LInv => SignalIsClean
  BY DEF LInv, SignalFirst, SignalIsClean
<1>2. QED
  BY <1>1, LifecycleInvariance, PTL

\* Without a signal the program ends with an error: CleanOnlyOnSignal.
THEOREM OnlySignalEndsWell == Spec => []CleanOnlyOnSignal
<1>1. LInv => CleanOnlyOnSignal
  BY DEF LInv, TypeOK, WhyItEnds, CleanOnlyOnSignal
<1>2. QED
  BY <1>1, LifecycleInvariance, PTL

\* Modules are stopped with their context cancelled, after bus.drain and while
\* the bus still takes events: StopsBetweenHooks.
THEOREM StopsBetween == Spec => StopsBetweenHooks
<1>1. LInv /\ [Next]_vars =>
        [stops' # stops => cancelled /\ stage = "stop" /\ bus = "open"]_vars
  BY DEF LInv, TypeOK, StageSays, vars, mainVars, errs, modVars, busVars, Next, Main,
         ModuleStep, Gone, Boot, InitModule, BusStart, FirstTerminal, DrainHook,
         StopModule, CloseBus, JoinWorkers, Joinable, Close, Signal, ModuleReturns, HostReturns,
         SourceFails, HostPanics, RecordBegins, RecordEnds, HandlerBegins,
         HandlerReturns, PollerLocks, PollerUnlocks
<1>2. QED
  BY <1>1, LifecycleInvariance, PTL DEF Spec, StopsBetweenHooks

=============================================================================

