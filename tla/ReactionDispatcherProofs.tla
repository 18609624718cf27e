---------------------- MODULE ReactionDispatcherProofs ----------------------
(***************************************************************************)
(* Proofs that the dispatcher keeps its invariant, and with it what        *)
(* ReactionDispatcher states of exclusion, of the call count, of the       *)
(* WaitGroup, of settled rows and of the promise of AtLeastOnce, and of    *)
(* what a Drain that returns nil leaves behind.                            *)
(*                                                                         *)
(* The inductive invariant IInv gives every reaction one holder.  Each     *)
(* conjunct has a lemma of its own below, with one step for each action    *)
(* that can disturb it, one for the end of the process, and one for the    *)
(* actions that leave its variables alone.  DrainInv, at the end, rests on *)
(* it.                                                                     *)
(***************************************************************************)
EXTENDS ReactionDispatcher, FiniteSetTheorems, TLAPS

\* Sending puts one job behind the jobs the channel holds.
LEMMA Sent ==
  ASSUME NEW q \in Seq(Job), NEW j \in Job
  PROVE  /\ Append(q, j) \in Seq(Job)
         /\ \A i \in 1..Len(Append(q, j)) :
              (i \in 1..Len(q) /\ Append(q, j)[i] = q[i]) \/ (i = Len(q) + 1 /\ Append(q, j)[i] = j)
  OBVIOUS

\* Receiving takes the first job and moves the others up by one place.
LEMMA Received ==
  ASSUME NEW q \in Seq(Job), q # <<>>
  PROVE  /\ Head(q) \in Job /\ Tail(q) \in Seq(Job)
         /\ Head(q) = q[1] /\ 1 \in 1..Len(q)
         /\ \A i \in 1..Len(Tail(q)) : i + 1 \in 2..Len(q) /\ Tail(q)[i] = q[i + 1]
  OBVIOUS

\* The channel of a process that has just ended is empty.
LEMMA NoJobs == <<>> \in Seq(Job) /\ Len(<<>>) = 0
  OBVIOUS

\* markInFlight and pending.Add keep the WaitGroup counter equal to the
\* number of reactions in flight.
LEMMA TakenInFlight ==
  ASSUME IInv, NEW r \in Reactions, r \notin inFlight
  PROVE  /\ inFlight \union {r} \subseteq Reactions /\ pending + 1 \in Nat
         /\ pending + 1 = Cardinality(inFlight \union {r})
<1>1. IsFiniteSet(inFlight) /\ pending \in Nat /\ pending = Cardinality(inFlight)
  BY ConstantsAssumption, FS_Subset DEF IInv, TypeOK, FlightTypeOK,
     PendingCountsFlight
<1>2. Cardinality(inFlight \union {r}) = Cardinality(inFlight) + 1
  BY <1>1, FS_AddElement
<1> QED
  BY <1>1, <1>2 DEF IInv, TypeOK, FlightTypeOK

\* clearInFlight and pending.Done keep the counter equal to the number of
\* reactions in flight, and never take it below zero.
LEMMA ReleasedFromFlight ==
  ASSUME IInv, NEW r \in inFlight
  PROVE  /\ inFlight \ {r} \subseteq Reactions /\ pending - 1 \in Nat
         /\ pending - 1 = Cardinality(inFlight \ {r})
<1>1. IsFiniteSet(inFlight) /\ pending \in Nat /\ pending = Cardinality(inFlight)
  BY ConstantsAssumption, FS_Subset DEF IInv, TypeOK, FlightTypeOK,
     PendingCountsFlight
<1>2. Cardinality(inFlight \ {r}) = Cardinality(inFlight) - 1
  BY <1>1, FS_RemoveElement
<1>3. pending # 0
  BY <1>1, FS_EmptySet
<1> QED
  BY <1>1, <1>2, <1>3 DEF IInv, TypeOK, FlightTypeOK

\* The rows and the outcomes of attempts keep their type.
LEMMA StoreType == IInv /\ [Next]_vars => StoreTypeOK'
<1> SUFFICES ASSUME IInv, [Next]_vars PROVE StoreTypeOK'
  OBVIOUS
<1> USE ConstantsAssumption
<1>0. StoreTypeOK /\ ScanTypeOK /\ WorkTypeOK /\ Shape
  BY DEF IInv, TypeOK
<1>1. CASE Start
  BY <1>0, <1>1 DEF Start, ResetRunning, StoreTypeOK, Status, Outcome
<1>2. ASSUME NEW e \in Events, Record(e) PROVE StoreTypeOK'
  BY <1>0, <1>2 DEF Record, Dispatch, RecordEventReactions, NewEvent, Notify,
      StoreTypeOK, Status, Outcome
<1>3. ASSUME NEW s \in Scanners, List(s) PROVE StoreTypeOK'
  BY <1>0, <1>3 DEF List, Leave, Refused, Fault, StoreTypeOK, Status, Outcome
<1>4. ASSUME NEW s \in Scanners, Claim(s) PROVE StoreTypeOK'
  BY <1>0, <1>4 DEF Claim, Refused, Fault, DoneWith, StoreTypeOK, Status,
      Outcome
<1>5. ASSUME NEW s \in Scanners, Decode(s) PROVE StoreTypeOK'
  BY <1>0, <1>5 DEF Decode, DoneWith, StoreTypeOK, Status, Outcome
<1>6. ASSUME NEW s \in Scanners, Reject(s) PROVE StoreTypeOK'
  BY <1>0, <1>6 DEF Reject, Refused, Fault, MarkReaction, StoreTypeOK, Status,
      Outcome
<1>7. ASSUME NEW w \in Workers, HandlerReturns(w) PROVE StoreTypeOK'
  <2>1. job[w].r \in Reactions
    BY <1>0, <1>7 DEF HandlerReturns, Shape, WellFormed, Busy, Job
  <2>2. PICK o \in {"ok", "err"} :
           outcomes' = [outcomes EXCEPT ![job[w].r] = @ \union {o}]
    BY <1>7 DEF HandlerReturns
  <2> QED
    BY <1>0, <1>7, <2>1, <2>2 DEF HandlerReturns, StoreTypeOK, Outcome
<1>8. ASSUME NEW w \in Workers, Mark(w) PROVE StoreTypeOK'
  BY <1>0, <1>8 DEF Mark, Refused, Fault, MarkReaction, Verdict, StoreTypeOK,
      Status, Outcome, Shape, WellFormed, Busy, Job
<1>9. CASE UNCHANGED storeVars
  BY <1>0, <1>9 DEF storeVars, StoreTypeOK, Status, Outcome
<1> QED
  BY <1>1, <1>2, <1>3, <1>4, <1>5, <1>6, <1>7, <1>8, <1>9
  DEF Next, Scan, Work, Drain, vars, Crash, Signal, PollerWakes, PollerStops,
      CallDrain, DrainExpires, WaiterCalls, WaiterReturns, DrainReturns,
      AcquireDrainMu, NextReaction, EndOfList, Send, SendCancelled,
      WorkerBegins, WorkerTakes, WorkerExits, Finish, CallShutdown, CloseJobs,
      ShutdownCompletes, ShutdownExpires, Exit, Over, Leave, DoneWith,
      ProcessEnds, storeVars, procVars, ctxVars, chanVars, flightVars,
      callerVars, scanVars, workVars

\* The record of the process keeps its type.
LEMMA ProcType == IInv /\ [Next]_vars => ProcTypeOK'
<1> SUFFICES ASSUME IInv, [Next]_vars PROVE ProcTypeOK'
  OBVIOUS
<1> USE ConstantsAssumption
<1>0. ProcTypeOK /\ ChanTypeOK /\ FlightTypeOK
  BY DEF IInv, TypeOK
<1>1. CASE Start
  BY <1>0, <1>1 DEF Start, ResetRunning, ProcTypeOK
<1>2. ASSUME NEW d \in Drainers, CallDrain(d) PROVE ProcTypeOK'
  BY <1>0, <1>2 DEF CallDrain, ProcTypeOK, FlightTypeOK, Pending
<1>3. ASSUME NEW w \in Workers, WorkerTakes(w) PROVE ProcTypeOK'
  <2>1. Head(jobs).r \in Reactions
    BY <1>0, <1>3, Received DEF WorkerTakes, ChanTypeOK, Job
  <2>2. calls' = [calls EXCEPT ![Head(jobs).r] = @ + 1]
    BY <1>3 DEF WorkerTakes
  <2>3. calls' \in [Reactions -> Nat]
    <3>1. \A h \in Reactions : [calls EXCEPT ![h] = @ + 1] \in [Reactions -> Nat]
      BY <1>0 DEF ProcTypeOK
    <3> QED
      BY <2>1, <2>2, <3>1
  <2> QED
    BY <1>0, <1>3, <2>3 DEF WorkerTakes, ProcTypeOK
<1>4. ASSUME NEW how \in {"down", "panicWait", "panicSend"}, ProcessEnds(how)
      PROVE  ProcTypeOK'
  BY <1>0, <1>4 DEF ProcessEnds, Volatile, ProcTypeOK
<1>5. CASE UNCHANGED procVars
  BY <1>0, <1>5 DEF procVars, ProcTypeOK
<1> QED
  BY <1>1, <1>2, <1>3, <1>4, <1>5
  DEF Next, Scan, Work, Drain, vars, Crash, Signal, Record, PollerWakes,
      PollerStops, DrainExpires, WaiterCalls, WaiterReturns, DrainReturns,
      AcquireDrainMu, List, NextReaction, EndOfList, Claim, Decode, Reject,
      Send, SendCancelled, WorkerBegins, WorkerExits, HandlerReturns, Mark,
      Finish, CallShutdown, CloseJobs, ShutdownCompletes, ShutdownExpires,
      Exit, Over, Leave, DoneWith, storeVars, procVars, ctxVars, chanVars,
      flightVars, callerVars, scanVars, workVars

\* The contexts and the state of Shutdown keep their type.
LEMMA CtxType == IInv /\ [Next]_vars => CtxTypeOK'
<1> SUFFICES ASSUME IInv, [Next]_vars PROVE CtxTypeOK'
  OBVIOUS
<1> USE ConstantsAssumption
<1>0. CtxTypeOK
  BY DEF IInv, TypeOK
<1>1. CASE Signal
  BY <1>0, <1>1 DEF Signal, Cancel, CtxTypeOK, Scanners
<1>2. ASSUME NEW d \in Drainers, DrainExpires(d) PROVE CtxTypeOK'
  BY <1>0, <1>2 DEF DrainExpires, Cancel, CtxTypeOK, Scanners
<1>3. ASSUME NEW d \in Drainers, DrainReturns(d) PROVE CtxTypeOK'
  BY <1>0, <1>3 DEF DrainReturns, Cancel, CtxTypeOK, Scanners
<1>4. CASE CallShutdown
  BY <1>0, <1>4 DEF CallShutdown, Cancel, CtxTypeOK, Scanners
<1>5. CASE CloseJobs
  BY <1>0, <1>5 DEF CloseJobs, PollerGone, CtxTypeOK, Scanners, ProcessEnds
<1>6. CASE ShutdownCompletes
  BY <1>0, <1>6 DEF ShutdownCompletes, CtxTypeOK, Scanners
<1>7. CASE ShutdownExpires
  BY <1>0, <1>7 DEF ShutdownExpires, CtxTypeOK, Scanners
<1>8. ASSUME NEW how, how # "up", ProcessEnds(how) PROVE CtxTypeOK'
  BY <1>0, <1>8 DEF ProcessEnds, Volatile, CtxTypeOK, Scanners
<1>9. CASE UNCHANGED ctxVars
  BY <1>0, <1>9 DEF ctxVars, CtxTypeOK, Scanners
<1> QED
  BY <1>1, <1>2, <1>3, <1>4, <1>5, <1>6, <1>7, <1>8, <1>9
  DEF Next, Scan, Work, Drain, vars, Start, Crash, Record, PollerWakes,
      PollerStops, CallDrain, WaiterCalls, WaiterReturns, AcquireDrainMu,
      List, NextReaction, EndOfList, Claim, Decode, Reject, Send,
      SendCancelled, WorkerBegins, WorkerTakes, WorkerExits, HandlerReturns,
      Mark, Finish, Exit, Over, Leave, DoneWith, storeVars, procVars, ctxVars,
      chanVars, flightVars, callerVars, scanVars, workVars

\* The jobs channel only ever holds jobs.
LEMMA ChanType == IInv /\ [Next]_vars => ChanTypeOK'
<1> SUFFICES ASSUME IInv, [Next]_vars PROVE ChanTypeOK'
  OBVIOUS
<1> USE ConstantsAssumption
<1>0. ChanTypeOK /\ ScanTypeOK /\ Shape
  BY DEF IInv, TypeOK
<1>1. CASE Start
  BY <1>0, <1>1 DEF Start, ResetRunning, ChanTypeOK
<1>2. ASSUME NEW e \in Events, Record(e) PROVE ChanTypeOK'
  BY <1>0, <1>2 DEF Record, Dispatch, RecordEventReactions, NewEvent, Notify,
      ChanTypeOK
<1>3. CASE PollerWakes
  BY <1>0, <1>3 DEF PollerWakes, ChanTypeOK
<1>4. ASSUME NEW s \in Scanners, Send(s) PROVE ChanTypeOK'
  <2>1. [r |-> current, by |-> s] \in Job
    BY <1>0, <1>4 DEF Send, Shape, WellFormed, Job
  <2> QED
    BY <1>0, <1>4, <2>1, Sent DEF Send, ChanTypeOK
<1>5. ASSUME NEW w \in Workers, WorkerTakes(w) PROVE ChanTypeOK'
  BY <1>0, <1>5, Received DEF WorkerTakes, ChanTypeOK
<1>6. CASE CloseJobs
  BY <1>0, <1>6, NoJobs DEF CloseJobs, PollerGone, ChanTypeOK, ProcessEnds
<1>7. ASSUME NEW how, how # "up", ProcessEnds(how) PROVE ChanTypeOK'
  BY <1>0, <1>7, NoJobs DEF ProcessEnds, Volatile, ChanTypeOK
<1>8. CASE UNCHANGED chanVars
  BY <1>0, <1>8 DEF chanVars, ChanTypeOK
<1> QED
  BY <1>1, <1>2, <1>3, <1>4, <1>5, <1>6, <1>7, <1>8
  DEF Next, Scan, Work, Drain, vars, Crash, Signal, PollerStops, CallDrain,
      DrainExpires, WaiterCalls, WaiterReturns, DrainReturns, AcquireDrainMu,
      List, NextReaction, EndOfList, Claim, Decode, Reject, SendCancelled,
      WorkerBegins, WorkerExits, HandlerReturns, Mark, Finish, CallShutdown,
      ShutdownCompletes, ShutdownExpires, Exit, Over, Leave, DoneWith,
      storeVars, procVars, ctxVars, chanVars, flightVars, callerVars,
      scanVars, workVars

\* The poller, the callers of Drain and their WaitGroup waiters stay at
\* places the code has.
LEMMA CallerType == IInv /\ [Next]_vars => CallerTypeOK'
<1> SUFFICES ASSUME IInv, [Next]_vars PROVE CallerTypeOK'
  OBVIOUS
<1> USE ConstantsAssumption
<1>0. CallerTypeOK /\ ScanTypeOK
  BY DEF IInv, TypeOK
<1>1. CASE Start
  BY <1>0, <1>1 DEF Start, ResetRunning, CallerTypeOK, Scanners
<1>2. CASE PollerWakes
  BY <1>0, <1>2 DEF PollerWakes, CallerTypeOK, Scanners
<1>3. CASE PollerStops
  BY <1>0, <1>3 DEF PollerStops, CallerTypeOK, Scanners
<1>4. ASSUME NEW d \in Drainers, CallDrain(d) PROVE CallerTypeOK'
  BY <1>0, <1>4 DEF CallDrain, CallerTypeOK, Scanners
<1>5. ASSUME NEW d \in Drainers, WaiterCalls(d) PROVE CallerTypeOK'
  BY <1>0, <1>5 DEF WaiterCalls, CallerTypeOK, Scanners
<1>6. ASSUME NEW d \in Drainers, WaiterReturns(d) PROVE CallerTypeOK'
  BY <1>0, <1>6 DEF WaiterReturns, CallerTypeOK, Scanners, ProcessEnds,
      Volatile
<1>7. ASSUME NEW d \in Drainers, DrainReturns(d) PROVE CallerTypeOK'
  BY <1>0, <1>7 DEF DrainReturns, Cancel, CallerTypeOK, Scanners
<1>8. ASSUME NEW s \in Scanners, AcquireDrainMu(s) PROVE CallerTypeOK'
  BY <1>0, <1>8 DEF AcquireDrainMu, CallerTypeOK, Scanners
<1>9. ASSUME NEW s \in Scanners, List(s) PROVE CallerTypeOK'
  BY <1>0, <1>9 DEF List, Leave, Refused, Fault, CallerTypeOK, Scanners,
      ScanTypeOK
<1>10. ASSUME NEW s \in Scanners, EndOfList(s) PROVE CallerTypeOK'
  BY <1>0, <1>10 DEF EndOfList, Leave, CallerTypeOK, Scanners, ScanTypeOK
<1>11. ASSUME NEW s \in Scanners, Claim(s) PROVE CallerTypeOK'
  BY <1>0, <1>11 DEF Claim, Refused, Fault, DoneWith, CallerTypeOK, Scanners
<1>12. ASSUME NEW s \in Scanners, Decode(s) PROVE CallerTypeOK'
  BY <1>0, <1>12 DEF Decode, DoneWith, CallerTypeOK, Scanners
<1>13. ASSUME NEW s \in Scanners, SendCancelled(s) PROVE CallerTypeOK'
  BY <1>0, <1>13 DEF SendCancelled, DoneWith, CallerTypeOK, Scanners
<1>14. ASSUME NEW w \in Workers, Finish(w) PROVE CallerTypeOK'
  BY <1>0, <1>14 DEF Finish, DoneWith, CallerTypeOK, Scanners
<1>15. ASSUME NEW how, how # "up", ProcessEnds(how) PROVE CallerTypeOK'
  BY <1>0, <1>15 DEF ProcessEnds, Volatile, CallerTypeOK, Scanners
<1>16. CASE UNCHANGED callerVars
  BY <1>0, <1>16 DEF callerVars, CallerTypeOK, Scanners
<1> QED
  BY <1>1, <1>2, <1>3, <1>4, <1>5, <1>6, <1>7, <1>8, <1>9, <1>10, <1>11,
      <1>12, <1>13, <1>14, <1>15, <1>16
  DEF Next, Scan, Work, Drain, vars, Crash, Signal, Record, DrainExpires,
      NextReaction, Reject, Send, WorkerBegins, WorkerTakes, WorkerExits,
      HandlerReturns, Mark, CallShutdown, CloseJobs, ShutdownCompletes,
      ShutdownExpires, Exit, Over, Leave, DoneWith, storeVars, procVars,
      ctxVars, chanVars, flightVars, callerVars, scanVars, workVars

\* The locals of drainPending and enqueue keep their type.
LEMMA ScanType == IInv /\ [Next]_vars => ScanTypeOK'
<1> SUFFICES ASSUME IInv, [Next]_vars PROVE ScanTypeOK'
  OBVIOUS
<1> USE ConstantsAssumption
<1>0. ScanTypeOK
  BY DEF IInv, TypeOK
<1>1. ASSUME NEW s \in Scanners, AcquireDrainMu(s) PROVE ScanTypeOK'
  BY <1>0, <1>1 DEF AcquireDrainMu, ScanTypeOK
<1>2. ASSUME NEW s \in Scanners, List(s) PROVE ScanTypeOK'
  <2>1. CASE Leave
    BY <1>0, <2>1 DEF Leave, ScanTypeOK
  <2>2. CASE /\ batch' = Oldest(Pending, PollLimit) /\ step' = "next"
              /\ full' = (Cardinality(Pending) >= PollLimit) /\ queued' = FALSE
              /\ UNCHANGED <<holder, current>>
    <3>1. Oldest(Pending, PollLimit) \subseteq Reactions
      BY DEF Oldest, Pending
    <3>2. full' \in BOOLEAN
      BY <2>2
    <3> QED
      BY <1>0, <2>2, <3>1, <3>2 DEF ScanTypeOK
  <2> QED
    BY <1>2, <2>1, <2>2 DEF List
<1>3. ASSUME NEW s \in Scanners, NextReaction(s) PROVE ScanTypeOK'
  BY <1>0, <1>3 DEF NextReaction, ScanTypeOK, Oldest
<1>4. ASSUME NEW s \in Scanners, EndOfList(s) PROVE ScanTypeOK'
  BY <1>0, <1>4 DEF EndOfList, Leave, ScanTypeOK
<1>5. ASSUME NEW s \in Scanners, Claim(s) PROVE ScanTypeOK'
  BY <1>0, <1>5 DEF Claim, Refused, Fault, DoneWith, ScanTypeOK
<1>6. ASSUME NEW s \in Scanners, Decode(s) PROVE ScanTypeOK'
  BY <1>0, <1>6 DEF Decode, DoneWith, ScanTypeOK
<1>7. ASSUME NEW s \in Scanners, Reject(s) PROVE ScanTypeOK'
  BY <1>0, <1>7 DEF Reject, Refused, Fault, MarkReaction, ScanTypeOK
<1>8. ASSUME NEW s \in Scanners, Send(s) PROVE ScanTypeOK'
  BY <1>0, <1>8 DEF Send, ScanTypeOK
<1>9. ASSUME NEW s \in Scanners, SendCancelled(s) PROVE ScanTypeOK'
  BY <1>0, <1>9 DEF SendCancelled, DoneWith, ScanTypeOK
<1>10. ASSUME NEW how, how # "up", ProcessEnds(how) PROVE ScanTypeOK'
  BY <1>0, <1>10 DEF ProcessEnds, Volatile, ScanTypeOK
<1>11. CASE UNCHANGED scanVars
  BY <1>0, <1>11 DEF scanVars, ScanTypeOK
<1> QED
  BY <1>1, <1>2, <1>3, <1>4, <1>5, <1>6, <1>7, <1>8, <1>9, <1>10, <1>11
  DEF Next, Scan, Work, Drain, vars, Start, Crash, Signal, Record,
      PollerWakes, PollerStops, CallDrain, DrainExpires, WaiterCalls,
      WaiterReturns, DrainReturns, WorkerBegins, WorkerTakes, WorkerExits,
      HandlerReturns, Mark, Finish, CallShutdown, CloseJobs,
      ShutdownCompletes, ShutdownExpires, Exit, Over, Leave, DoneWith,
      storeVars, procVars, ctxVars, chanVars, flightVars, callerVars,
      scanVars, workVars

\* The workers and their jobs keep their type.
LEMMA WorkType == IInv /\ [Next]_vars => WorkTypeOK'
<1> SUFFICES ASSUME IInv, [Next]_vars PROVE WorkTypeOK'
  OBVIOUS
<1> USE ConstantsAssumption
<1>0. WorkTypeOK /\ ChanTypeOK
  BY DEF IInv, TypeOK
<1>1. CASE Start
  BY <1>0, <1>1 DEF Start, ResetRunning, WorkTypeOK
<1>2. ASSUME NEW w \in Workers, WorkerBegins(w) PROVE WorkTypeOK'
  BY <1>0, <1>2 DEF WorkerBegins, WorkTypeOK
<1>3. ASSUME NEW w \in Workers, WorkerTakes(w) PROVE WorkTypeOK'
  BY <1>0, <1>3 DEF WorkerTakes, WorkTypeOK, ChanTypeOK
<1>4. ASSUME NEW w \in Workers, WorkerExits(w) PROVE WorkTypeOK'
  BY <1>0, <1>4 DEF WorkerExits, WorkTypeOK
<1>5. ASSUME NEW w \in Workers, HandlerReturns(w) PROVE WorkTypeOK'
  BY <1>0, <1>5 DEF HandlerReturns, WorkTypeOK
<1>6. ASSUME NEW w \in Workers, Mark(w) PROVE WorkTypeOK'
  BY <1>0, <1>6 DEF Mark, Refused, Fault, MarkReaction, Verdict, WorkTypeOK
<1>7. ASSUME NEW w \in Workers, Finish(w) PROVE WorkTypeOK'
  BY <1>0, <1>7 DEF Finish, DoneWith, WorkTypeOK
<1>8. ASSUME NEW how, how # "up", ProcessEnds(how) PROVE WorkTypeOK'
  BY <1>0, <1>8 DEF ProcessEnds, Volatile, WorkTypeOK
<1>9. CASE UNCHANGED workVars
  BY <1>0, <1>9 DEF workVars, WorkTypeOK
<1> QED
  BY <1>1, <1>2, <1>3, <1>4, <1>5, <1>6, <1>7, <1>8, <1>9
  DEF Next, Scan, Work, Drain, vars, Crash, Signal, Record, PollerWakes,
      PollerStops, CallDrain, DrainExpires, WaiterCalls, WaiterReturns,
      DrainReturns, AcquireDrainMu, List, NextReaction, EndOfList, Claim,
      Decode, Reject, Send, SendCancelled, CallShutdown, CloseJobs,
      ShutdownCompletes, ShutdownExpires, Exit, Over, Leave, DoneWith,
      storeVars, procVars, ctxVars, chanVars, flightVars, callerVars,
      scanVars, workVars

\* d.inFlight stays a set of reactions that the counter of d.pending
\* counts: a reaction is added only when it is not there and removed only
\* by the one who holds it.
LEMMA Flight == IInv /\ [Next]_vars => (FlightTypeOK /\ PendingCountsFlight)'
<1> SUFFICES ASSUME IInv, [Next]_vars PROVE (FlightTypeOK /\ PendingCountsFlight)'
  OBVIOUS
<1> USE ConstantsAssumption
<1>0. FlightTypeOK /\ PendingCountsFlight /\ HeldInFlight /\ Shape /\ ScanTypeOK
  BY DEF IInv, TypeOK
<1>1. ASSUME NEW s \in Scanners, NextReaction(s)
      PROVE  (FlightTypeOK /\ PendingCountsFlight)'
  <2>1. CASE UNCHANGED flightVars
    BY <1>0, <2>1 DEF flightVars, FlightTypeOK, PendingCountsFlight
  <2>2. CASE ~UNCHANGED flightVars
    <3>1. PICK r \in Reactions \ inFlight :
            inFlight' = inFlight \union {r} /\ pending' = pending + 1
      BY <1>0, <1>1, <2>2 DEF NextReaction, Oldest, ScanTypeOK
    <3> QED
      BY <3>1, TakenInFlight DEF FlightTypeOK, PendingCountsFlight
  <2> QED
    BY <2>1, <2>2
<1>2. ASSUME NEW s \in Scanners, Claim(s)
      PROVE  (FlightTypeOK /\ PendingCountsFlight)'
  <2>1. CASE UNCHANGED flightVars
    BY <1>0, <2>1 DEF flightVars, FlightTypeOK, PendingCountsFlight
  <2>2. CASE DoneWith(current)
    <3>1. current \in inFlight
      BY <1>0, <1>2 DEF Claim, HeldInFlight, Busy
    <3> QED
      BY <2>2, <3>1, ReleasedFromFlight DEF DoneWith, FlightTypeOK,
         PendingCountsFlight
  <2> QED
    BY <1>2, <2>1, <2>2 DEF Claim, flightVars
<1>3. ASSUME NEW s \in Scanners, Decode(s)
      PROVE  (FlightTypeOK /\ PendingCountsFlight)'
  <2>1. CASE UNCHANGED flightVars
    BY <1>0, <2>1 DEF flightVars, FlightTypeOK, PendingCountsFlight
  <2>2. CASE DoneWith(current)
    <3>1. current \in inFlight
      BY <1>0, <1>3 DEF Decode, HeldInFlight, Busy
    <3> QED
      BY <2>2, <3>1, ReleasedFromFlight DEF DoneWith, FlightTypeOK,
         PendingCountsFlight
  <2> QED
    BY <1>3, <2>1, <2>2 DEF Decode, flightVars
<1>4. ASSUME NEW s \in Scanners, SendCancelled(s)
      PROVE  (FlightTypeOK /\ PendingCountsFlight)'
  <2>1. CASE UNCHANGED flightVars
    BY <1>0, <2>1 DEF flightVars, FlightTypeOK, PendingCountsFlight
  <2>2. CASE DoneWith(current)
    <3>1. current \in inFlight
      BY <1>0, <1>4 DEF SendCancelled, HeldInFlight, Busy
    <3> QED
      BY <2>2, <3>1, ReleasedFromFlight DEF DoneWith, FlightTypeOK,
         PendingCountsFlight
  <2> QED
    BY <1>4, <2>1, <2>2 DEF SendCancelled, flightVars
<1>5. ASSUME NEW w \in Workers, Finish(w)
      PROVE  (FlightTypeOK /\ PendingCountsFlight)'
  <2>1. CASE UNCHANGED flightVars
    BY <1>0, <2>1 DEF flightVars, FlightTypeOK, PendingCountsFlight
  <2>2. CASE DoneWith(job[w].r)
    <3>1. job[w].r \in inFlight
      BY <1>0, <1>5 DEF Finish, HeldInFlight, Busy
    <3> QED
      BY <2>2, <3>1, ReleasedFromFlight DEF DoneWith, FlightTypeOK,
         PendingCountsFlight
  <2> QED
    BY <1>5, <2>1, <2>2 DEF Finish, flightVars
<1>6. ASSUME NEW how, how # "up", ProcessEnds(how)
      PROVE  (FlightTypeOK /\ PendingCountsFlight)'
  BY <1>0, <1>6, FS_EmptySet DEF ProcessEnds, Volatile, FlightTypeOK,
      PendingCountsFlight
<1>7. CASE UNCHANGED flightVars
  BY <1>0, <1>7 DEF flightVars, FlightTypeOK, PendingCountsFlight
<1> QED
  BY <1>1, <1>2, <1>3, <1>4, <1>5, <1>6, <1>7
  DEF Next, Scan, Work, Drain, vars, Start, Crash, Signal, Record,
      PollerWakes, PollerStops, CallDrain, DrainExpires, WaiterCalls,
      WaiterReturns, DrainReturns, AcquireDrainMu, List, EndOfList, Reject,
      Send, WorkerBegins, WorkerTakes, WorkerExits, HandlerReturns, Mark,
      CallShutdown, CloseJobs, ShutdownCompletes, ShutdownExpires, Exit, Over,
      Leave, DoneWith, storeVars, procVars, ctxVars, chanVars, flightVars,
      callerVars, scanVars, workVars

\* A process that ended leaves nothing in memory, and only Start begins a
\* new one.
LEMMA DownStays == IInv /\ [Next]_vars => (proc # "up" => NoProcess)'
<1> SUFFICES ASSUME IInv, [Next]_vars PROVE (proc # "up" => NoProcess)'
  OBVIOUS
<1> USE ConstantsAssumption
<1>0. ScanTypeOK /\ (proc # "up" => NoProcess)
  BY DEF IInv, TypeOK, Shape
<1>1. ASSUME NEW how, ProcessEnds(how) PROVE NoProcess'
  BY <1>1 DEF ProcessEnds, NoProcess, Volatile
<1>2. CASE proc = "up" /\ proc' # "up"
  <2>1. \E how \in {"down", "panicWait", "panicSend"} : ProcessEnds(how)
    BY <1>2 DEF Next, Scan, Work, Drain, vars, Start, Crash, Signal, Record,
       PollerWakes,
        PollerStops, CallDrain, DrainExpires, WaiterCalls, WaiterReturns,
        DrainReturns,
        AcquireDrainMu, List, NextReaction, EndOfList, Claim, Decode, Reject, Send,
        SendCancelled, WorkerBegins, WorkerTakes, WorkerExits, HandlerReturns, Mark,
        Finish, CallShutdown, CloseJobs, ShutdownCompletes, ShutdownExpires, Exit,
        Over,
        procVars
  <2> QED
    BY <1>1, <2>1
<1>3. CASE proc # "up" /\ proc' # "up"
  <2>1. UNCHANGED vars
    BY <1>0, <1>3 DEF NoProcess, Next, Scan, Work, Drain, Start, Crash, Signal,
       Record, PollerWakes,
        PollerStops, CallDrain, DrainExpires, WaiterCalls, WaiterReturns,
        DrainReturns,
        AcquireDrainMu, List, NextReaction, EndOfList, Claim, Decode, Reject, Send,
        SendCancelled, WorkerBegins, WorkerTakes, WorkerExits, HandlerReturns, Mark,
        Finish, CallShutdown, CloseJobs, ShutdownCompletes, ShutdownExpires, Exit,
        Over, Scanners, ScanTypeOK
  <2> QED
    BY <1>0, <1>3, <2>1 DEF vars, NoProcess, procVars, ctxVars, chanVars,
       flightVars, callerVars, scanVars, workVars
<1> QED
  BY <1>2, <1>3

\* current names a reaction exactly while the holder of drainMu is inside
\* enqueue, and a busy worker has a job.
LEMMA ShapeStep == IInv /\ [Next]_vars => WellFormed'
<1> SUFFICES ASSUME IInv, [Next]_vars PROVE WellFormed'
  OBVIOUS
<1> USE ConstantsAssumption
<1>0. Shape /\ ScanTypeOK /\ WorkTypeOK /\ ChanTypeOK
  BY DEF IInv, TypeOK
<1>1. CASE Start
  BY <1>0, <1>1 DEF Start, ResetRunning, Shape, ScanTypeOK, WellFormed, Busy,
      scanVars, workVars, WorkTypeOK
<1>2. ASSUME NEW s \in Scanners, AcquireDrainMu(s) PROVE WellFormed'
  BY <1>0, <1>2 DEF AcquireDrainMu, Shape, ScanTypeOK, WellFormed, Busy,
      scanVars, workVars, Scanners
<1>3. ASSUME NEW s \in Scanners, List(s) PROVE WellFormed'
  BY <1>0, <1>3 DEF List, Leave, Refused, Fault, Shape, ScanTypeOK,
      WellFormed, Busy, scanVars, workVars
<1>4. ASSUME NEW s \in Scanners, NextReaction(s) PROVE WellFormed'
  BY <1>0, <1>4 DEF NextReaction, Shape, ScanTypeOK, WellFormed, Busy,
      scanVars, workVars, Oldest, Scanners
<1>5. ASSUME NEW s \in Scanners, EndOfList(s) PROVE WellFormed'
  BY <1>0, <1>5 DEF EndOfList, Leave, Shape, ScanTypeOK, WellFormed, Busy,
      scanVars, workVars
<1>6. ASSUME NEW s \in Scanners, Claim(s) PROVE WellFormed'
  BY <1>0, <1>6 DEF Claim, Refused, Fault, DoneWith, Shape, ScanTypeOK,
      WellFormed, Busy, scanVars, workVars
<1>7. ASSUME NEW s \in Scanners, Decode(s) PROVE WellFormed'
  BY <1>0, <1>7 DEF Decode, DoneWith, Shape, ScanTypeOK, WellFormed, Busy,
      scanVars, workVars
<1>8. ASSUME NEW s \in Scanners, Reject(s) PROVE WellFormed'
  BY <1>0, <1>8 DEF Reject, Refused, Fault, MarkReaction, Shape, ScanTypeOK,
      WellFormed, Busy, scanVars, workVars
<1>9. ASSUME NEW s \in Scanners, Send(s) PROVE WellFormed'
  BY <1>0, <1>9 DEF Send, Shape, ScanTypeOK, WellFormed, Busy, scanVars,
      workVars
<1>10. ASSUME NEW s \in Scanners, SendCancelled(s) PROVE WellFormed'
  BY <1>0, <1>10 DEF SendCancelled, DoneWith, Shape, ScanTypeOK, WellFormed,
      Busy, scanVars, workVars
<1>11. ASSUME NEW w \in Workers, WorkerBegins(w) PROVE WellFormed'
  BY <1>0, <1>11 DEF WorkerBegins, Shape, ScanTypeOK, WellFormed, Busy,
      scanVars, workVars, WorkTypeOK
<1>12. ASSUME NEW w \in Workers, WorkerTakes(w) PROVE WellFormed'
  BY <1>0, <1>12, Received DEF WorkerTakes, Shape, ScanTypeOK, WellFormed,
      Busy, scanVars, workVars, ChanTypeOK, WorkTypeOK
<1>13. ASSUME NEW w \in Workers, WorkerExits(w) PROVE WellFormed'
  BY <1>0, <1>13 DEF WorkerExits, Shape, ScanTypeOK, WellFormed, Busy,
      scanVars, workVars, WorkTypeOK
<1>14. ASSUME NEW w \in Workers, HandlerReturns(w) PROVE WellFormed'
  BY <1>0, <1>14 DEF HandlerReturns, Shape, ScanTypeOK, WellFormed, Busy,
      scanVars, workVars, WorkTypeOK
<1>15. ASSUME NEW w \in Workers, Mark(w) PROVE WellFormed'
  BY <1>0, <1>15 DEF Mark, Refused, Fault, MarkReaction, Verdict, Shape,
      ScanTypeOK, WellFormed, Busy, scanVars, workVars, WorkTypeOK
<1>16. ASSUME NEW w \in Workers, Finish(w) PROVE WellFormed'
  BY <1>0, <1>16 DEF Finish, DoneWith, Shape, ScanTypeOK, WellFormed, Busy,
      scanVars, workVars, WorkTypeOK
<1>17. ASSUME NEW how, how # "up", ProcessEnds(how) PROVE WellFormed'
  BY <1>0, <1>17 DEF ProcessEnds, Volatile, Shape, ScanTypeOK, WellFormed,
      Busy, scanVars, workVars
<1>18. CASE UNCHANGED <<scanVars, workVars>>
  BY <1>0, <1>18 DEF Shape, ScanTypeOK, WellFormed, Busy, scanVars, workVars
<1> QED
  BY <1>1, <1>2, <1>3, <1>4, <1>5, <1>6, <1>7, <1>8, <1>9, <1>10, <1>11,
      <1>12, <1>13, <1>14, <1>15, <1>16, <1>17, <1>18
  DEF Next, Scan, Work, Drain, vars, Crash, Signal, Record, PollerWakes,
      PollerStops, CallDrain, DrainExpires, WaiterCalls, WaiterReturns,
      DrainReturns, CallShutdown, CloseJobs, ShutdownCompletes,
      ShutdownExpires, Exit, Over, Leave, DoneWith, storeVars, procVars,
      ctxVars, chanVars, flightVars, callerVars, scanVars, workVars

\* The jobs channel after the holder of drainMu sent its reaction.
LEMMA SendEffect ==
  ASSUME IInv, NEW s \in Scanners, Send(s)
  PROVE  /\ Len(jobs') = Len(jobs) + 1 /\ Len(jobs) \in Nat
         /\ \A i \in 1..Len(jobs) : jobs'[i] = jobs[i]
         /\ jobs'[Len(jobs) + 1].r = current
<1>1. jobs \in Seq(Job) /\ jobs' = Append(jobs, [r |-> current, by |-> s])
  BY DEF IInv, TypeOK, ChanTypeOK, Send
<1> QED
  BY <1>1

\* The jobs channel, the worker and the call count after a worker received
\* a job.
LEMMA TakeEffect ==
  ASSUME IInv, NEW w \in Workers, WorkerTakes(w)
  PROVE  /\ Len(jobs) = Len(jobs') + 1 /\ Len(jobs') \in Nat
         /\ \A i \in 1..Len(jobs') : jobs'[i] = jobs[i + 1]
         /\ Head(jobs) = jobs[1] /\ Head(jobs) \in Job
         /\ job' = [job EXCEPT ![w] = jobs[1]]
         /\ wpc' = [wpc EXCEPT ![w] = "run"]
         /\ calls' = [calls EXCEPT ![jobs[1].r] = @ + 1]
<1>1. jobs \in Seq(Job) /\ jobs # <<>> /\ jobs' = Tail(jobs)
  BY DEF IInv, TypeOK, ChanTypeOK, WorkerTakes
<1>2. Head(jobs) = jobs[1]
  BY <1>1
<1>3. /\ Len(jobs) = Len(jobs') + 1 /\ Len(jobs') \in Nat
      /\ \A i \in 1..Len(jobs') : jobs'[i] = jobs[i + 1]
  BY <1>1
<1>4. Head(jobs) \in Job
  BY <1>1, Received
<1> QED
  BY <1>2, <1>3, <1>4 DEF WorkerTakes

\* No step puts a second holder on a reaction: NextReaction takes only a
\* reaction that is not in flight, every other step hands it on.
LEMMA OnceStep == IInv /\ [Next]_vars => WorkedOnOnce'
<1> SUFFICES ASSUME IInv, [Next]_vars PROVE WorkedOnOnce'
  OBVIOUS
<1> USE ConstantsAssumption
<1>0. TypeOK /\ Shape /\ WorkedOnOnce /\ HeldInFlight
  BY DEF IInv
<1>1. CASE Start
  BY <1>0, <1>1 DEF Start, ResetRunning, WorkedOnOnce, QueuedAt, RunBy, Busy,
      scanVars, workVars, chanVars, TypeOK, ChanTypeOK, ScanTypeOK,
      WorkTypeOK, Shape, WellFormed, NoProcess
<1>2. ASSUME NEW s \in Scanners, List(s) PROVE WorkedOnOnce'
  BY <1>0, <1>2 DEF List, Leave, Refused, Fault, WorkedOnOnce, QueuedAt,
      RunBy, Busy, scanVars, workVars, chanVars, TypeOK, ChanTypeOK,
      ScanTypeOK, WorkTypeOK, Shape, WellFormed
<1>3. ASSUME NEW s \in Scanners, NextReaction(s) PROVE WorkedOnOnce'
  <2>1. CASE UNCHANGED current
    BY <1>0, <1>3, <2>1 DEF NextReaction, WorkedOnOnce, QueuedAt, RunBy, chanVars,
       workVars
  <2>2. CASE ~UNCHANGED current
    <3>1. current' \in Reactions \ inFlight
      BY <1>0, <1>3, <2>2 DEF NextReaction, Oldest, TypeOK, ScanTypeOK
    <3>2. UNCHANGED <<jobs, wpc, job>>
      BY <1>3 DEF NextReaction, chanVars, workVars
    <3>3. \A r \in Reactions \ inFlight : QueuedAt(r) = {} /\ RunBy(r) = {}
      BY <1>0 DEF HeldInFlight, QueuedAt, RunBy
    <3> QED
      BY <1>0, <3>1, <3>2, <3>3 DEF WorkedOnOnce, QueuedAt, RunBy
  <2> QED
    BY <2>1, <2>2
<1>4. ASSUME NEW s \in Scanners, EndOfList(s) PROVE WorkedOnOnce'
  BY <1>0, <1>4 DEF EndOfList, Leave, WorkedOnOnce, QueuedAt, RunBy, Busy,
      scanVars, workVars, chanVars, TypeOK, ChanTypeOK, ScanTypeOK,
      WorkTypeOK, Shape, WellFormed
<1>5. ASSUME NEW s \in Scanners, Claim(s) PROVE WorkedOnOnce'
  BY <1>0, <1>5 DEF Claim, Refused, Fault, DoneWith, WorkedOnOnce, QueuedAt,
      RunBy, Busy, scanVars, workVars, chanVars, TypeOK, ChanTypeOK,
      ScanTypeOK, WorkTypeOK, Shape, WellFormed
<1>6. ASSUME NEW s \in Scanners, Reject(s) PROVE WorkedOnOnce'
  BY <1>0, <1>6 DEF Reject, Refused, Fault, MarkReaction, WorkedOnOnce,
      QueuedAt, RunBy, Busy, scanVars, workVars, chanVars, TypeOK, ChanTypeOK,
      ScanTypeOK, WorkTypeOK, Shape, WellFormed
<1>7. ASSUME NEW s \in Scanners, Send(s) PROVE WorkedOnOnce'
  <2>c. PICK c \in Reactions : c = current
    BY <1>0, <1>7 DEF Send, Shape, WellFormed
  <2>1. /\ current' = None /\ UNCHANGED <<wpc, job>>
        /\ None \notin Reactions
    BY <1>0, <1>7 DEF Send, workVars
  <2>0. /\ Len(jobs') = Len(jobs) + 1 /\ Len(jobs) \in Nat
        /\ \A i \in 1..Len(jobs) : jobs'[i] = jobs[i]
        /\ jobs'[Len(jobs) + 1].r = c
    BY <1>7, <2>c, SendEffect
  <2>2. QueuedAt(c) = {} /\ RunBy(c) = {}
    BY <1>0, <2>c DEF WorkedOnOnce
  <2>3. \A r \in Reactions : RunBy(r)' = RunBy(r)
    BY <2>1 DEF RunBy
  <2>4. \A i \in 1..Len(jobs') : i \in 1..Len(jobs) \/ i = Len(jobs) + 1
    BY <2>0
  <2>5. \A i \in QueuedAt(c)' : i = Len(jobs) + 1
    BY <2>0, <2>2, <2>4 DEF QueuedAt
  <2>6. \A r \in Reactions \ {c} : QueuedAt(r)' \subseteq QueuedAt(r)
    BY <2>0, <2>4 DEF QueuedAt
  <2>7. ASSUME NEW r \in Reactions PROVE \A i, j \in QueuedAt(r)' : i = j
    <3>1. CASE r = c
      BY <2>5, <3>1
    <3>2. CASE r # c
      BY <1>0, <2>6, <3>2 DEF WorkedOnOnce
    <3> QED
      BY <3>1, <3>2
  <2>8. ASSUME NEW r \in Reactions, RunBy(r)' # {} PROVE QueuedAt(r)' = {}
    BY <1>0, <2>2, <2>3, <2>6, <2>8 DEF WorkedOnOnce
  <2>9. ASSUME NEW r \in Reactions PROVE \A v, u \in RunBy(r)' : v = u
    BY <1>0, <2>3 DEF WorkedOnOnce
  <2> QED
    BY <2>1, <2>7, <2>8, <2>9 DEF WorkedOnOnce
<1>8. ASSUME NEW s \in Scanners, SendCancelled(s) PROVE WorkedOnOnce'
  BY <1>0, <1>8 DEF SendCancelled, DoneWith, WorkedOnOnce, QueuedAt, RunBy,
      Busy, scanVars, workVars, chanVars, TypeOK, ChanTypeOK, ScanTypeOK,
      WorkTypeOK, Shape, WellFormed
<1>9. ASSUME NEW w \in Workers, WorkerBegins(w) PROVE WorkedOnOnce'
  BY <1>0, <1>9 DEF WorkerBegins, WorkedOnOnce, QueuedAt, RunBy, Busy,
      scanVars, workVars, chanVars, TypeOK, ChanTypeOK, ScanTypeOK,
      WorkTypeOK, Shape, WellFormed
<1>10. ASSUME NEW w \in Workers, WorkerTakes(w) PROVE WorkedOnOnce'
  <2>0. /\ Len(jobs) = Len(jobs') + 1 /\ Len(jobs') \in Nat
        /\ \A i \in 1..Len(jobs') : jobs'[i] = jobs[i + 1]
        /\ jobs[1] \in Job /\ job' = [job EXCEPT ![w] = jobs[1]]
        /\ wpc' = [wpc EXCEPT ![w] = "run"] /\ wpc[w] = "idle"
        /\ UNCHANGED current
    BY <1>10, TakeEffect DEF WorkerTakes, scanVars
  <2>h. PICK h \in Reactions : h = jobs[1].r
    BY <2>0 DEF Job
  <2>1. 1 \in QueuedAt(h)
    BY <2>0, <2>h DEF QueuedAt
  <2>2. QueuedAt(h) = {1} /\ RunBy(h) = {} /\ current # h
    BY <1>0, <2>1 DEF WorkedOnOnce
  <2>3. \A r \in Reactions : \A i \in QueuedAt(r)' : i + 1 \in QueuedAt(r) /\ i \in Nat \ {0}
    BY <2>0 DEF QueuedAt
  <2>4. QueuedAt(h)' = {}
    BY <2>1, <2>2, <2>3
  <2>5. \A v \in RunBy(h)' : v = w
    BY <1>0, <2>0, <2>2 DEF RunBy, Busy, TypeOK, WorkTypeOK
  <2>6. \A r \in Reactions \ {h} : RunBy(r)' = RunBy(r)
    BY <1>0, <2>0, <2>h DEF RunBy, Busy, TypeOK, WorkTypeOK
  <2>7. \A r \in Reactions : \A i, j \in QueuedAt(r)' : i = j
    <3>1. ASSUME NEW r \in Reactions, NEW i \in QueuedAt(r)', NEW j \in QueuedAt(r)'
          PROVE  i = j
      <4>1. i + 1 = j + 1
        BY <1>0, <2>3 DEF WorkedOnOnce
      <4> QED
        BY <2>3, <4>1
    <3> QED
      BY <3>1
  <2>8. \A r \in Reactions \ {h} : QueuedAt(r)' # {} => QueuedAt(r) # {}
    BY <2>3
  <2>9. ASSUME NEW r \in Reactions
        PROVE /\ \A u, v \in RunBy(r)' : u = v
              /\ RunBy(r)' # {} => QueuedAt(r)' = {}
              /\ current' = r => RunBy(r)' = {} /\ QueuedAt(r)' = {}
    <3>1. CASE r = h
      BY <2>0, <2>2, <2>4, <2>5, <3>1
    <3>2. CASE r # h
      BY <1>0, <2>0, <2>6, <2>8, <3>2 DEF WorkedOnOnce
    <3> QED
      BY <3>1, <3>2
  <2> QED
    BY <2>7, <2>9 DEF WorkedOnOnce
<1>11. ASSUME NEW w \in Workers, WorkerExits(w) PROVE WorkedOnOnce'
  BY <1>0, <1>11 DEF WorkerExits, WorkedOnOnce, QueuedAt, RunBy, Busy,
      scanVars, workVars, chanVars, TypeOK, ChanTypeOK, ScanTypeOK,
      WorkTypeOK, Shape, WellFormed
<1>12. ASSUME NEW w \in Workers, HandlerReturns(w) PROVE WorkedOnOnce'
  BY <1>0, <1>12 DEF HandlerReturns, WorkedOnOnce, QueuedAt, RunBy, Busy,
      scanVars, workVars, chanVars, TypeOK, ChanTypeOK, ScanTypeOK,
      WorkTypeOK, Shape, WellFormed
<1>13. ASSUME NEW w \in Workers, Mark(w) PROVE WorkedOnOnce'
  BY <1>0, <1>13 DEF Mark, Refused, Fault, MarkReaction, Verdict,
      WorkedOnOnce, QueuedAt, RunBy, Busy, scanVars, workVars, chanVars,
      TypeOK, ChanTypeOK, ScanTypeOK, WorkTypeOK, Shape, WellFormed
<1>14. ASSUME NEW w \in Workers, Finish(w) PROVE WorkedOnOnce'
  BY <1>0, <1>14 DEF Finish, DoneWith, WorkedOnOnce, QueuedAt, RunBy, Busy,
      scanVars, workVars, chanVars, TypeOK, ChanTypeOK, ScanTypeOK,
      WorkTypeOK, Shape, WellFormed
<1>15. ASSUME NEW how, how # "up", ProcessEnds(how) PROVE WorkedOnOnce'
  BY <1>0, <1>15 DEF ProcessEnds, Volatile, WorkedOnOnce, QueuedAt, RunBy,
      Busy, scanVars, workVars, chanVars, TypeOK, ChanTypeOK, ScanTypeOK,
      WorkTypeOK, Shape, WellFormed
<1>16. CASE UNCHANGED <<current, jobs, wpc, job>>
  BY <1>0, <1>16 DEF chanVars, scanVars, workVars, WorkedOnOnce, QueuedAt,
      RunBy, Busy, scanVars, workVars, chanVars, TypeOK, ChanTypeOK,
      ScanTypeOK, WorkTypeOK, Shape, WellFormed
<1> QED
  BY <1>1, <1>2, <1>3, <1>4, <1>5, <1>6, <1>7, <1>8, <1>9, <1>10, <1>11,
      <1>12, <1>13, <1>14, <1>15, <1>16
  DEF Next, Scan, Work, Drain, vars, Crash, Signal, Record, PollerWakes,
      PollerStops, CallDrain, DrainExpires, WaiterCalls, WaiterReturns,
      DrainReturns, AcquireDrainMu, Decode, CallShutdown, CloseJobs,
      ShutdownCompletes, ShutdownExpires, Exit, Over, Leave, DoneWith,
      storeVars, procVars, ctxVars, chanVars, flightVars, callerVars,
      scanVars, workVars

\* One slot of the channel, one worker or the enqueueing scanner for each
\* reaction.
Exclusive ==
  /\ \A i \in 1..Len(jobs) : jobs[i].r \in Reactions
  /\ \A w \in Workers : wpc[w] \in Busy => job[w].r \in Reactions
  /\ \A i, j \in 1..Len(jobs) : jobs[i].r = jobs[j].r => i = j
  /\ \A v, w \in Workers :
       wpc[v] \in Busy /\ wpc[w] \in Busy /\ job[v].r = job[w].r => v = w
  /\ \A w \in Workers, i \in 1..Len(jobs) : wpc[w] \in Busy => jobs[i].r # job[w].r
  /\ \A i \in 1..Len(jobs) : jobs[i].r # current
  /\ \A w \in Workers : wpc[w] \in Busy => job[w].r # current

\* WorkedOnOnce said of slots and workers instead of reactions, the form
\* in which the steps below use it.
LEMMA ExclusiveHolds == IInv => Exclusive
<1> SUFFICES ASSUME IInv PROVE Exclusive
  OBVIOUS
<1>1. \A i \in 1..Len(jobs) : jobs[i] \in Job
  BY DEF IInv, TypeOK, ChanTypeOK
<1>2. /\ \A i \in 1..Len(jobs) : jobs[i].r \in Reactions /\ i \in QueuedAt(jobs[i].r)
      /\ \A w \in Workers : wpc[w] \in Busy => job[w].r \in Reactions /\ w \in RunBy(job[w].r)
  BY <1>1 DEF IInv, Shape, WellFormed, Job, QueuedAt, RunBy
<1> QED
  BY <1>2 DEF IInv, WorkedOnOnce, Exclusive

\* A reaction that is enqueued, queued or run stays in d.inFlight: only
\* its own holder clears it.
LEMMA HeldStep == IInv /\ [Next]_vars => HeldInFlight'
<1> SUFFICES ASSUME IInv, [Next]_vars PROVE HeldInFlight'
  OBVIOUS
<1> USE ConstantsAssumption
<1>0. Exclusive /\ TypeOK /\ Shape /\ HeldInFlight
  BY ExclusiveHolds DEF IInv
<1>1. CASE Start
  BY <1>0, <1>1 DEF Start, ResetRunning, HeldInFlight, Exclusive, Shape,
      WellFormed, scanVars, workVars, chanVars, flightVars, Busy, NoProcess,
      TypeOK, WorkTypeOK
<1>2. ASSUME NEW s \in Scanners, List(s) PROVE HeldInFlight'
  BY <1>0, <1>2 DEF List, Leave, Refused, Fault, HeldInFlight, Exclusive,
      Shape, WellFormed, scanVars, workVars, chanVars, flightVars, Busy
<1>3. ASSUME NEW s \in Scanners, NextReaction(s) PROVE HeldInFlight'
  BY <1>0, <1>3 DEF NextReaction, HeldInFlight, Exclusive, Shape, WellFormed,
      scanVars, workVars, chanVars, flightVars, Busy, Oldest
<1>4. ASSUME NEW s \in Scanners, EndOfList(s) PROVE HeldInFlight'
  BY <1>0, <1>4 DEF EndOfList, Leave, HeldInFlight, Exclusive, Shape,
      WellFormed, scanVars, workVars, chanVars, flightVars, Busy
<1>5. ASSUME NEW s \in Scanners, Claim(s) PROVE HeldInFlight'
  BY <1>0, <1>5 DEF Claim, Refused, Fault, DoneWith, HeldInFlight, Exclusive,
      Shape, WellFormed, scanVars, workVars, chanVars, flightVars, Busy
<1>6. ASSUME NEW s \in Scanners, Decode(s) PROVE HeldInFlight'
  BY <1>0, <1>6 DEF Decode, DoneWith, HeldInFlight, Exclusive, Shape,
      WellFormed, scanVars, workVars, chanVars, flightVars, Busy
<1>7. ASSUME NEW s \in Scanners, Reject(s) PROVE HeldInFlight'
  BY <1>0, <1>7 DEF Reject, Refused, Fault, MarkReaction, HeldInFlight,
      Exclusive, Shape, WellFormed, scanVars, workVars, chanVars, flightVars,
      Busy
<1>8. ASSUME NEW s \in Scanners, Send(s) PROVE HeldInFlight'
  <2>0. /\ Len(jobs') = Len(jobs) + 1 /\ Len(jobs) \in Nat
        /\ \A i \in 1..Len(jobs) : jobs'[i] = jobs[i]
        /\ jobs'[Len(jobs) + 1].r = current
    BY <1>8, SendEffect
  <2>1. \A i \in 1..Len(jobs') : i \in 1..Len(jobs) \/ i = Len(jobs) + 1
    BY <2>0
  <2> QED
    BY <1>0, <1>8, <2>0, <2>1 DEF Send, HeldInFlight, Exclusive, Shape,
       WellFormed, scanVars, workVars, chanVars, flightVars, Busy
<1>9. ASSUME NEW s \in Scanners, SendCancelled(s) PROVE HeldInFlight'
  BY <1>0, <1>9 DEF SendCancelled, DoneWith, HeldInFlight, Exclusive, Shape,
      WellFormed, scanVars, workVars, chanVars, flightVars, Busy
<1>10. ASSUME NEW w \in Workers, WorkerBegins(w) PROVE HeldInFlight'
  BY <1>0, <1>10 DEF WorkerBegins, HeldInFlight, Exclusive, Shape, WellFormed,
      scanVars, workVars, chanVars, flightVars, Busy, TypeOK, WorkTypeOK
<1>11. ASSUME NEW w \in Workers, WorkerTakes(w) PROVE HeldInFlight'
  <2>0. /\ Len(jobs) = Len(jobs') + 1 /\ Len(jobs') \in Nat
        /\ \A i \in 1..Len(jobs') : jobs'[i] = jobs[i + 1]
        /\ jobs[1] \in Job /\ job' = [job EXCEPT ![w] = jobs[1]]
        /\ wpc' = [wpc EXCEPT ![w] = "run"]
        /\ calls' = [calls EXCEPT ![jobs[1].r] = @ + 1]
    BY <1>11, TakeEffect
  <2>1. 1 \in 1..Len(jobs) /\ \A i \in 1..Len(jobs') : i + 1 \in 2..Len(jobs)
    BY <2>0
  <2> QED
    BY <1>0, <1>11, <2>0, <2>1 DEF WorkerTakes, TypeOK, WorkTypeOK, HeldInFlight,
       Exclusive, Shape, WellFormed, scanVars, workVars, chanVars, flightVars,
       Busy
<1>12. ASSUME NEW w \in Workers, WorkerExits(w) PROVE HeldInFlight'
  BY <1>0, <1>12 DEF WorkerExits, HeldInFlight, Exclusive, Shape, WellFormed,
      scanVars, workVars, chanVars, flightVars, Busy, TypeOK, WorkTypeOK
<1>13. ASSUME NEW w \in Workers, HandlerReturns(w) PROVE HeldInFlight'
  BY <1>0, <1>13 DEF HandlerReturns, HeldInFlight, Exclusive, Shape,
      WellFormed, scanVars, workVars, chanVars, flightVars, Busy, TypeOK,
      WorkTypeOK
<1>14. ASSUME NEW w \in Workers, Mark(w) PROVE HeldInFlight'
  BY <1>0, <1>14 DEF Mark, Refused, Fault, MarkReaction, Verdict,
      HeldInFlight, Exclusive, Shape, WellFormed, scanVars, workVars,
      chanVars, flightVars, Busy, TypeOK, WorkTypeOK
<1>15. ASSUME NEW w \in Workers, Finish(w) PROVE HeldInFlight'
  BY <1>0, <1>15 DEF Finish, DoneWith, HeldInFlight, Exclusive, Shape,
      WellFormed, scanVars, workVars, chanVars, flightVars, Busy, TypeOK,
      WorkTypeOK
<1>16. ASSUME NEW how, how # "up", ProcessEnds(how) PROVE HeldInFlight'
  BY <1>0, <1>16, NoJobs DEF ProcessEnds, Volatile, HeldInFlight, Exclusive,
      Shape, WellFormed, scanVars, workVars, chanVars, flightVars, Busy
<1>17. CASE UNCHANGED <<step, current, inFlight, jobs, wpc, job>>
  BY <1>0, <1>17 DEF HeldInFlight, Exclusive, Shape, WellFormed, scanVars,
      workVars, chanVars, flightVars, Busy
<1> QED
  BY <1>1, <1>2, <1>3, <1>4, <1>5, <1>6, <1>7, <1>8, <1>9, <1>10, <1>11,
      <1>12, <1>13, <1>14, <1>15, <1>16, <1>17
  DEF Next, Scan, Work, Drain, vars, Crash, Signal, Record, PollerWakes,
      PollerStops, CallDrain, DrainExpires, WaiterCalls, WaiterReturns,
      DrainReturns, AcquireDrainMu, CallShutdown, CloseJobs,
      ShutdownCompletes, ShutdownExpires, Exit, Over, Leave, DoneWith,
      storeVars, procVars, ctxVars, chanVars, flightVars, callerVars,
      scanVars, workVars

\* From its claim until its attempt is marked a row stays running: marks
\* and rejections write rows that nobody else holds.
LEMMA RunningStep == IInv /\ [Next]_vars => ClaimedIsRunning'
<1> SUFFICES ASSUME IInv, [Next]_vars PROVE ClaimedIsRunning'
  OBVIOUS
<1> USE ConstantsAssumption
<1>0. Exclusive /\ TypeOK /\ Shape /\ ClaimedIsRunning
  BY ExclusiveHolds DEF IInv
<1>1. ASSUME NEW e \in Events, Record(e) PROVE ClaimedIsRunning'
  BY <1>0, <1>1 DEF Record, Dispatch, RecordEventReactions, NewEvent, Notify,
      ClaimedIsRunning, Exclusive, Shape, WellFormed, scanVars, workVars,
      chanVars, storeVars, Busy, TypeOK, StoreTypeOK
<1>2. CASE Start
  BY <1>0, <1>2 DEF Start, ResetRunning, ClaimedIsRunning, Exclusive, Shape,
      WellFormed, scanVars, workVars, chanVars, storeVars, Busy, NoProcess,
      TypeOK, WorkTypeOK
<1>3. ASSUME NEW s \in Scanners, List(s) PROVE ClaimedIsRunning'
  BY <1>0, <1>3 DEF List, Leave, Refused, Fault, ClaimedIsRunning, Exclusive,
      Shape, WellFormed, scanVars, workVars, chanVars, storeVars, Busy
<1>4. ASSUME NEW s \in Scanners, NextReaction(s) PROVE ClaimedIsRunning'
  BY <1>0, <1>4 DEF NextReaction, ClaimedIsRunning, Exclusive, Shape,
      WellFormed, scanVars, workVars, chanVars, storeVars, Busy
<1>5. ASSUME NEW s \in Scanners, EndOfList(s) PROVE ClaimedIsRunning'
  BY <1>0, <1>5 DEF EndOfList, Leave, ClaimedIsRunning, Exclusive, Shape,
      WellFormed, scanVars, workVars, chanVars, storeVars, Busy
<1>6. ASSUME NEW s \in Scanners, Claim(s) PROVE ClaimedIsRunning'
  BY <1>0, <1>6 DEF Claim, Refused, Fault, DoneWith, ClaimedIsRunning,
      Exclusive, Shape, WellFormed, scanVars, workVars, chanVars, storeVars,
      Busy, TypeOK, StoreTypeOK
<1>7. ASSUME NEW s \in Scanners, Decode(s) PROVE ClaimedIsRunning'
  BY <1>0, <1>7 DEF Decode, DoneWith, ClaimedIsRunning, Exclusive, Shape,
      WellFormed, scanVars, workVars, chanVars, storeVars, Busy
<1>8. ASSUME NEW s \in Scanners, Reject(s) PROVE ClaimedIsRunning'
  <2>1. \A r \in Reactions \ {current} : row'[r] = row[r]
    BY <1>0, <1>8 DEF Reject, MarkReaction, TypeOK, StoreTypeOK
  <2>2. UNCHANGED <<jobs, wpc, job>> /\ step' = "next"
    BY <1>8 DEF Reject, chanVars, workVars
  <2> QED
    BY <1>0, <2>1, <2>2 DEF ClaimedIsRunning, Exclusive, Busy
<1>9. ASSUME NEW s \in Scanners, Send(s) PROVE ClaimedIsRunning'
  <2>0. /\ Len(jobs') = Len(jobs) + 1 /\ Len(jobs) \in Nat
        /\ \A i \in 1..Len(jobs) : jobs'[i] = jobs[i]
        /\ jobs'[Len(jobs) + 1].r = current
    BY <1>9, SendEffect
  <2>1. \A i \in 1..Len(jobs') : i \in 1..Len(jobs) \/ i = Len(jobs) + 1
    BY <2>0
  <2> QED
    BY <1>0, <1>9, <2>0, <2>1 DEF Send, ClaimedIsRunning, Exclusive, Shape,
       WellFormed, scanVars, workVars, chanVars, storeVars, Busy
<1>10. ASSUME NEW s \in Scanners, SendCancelled(s) PROVE ClaimedIsRunning'
  BY <1>0, <1>10 DEF SendCancelled, DoneWith, ClaimedIsRunning, Exclusive,
      Shape, WellFormed, scanVars, workVars, chanVars, storeVars, Busy
<1>11. ASSUME NEW w \in Workers, WorkerBegins(w) PROVE ClaimedIsRunning'
  BY <1>0, <1>11 DEF WorkerBegins, ClaimedIsRunning, Exclusive, Shape,
      WellFormed, scanVars, workVars, chanVars, storeVars, Busy, TypeOK,
      WorkTypeOK
<1>12. ASSUME NEW w \in Workers, WorkerTakes(w) PROVE ClaimedIsRunning'
  <2>0. /\ Len(jobs) = Len(jobs') + 1 /\ Len(jobs') \in Nat
        /\ \A i \in 1..Len(jobs') : jobs'[i] = jobs[i + 1]
        /\ jobs[1] \in Job /\ job' = [job EXCEPT ![w] = jobs[1]]
        /\ wpc' = [wpc EXCEPT ![w] = "run"]
        /\ calls' = [calls EXCEPT ![jobs[1].r] = @ + 1]
    BY <1>12, TakeEffect
  <2>1. 1 \in 1..Len(jobs) /\ \A i \in 1..Len(jobs') : i + 1 \in 2..Len(jobs)
    BY <2>0
  <2> QED
    BY <1>0, <1>12, <2>0, <2>1 DEF WorkerTakes, TypeOK, WorkTypeOK,
       ClaimedIsRunning, Exclusive, Shape, WellFormed, scanVars, workVars,
       chanVars, storeVars, Busy
<1>13. ASSUME NEW w \in Workers, WorkerExits(w) PROVE ClaimedIsRunning'
  BY <1>0, <1>13 DEF WorkerExits, ClaimedIsRunning, Exclusive, Shape,
      WellFormed, scanVars, workVars, chanVars, storeVars, Busy, TypeOK,
      WorkTypeOK
<1>14. ASSUME NEW w \in Workers, HandlerReturns(w) PROVE ClaimedIsRunning'
  BY <1>0, <1>14 DEF HandlerReturns, ClaimedIsRunning, Exclusive, Shape,
      WellFormed, scanVars, workVars, chanVars, storeVars, Busy, TypeOK,
      WorkTypeOK
<1>15. ASSUME NEW w \in Workers, Mark(w) PROVE ClaimedIsRunning'
  <2>1. \A r \in Reactions \ {job[w].r} : row'[r] = row[r]
    BY <1>0, <1>15 DEF Mark, MarkReaction, Verdict, TypeOK, StoreTypeOK
  <2>2. /\ UNCHANGED <<jobs, job, step, current>> /\ wpc[w] \in Busy
        /\ wpc' = [wpc EXCEPT ![w] = "finish"]
    BY <1>15 DEF Mark, chanVars, scanVars, Busy
  <2>3. step \in {"decode", "reject", "send", "sendNil"} => current \in Reactions
    BY <1>0 DEF Shape, WellFormed
  <2>4. step' \in {"decode", "reject", "send", "sendNil"} => row'[current'] = "running"
    BY <1>0, <2>1, <2>2, <2>3 DEF ClaimedIsRunning, Exclusive
  <2>5. \A i \in 1..Len(jobs') : row'[jobs'[i].r] = "running"
    BY <1>0, <2>1, <2>2, ZenonT(40) DEF ClaimedIsRunning, Exclusive
  <2>6. ASSUME NEW v \in Workers, wpc'[v] \in {"run", "ok", "err"}
        PROVE  row'[job'[v].r] = "running"
    <3>1. v # w /\ wpc[v] = wpc'[v]
      BY <1>0, <2>2, <2>6 DEF TypeOK, WorkTypeOK
    <3>2. job[v].r \in Reactions \ {job[w].r}
      BY <1>0, <2>2, <2>6, <3>1 DEF Exclusive, Busy
    <3> QED
      BY <1>0, <2>1, <2>2, <2>6, <3>1, <3>2 DEF ClaimedIsRunning
  <2> QED
    BY <2>4, <2>5, <2>6 DEF ClaimedIsRunning
<1>16. ASSUME NEW w \in Workers, Finish(w) PROVE ClaimedIsRunning'
  BY <1>0, <1>16 DEF Finish, DoneWith, ClaimedIsRunning, Exclusive, Shape,
      WellFormed, scanVars, workVars, chanVars, storeVars, Busy, TypeOK,
      WorkTypeOK
<1>17. ASSUME NEW how, how # "up", ProcessEnds(how) PROVE ClaimedIsRunning'
  BY <1>0, <1>17, NoJobs DEF ProcessEnds, Volatile, ClaimedIsRunning,
      Exclusive, Shape, WellFormed, scanVars, workVars, chanVars, storeVars,
      Busy
<1>18. CASE UNCHANGED <<row, step, current, jobs, wpc, job>>
  BY <1>0, <1>18 DEF ClaimedIsRunning, Exclusive, Shape, WellFormed, scanVars,
      workVars, chanVars, storeVars, Busy
<1> QED
  BY <1>1, <1>2, <1>3, <1>4, <1>5, <1>6, <1>7, <1>8, <1>9, <1>10, <1>11,
      <1>12, <1>13, <1>14, <1>15, <1>16, <1>17, <1>18
  DEF Next, Scan, Work, Drain, vars, Crash, Signal, PollerWakes, PollerStops,
      CallDrain, DrainExpires, WaiterCalls, WaiterReturns, DrainReturns,
      AcquireDrainMu, CallShutdown, CloseJobs, ShutdownCompletes,
      ShutdownExpires, Exit, Over, Leave, DoneWith, storeVars, procVars,
      ctxVars, chanVars, flightVars, callerVars, scanVars, workVars

\* A reaction is handed to a worker only from a pending row, which no
\* worker of this process has called, so no process calls a handler twice
\* for it.
LEMMA CalledStep == IInv /\ [Next]_vars => (NotCalledYet /\ OncePerProcess)'
<1> SUFFICES ASSUME IInv, [Next]_vars PROVE (NotCalledYet /\ OncePerProcess)'
  OBVIOUS
<1> USE ConstantsAssumption
<1>0. Exclusive /\ TypeOK /\ Shape /\ ClaimedIsRunning /\ NotCalledYet /\ OncePerProcess
  BY ExclusiveHolds DEF IInv
<1>1. CASE Start
  BY <1>0, <1>1 DEF Start, ResetRunning, ClaimedIsRunning, NotCalledYet,
      OncePerProcess, Exclusive, Shape, WellFormed, scanVars, chanVars,
      storeVars, procVars, Busy, NoProcess, TypeOK, StoreTypeOK, Status
<1>2. ASSUME NEW e \in Events, Record(e) PROVE (NotCalledYet /\ OncePerProcess)'
  BY <1>0, <1>2 DEF Record, Dispatch, RecordEventReactions, NewEvent, Notify,
      ClaimedIsRunning, NotCalledYet, OncePerProcess, Exclusive, Shape,
      WellFormed, scanVars, chanVars, storeVars, procVars, Busy, TypeOK,
      StoreTypeOK
<1>3. ASSUME NEW s \in Scanners, List(s) PROVE (NotCalledYet /\ OncePerProcess)'
  BY <1>0, <1>3 DEF List, Leave, Refused, Fault, ClaimedIsRunning,
      NotCalledYet, OncePerProcess, Exclusive, Shape, WellFormed, scanVars,
      chanVars, storeVars, procVars, Busy
<1>4. ASSUME NEW s \in Scanners, NextReaction(s)
      PROVE  (NotCalledYet /\ OncePerProcess)'
  BY <1>0, <1>4 DEF NextReaction, ClaimedIsRunning, NotCalledYet,
      OncePerProcess, Exclusive, Shape, WellFormed, scanVars, chanVars,
      storeVars, procVars, Busy
<1>5. ASSUME NEW s \in Scanners, EndOfList(s)
      PROVE  (NotCalledYet /\ OncePerProcess)'
  BY <1>0, <1>5 DEF EndOfList, Leave, ClaimedIsRunning, NotCalledYet,
      OncePerProcess, Exclusive, Shape, WellFormed, scanVars, chanVars,
      storeVars, procVars, Busy
<1>6. ASSUME NEW s \in Scanners, Claim(s) PROVE (NotCalledYet /\ OncePerProcess)'
  <2>1. /\ \A r \in Reactions : row'[r] = row[r] \/ (row[r] = "pending" /\ row'[r] = "running")
        /\ step' = "decode" => row[current] = "pending" /\ current \in Reactions
        /\ step' \in {"decode", "next"}
    BY <1>0, <1>6 DEF Claim, TypeOK, StoreTypeOK, Shape, WellFormed
  <2>2. UNCHANGED <<jobs, calls>> /\ (step' = "decode" => UNCHANGED current)
    BY <1>6 DEF Claim, chanVars, procVars
  <2> QED
    BY <1>0, <2>1, <2>2 DEF NotCalledYet, OncePerProcess
<1>7. ASSUME NEW s \in Scanners, Decode(s) PROVE (NotCalledYet /\ OncePerProcess)'
  BY <1>0, <1>7 DEF Decode, DoneWith, ClaimedIsRunning, NotCalledYet,
      OncePerProcess, Exclusive, Shape, WellFormed, scanVars, chanVars,
      storeVars, procVars, Busy
<1>8. ASSUME NEW s \in Scanners, Reject(s) PROVE (NotCalledYet /\ OncePerProcess)'
  BY <1>0, <1>8 DEF Reject, Refused, Fault, MarkReaction, ClaimedIsRunning,
      NotCalledYet, OncePerProcess, Exclusive, Shape, WellFormed, scanVars,
      chanVars, storeVars, procVars, Busy, TypeOK, StoreTypeOK
<1>9. ASSUME NEW s \in Scanners, Send(s) PROVE (NotCalledYet /\ OncePerProcess)'
  <2>0. /\ Len(jobs') = Len(jobs) + 1 /\ Len(jobs) \in Nat
        /\ \A i \in 1..Len(jobs) : jobs'[i] = jobs[i]
        /\ jobs'[Len(jobs) + 1].r = current
    BY <1>9, SendEffect
  <2>1. \A i \in 1..Len(jobs') : i \in 1..Len(jobs) \/ i = Len(jobs) + 1
    BY <2>0
  <2> QED
    BY <1>0, <1>9, <2>0, <2>1 DEF Send, ClaimedIsRunning, NotCalledYet,
       OncePerProcess, Exclusive, Shape, WellFormed, scanVars, chanVars,
       storeVars, procVars
<1>10. ASSUME NEW s \in Scanners, SendCancelled(s)
       PROVE  (NotCalledYet /\ OncePerProcess)'
  BY <1>0, <1>10 DEF SendCancelled, DoneWith, ClaimedIsRunning, NotCalledYet,
      OncePerProcess, Exclusive, Shape, WellFormed, scanVars, chanVars,
      storeVars, procVars, Busy
<1>11. ASSUME NEW w \in Workers, WorkerTakes(w)
       PROVE  (NotCalledYet /\ OncePerProcess)'
  <2>0. /\ Len(jobs) = Len(jobs') + 1 /\ Len(jobs') \in Nat
        /\ \A i \in 1..Len(jobs') : jobs'[i] = jobs[i + 1]
        /\ jobs[1] \in Job /\ job' = [job EXCEPT ![w] = jobs[1]]
        /\ wpc' = [wpc EXCEPT ![w] = "run"]
        /\ calls' = [calls EXCEPT ![jobs[1].r] = @ + 1]
    BY <1>11, TakeEffect
  <2>1. 1 \in 1..Len(jobs) /\ \A i \in 1..Len(jobs') : i + 1 \in 2..Len(jobs)
    BY <2>0
  <2> QED
    BY <1>0, <1>11, <2>0, <2>1 DEF WorkerTakes, TypeOK, ProcTypeOK,
       ClaimedIsRunning, NotCalledYet, OncePerProcess, Exclusive, Shape,
       WellFormed, scanVars, chanVars, storeVars, procVars
<1>12. ASSUME NEW w \in Workers, Mark(w) PROVE (NotCalledYet /\ OncePerProcess)'
  BY <1>0, <1>12 DEF Mark, Refused, Fault, MarkReaction, Verdict,
      ClaimedIsRunning, NotCalledYet, OncePerProcess, Exclusive, Shape,
      WellFormed, scanVars, chanVars, storeVars, procVars, Busy, TypeOK,
      WorkTypeOK, StoreTypeOK
<1>13. ASSUME NEW how, how # "up", ProcessEnds(how)
       PROVE  (NotCalledYet /\ OncePerProcess)'
  BY <1>0, <1>13, NoJobs DEF ProcessEnds, Volatile, ClaimedIsRunning,
      NotCalledYet, OncePerProcess, Exclusive, Shape, WellFormed, scanVars,
      chanVars, storeVars, procVars, Busy
<1>14. CASE UNCHANGED <<row, calls, step, current, jobs>>
  BY <1>0, <1>14 DEF ClaimedIsRunning, NotCalledYet, OncePerProcess,
      Exclusive, Shape, WellFormed, scanVars, chanVars, storeVars, procVars,
      Busy
<1> QED
  BY <1>1, <1>2, <1>3, <1>4, <1>5, <1>6, <1>7, <1>8, <1>9, <1>10, <1>11,
      <1>12, <1>13, <1>14
  DEF Next, Scan, Work, Drain, vars, Crash, Signal, PollerWakes, PollerStops,
      CallDrain, DrainExpires, WaiterCalls, WaiterReturns, DrainReturns,
      AcquireDrainMu, WorkerBegins, WorkerExits, HandlerReturns, Finish,
      CallShutdown, CloseJobs, ShutdownCompletes, ShutdownExpires, Exit, Over,
      Leave, DoneWith, storeVars, procVars, ctxVars, chanVars, flightVars,
      callerVars, scanVars, workVars

\* A row becomes succeeded or failed only after an attempt came to that.
LEMMA EvidenceStep == IInv /\ [Next]_vars => (EvidenceAtHand /\ SettledOnEvidence)'
<1> SUFFICES ASSUME IInv, [Next]_vars PROVE (EvidenceAtHand /\ SettledOnEvidence)'
  OBVIOUS
<1> USE ConstantsAssumption
<1>0. Exclusive /\ TypeOK /\ Shape /\ EvidenceAtHand /\ SettledOnEvidence
  BY ExclusiveHolds DEF IInv
<1>1. CASE Start
  BY <1>0, <1>1 DEF Start, ResetRunning, EvidenceAtHand, SettledOnEvidence,
      Exclusive, Shape, WellFormed, scanVars, workVars, storeVars, Busy,
      NoProcess, TypeOK, WorkTypeOK, StoreTypeOK
<1>2. ASSUME NEW e \in Events, Record(e)
      PROVE  (EvidenceAtHand /\ SettledOnEvidence)'
  BY <1>0, <1>2 DEF Record, Dispatch, RecordEventReactions, NewEvent, Notify,
      EvidenceAtHand, SettledOnEvidence, Exclusive, Shape, WellFormed,
      scanVars, workVars, storeVars, Busy, TypeOK, StoreTypeOK
<1>3. ASSUME NEW s \in Scanners, List(s)
      PROVE  (EvidenceAtHand /\ SettledOnEvidence)'
  BY <1>0, <1>3 DEF List, Leave, Refused, Fault, EvidenceAtHand,
      SettledOnEvidence, Exclusive, Shape, WellFormed, scanVars, workVars,
      storeVars, Busy
<1>4. ASSUME NEW s \in Scanners, NextReaction(s)
      PROVE  (EvidenceAtHand /\ SettledOnEvidence)'
  BY <1>0, <1>4 DEF NextReaction, EvidenceAtHand, SettledOnEvidence,
      Exclusive, Shape, WellFormed, scanVars, workVars, storeVars, Busy
<1>5. ASSUME NEW s \in Scanners, EndOfList(s)
      PROVE  (EvidenceAtHand /\ SettledOnEvidence)'
  BY <1>0, <1>5 DEF EndOfList, Leave, EvidenceAtHand, SettledOnEvidence,
      Exclusive, Shape, WellFormed, scanVars, workVars, storeVars, Busy
<1>6. ASSUME NEW s \in Scanners, Claim(s)
      PROVE  (EvidenceAtHand /\ SettledOnEvidence)'
  BY <1>0, <1>6 DEF Claim, Refused, Fault, DoneWith, EvidenceAtHand,
      SettledOnEvidence, Exclusive, Shape, WellFormed, scanVars, workVars,
      storeVars, Busy, TypeOK, StoreTypeOK
<1>7. ASSUME NEW s \in Scanners, Decode(s)
      PROVE  (EvidenceAtHand /\ SettledOnEvidence)'
  BY <1>0, <1>7, SMTT(30) DEF Decode, DoneWith, EvidenceAtHand, SettledOnEvidence,
      Exclusive, Shape, WellFormed, scanVars, workVars, storeVars, Busy,
      TypeOK, StoreTypeOK, Outcome
<1>8. ASSUME NEW s \in Scanners, Reject(s)
      PROVE  (EvidenceAtHand /\ SettledOnEvidence)'
  BY <1>0, <1>8 DEF Reject, Refused, Fault, MarkReaction, EvidenceAtHand,
      SettledOnEvidence, Exclusive, Shape, WellFormed, scanVars, workVars,
      storeVars, Busy, TypeOK, StoreTypeOK
<1>9. ASSUME NEW s \in Scanners, Send(s)
      PROVE  (EvidenceAtHand /\ SettledOnEvidence)'
  <2>0. /\ Len(jobs') = Len(jobs) + 1 /\ Len(jobs) \in Nat
        /\ \A i \in 1..Len(jobs) : jobs'[i] = jobs[i]
        /\ jobs'[Len(jobs) + 1].r = current
    BY <1>9, SendEffect
  <2>1. \A i \in 1..Len(jobs') : i \in 1..Len(jobs) \/ i = Len(jobs) + 1
    BY <2>0
  <2> QED
    BY <1>0, <1>9, <2>0, <2>1 DEF Send, EvidenceAtHand, SettledOnEvidence,
       Exclusive, Shape, WellFormed, scanVars, workVars, storeVars, Busy
<1>10. ASSUME NEW s \in Scanners, SendCancelled(s)
       PROVE  (EvidenceAtHand /\ SettledOnEvidence)'
  BY <1>0, <1>10 DEF SendCancelled, DoneWith, EvidenceAtHand,
      SettledOnEvidence, Exclusive, Shape, WellFormed, scanVars, workVars,
      storeVars, Busy
<1>11. ASSUME NEW w \in Workers, WorkerBegins(w)
       PROVE  (EvidenceAtHand /\ SettledOnEvidence)'
  BY <1>0, <1>11 DEF WorkerBegins, EvidenceAtHand, SettledOnEvidence,
      Exclusive, Shape, WellFormed, scanVars, workVars, storeVars, Busy,
      TypeOK, WorkTypeOK
<1>12. ASSUME NEW w \in Workers, WorkerTakes(w)
       PROVE  (EvidenceAtHand /\ SettledOnEvidence)'
  <2>0. /\ Len(jobs) = Len(jobs') + 1 /\ Len(jobs') \in Nat
        /\ \A i \in 1..Len(jobs') : jobs'[i] = jobs[i + 1]
        /\ jobs[1] \in Job /\ job' = [job EXCEPT ![w] = jobs[1]]
        /\ wpc' = [wpc EXCEPT ![w] = "run"]
        /\ calls' = [calls EXCEPT ![jobs[1].r] = @ + 1]
    BY <1>12, TakeEffect
  <2>1. 1 \in 1..Len(jobs) /\ \A i \in 1..Len(jobs') : i + 1 \in 2..Len(jobs)
    BY <2>0
  <2> QED
    BY <1>0, <1>12, <2>0, <2>1 DEF WorkerTakes, TypeOK, WorkTypeOK,
       EvidenceAtHand, SettledOnEvidence, Exclusive, Shape, WellFormed, scanVars,
       workVars, storeVars, Busy
<1>13. ASSUME NEW w \in Workers, WorkerExits(w)
       PROVE  (EvidenceAtHand /\ SettledOnEvidence)'
  BY <1>0, <1>13 DEF WorkerExits, EvidenceAtHand, SettledOnEvidence,
      Exclusive, Shape, WellFormed, scanVars, workVars, storeVars, Busy,
      TypeOK, WorkTypeOK
<1>14. ASSUME NEW w \in Workers, HandlerReturns(w)
       PROVE  (EvidenceAtHand /\ SettledOnEvidence)'
  BY <1>0, <1>14 DEF HandlerReturns, EvidenceAtHand, SettledOnEvidence,
      Exclusive, Shape, WellFormed, scanVars, workVars, storeVars, Busy,
      TypeOK, WorkTypeOK, StoreTypeOK
<1>15. ASSUME NEW w \in Workers, Mark(w)
       PROVE  (EvidenceAtHand /\ SettledOnEvidence)'
  BY <1>0, <1>15 DEF Mark, Refused, Fault, MarkReaction, Verdict,
      EvidenceAtHand, SettledOnEvidence, Exclusive, Shape, WellFormed,
      scanVars, workVars, storeVars, Busy, TypeOK, WorkTypeOK, StoreTypeOK
<1>16. ASSUME NEW w \in Workers, Finish(w)
       PROVE  (EvidenceAtHand /\ SettledOnEvidence)'
  BY <1>0, <1>16 DEF Finish, DoneWith, EvidenceAtHand, SettledOnEvidence,
      Exclusive, Shape, WellFormed, scanVars, workVars, storeVars, Busy,
      TypeOK, WorkTypeOK
<1>17. ASSUME NEW how, how # "up", ProcessEnds(how)
       PROVE  (EvidenceAtHand /\ SettledOnEvidence)'
  BY <1>0, <1>17, NoJobs DEF ProcessEnds, Volatile, EvidenceAtHand,
      SettledOnEvidence, Exclusive, Shape, WellFormed, scanVars, workVars,
      storeVars, Busy
<1>18. CASE UNCHANGED <<row, outcomes, step, current, wpc, job>>
  BY <1>0, <1>18 DEF EvidenceAtHand, SettledOnEvidence, Exclusive, Shape,
      WellFormed, scanVars, workVars, storeVars, Busy
<1> QED
  BY <1>1, <1>2, <1>3, <1>4, <1>5, <1>6, <1>7, <1>8, <1>9, <1>10, <1>11,
      <1>12, <1>13, <1>14, <1>15, <1>16, <1>17, <1>18
  DEF Next, Scan, Work, Drain, vars, Crash, Signal, PollerWakes, PollerStops,
      CallDrain, DrainExpires, WaiterCalls, WaiterReturns, DrainReturns,
      AcquireDrainMu, CallShutdown, CloseJobs, ShutdownCompletes,
      ShutdownExpires, Exit, Over, Leave, DoneWith, storeVars, procVars,
      ctxVars, chanVars, flightVars, callerVars, scanVars, workVars

\* Only the holder of drainMu is inside drainPending, and Shutdown, called
\* when no Drain is under way, closes the jobs channel after the poller is
\* gone: nobody can be sending on it.
LEMMA CallersStep == IInv /\ [Next]_vars => CallersInOrder'
<1> SUFFICES ASSUME IInv, [Next]_vars PROVE CallersInOrder'
  OBVIOUS
<1> USE ConstantsAssumption
<1>0. TypeOK /\ Shape /\ CallersInOrder
  BY DEF IInv
<1>1. CASE Start
  BY <1>0, <1>1 DEF Start, ResetRunning, CallersInOrder, TypeOK, CallerTypeOK,
      Scanners, callerVars, scanVars, ctxVars, Shape, NoProcess
<1>2. CASE PollerWakes
  BY <1>0, <1>2 DEF PollerWakes, CallersInOrder, TypeOK, CallerTypeOK,
      Scanners, callerVars, scanVars, ctxVars, procVars
<1>3. CASE PollerStops
  BY <1>0, <1>3 DEF PollerStops, CallersInOrder, TypeOK, CallerTypeOK,
      Scanners, callerVars, scanVars, ctxVars, procVars
<1>4. ASSUME NEW d \in Drainers, CallDrain(d) PROVE CallersInOrder'
  BY <1>0, <1>4 DEF CallDrain, CallersInOrder, TypeOK, CallerTypeOK, Scanners,
      callerVars, scanVars, ctxVars
<1>5. ASSUME NEW d \in Drainers, DrainReturns(d) PROVE CallersInOrder'
  BY <1>0, <1>5 DEF DrainReturns, Cancel, CallersInOrder, TypeOK,
      CallerTypeOK, Scanners, callerVars, scanVars, ctxVars, procVars
<1>6. ASSUME NEW s \in Scanners, AcquireDrainMu(s) PROVE CallersInOrder'
  BY <1>0, <1>6 DEF AcquireDrainMu, CallersInOrder, TypeOK, CallerTypeOK,
      Scanners, callerVars, scanVars, ctxVars, procVars
<1>7. ASSUME NEW s \in Scanners, List(s) PROVE CallersInOrder'
  BY <1>0, <1>7 DEF List, Leave, Refused, Fault, CallersInOrder, TypeOK,
      CallerTypeOK, Scanners, callerVars, scanVars, ctxVars, procVars
<1>8. ASSUME NEW s \in Scanners, EndOfList(s) PROVE CallersInOrder'
  BY <1>0, <1>8 DEF EndOfList, Leave, CallersInOrder, TypeOK, CallerTypeOK,
      Scanners, callerVars, scanVars, ctxVars, procVars
<1>9. CASE CallShutdown
  BY <1>0, <1>9 DEF CallShutdown, Cancel, CallersInOrder, TypeOK,
      CallerTypeOK, Scanners, callerVars, scanVars, ctxVars, procVars
<1>10. CASE CloseJobs
  BY <1>0, <1>10 DEF CloseJobs, PollerGone, CallersInOrder, TypeOK,
      CallerTypeOK, Scanners, callerVars, scanVars, ctxVars, ProcessEnds,
      Volatile, Shape, WellFormed, ScanTypeOK, procVars
<1>11. CASE ShutdownCompletes
  BY <1>0, <1>11 DEF ShutdownCompletes, CallersInOrder, TypeOK, CallerTypeOK,
      Scanners, callerVars, scanVars, ctxVars, procVars
<1>12. CASE ShutdownExpires
  BY <1>0, <1>12 DEF ShutdownExpires, CallersInOrder, TypeOK, CallerTypeOK,
      Scanners, callerVars, scanVars, ctxVars, procVars
<1>13. ASSUME NEW how \in {"down", "panicWait"}, ProcessEnds(how)
       PROVE  CallersInOrder'
  BY <1>0, <1>13 DEF ProcessEnds, Volatile, CallersInOrder, TypeOK,
      CallerTypeOK, Scanners, callerVars, scanVars, ctxVars
<1>14. CASE UNCHANGED <<pc, holder, shutdown, proc>>
  BY <1>0, <1>14 DEF CallersInOrder, TypeOK, CallerTypeOK, Scanners,
      callerVars, scanVars, ctxVars
<1> QED
  BY <1>1, <1>2, <1>3, <1>4, <1>5, <1>6, <1>7, <1>8, <1>9, <1>10, <1>11,
      <1>12, <1>13, <1>14
  DEF Next, Scan, Work, Drain, vars, Crash, Signal, Record, DrainExpires,
      WaiterCalls, WaiterReturns, NextReaction, Claim, Decode, Reject, Send,
      SendCancelled, WorkerBegins, WorkerTakes, WorkerExits, HandlerReturns,
      Mark, Finish, Exit, Over, Leave, DoneWith, storeVars, procVars, ctxVars,
      chanVars, flightVars, callerVars, scanVars, workVars

\* While every context is alive and no store operation failed, a row
\* leaves d.inFlight only when it is no longer running.
LEMMA ClaimsStep == IInv /\ [Next]_vars => ClaimsHeld'
<1> SUFFICES ASSUME IInv, [Next]_vars PROVE ClaimsHeld'
  OBVIOUS
<1> USE ConstantsAssumption
<1>0. Exclusive /\ TypeOK /\ Shape /\ HeldInFlight /\ ClaimedIsRunning /\ ClaimsHeld
  BY ExclusiveHolds DEF IInv
<1>1. CASE Start
  BY <1>0, <1>1 DEF Start, ResetRunning, ClaimsHeld, Stranded, Exclusive,
      Shape, WellFormed, HeldInFlight, ClaimedIsRunning, scanVars, workVars,
      storeVars, procVars, ctxVars, flightVars, Busy, NoProcess, TypeOK,
      WorkTypeOK
<1>2. CASE Signal
  BY <1>0, <1>2 DEF Signal, Cancel, ClaimsHeld, Stranded, Exclusive, Shape,
      WellFormed, HeldInFlight, ClaimedIsRunning, scanVars, workVars,
      storeVars, procVars, ctxVars, flightVars, Busy
<1>3. ASSUME NEW d \in Drainers, DrainExpires(d) PROVE ClaimsHeld'
  BY <1>0, <1>3 DEF DrainExpires, Cancel, ClaimsHeld, Stranded, Exclusive,
      Shape, WellFormed, HeldInFlight, ClaimedIsRunning, scanVars, workVars,
      storeVars, procVars, ctxVars, flightVars, Busy
<1>4. ASSUME NEW d \in Drainers, DrainReturns(d) PROVE ClaimsHeld'
  BY <1>0, <1>4 DEF DrainReturns, Cancel, ClaimsHeld, Stranded, Exclusive,
      Shape, WellFormed, HeldInFlight, ClaimedIsRunning, scanVars, workVars,
      storeVars, procVars, ctxVars, flightVars, Busy
<1>5. CASE CallShutdown
  BY <1>0, <1>5 DEF CallShutdown, Cancel, ClaimsHeld, Stranded, Exclusive,
      Shape, WellFormed, HeldInFlight, ClaimedIsRunning, scanVars, workVars,
      storeVars, procVars, ctxVars, flightVars, Busy
<1>6. ASSUME NEW e \in Events, Record(e) PROVE ClaimsHeld'
  BY <1>0, <1>6 DEF Record, Dispatch, RecordEventReactions, NewEvent, Notify,
      ClaimsHeld, Stranded, Exclusive, Shape, WellFormed, HeldInFlight,
      ClaimedIsRunning, scanVars, workVars, storeVars, procVars, ctxVars,
      flightVars, Busy, TypeOK, StoreTypeOK
<1>7. ASSUME NEW s \in Scanners, List(s) PROVE ClaimsHeld'
  BY <1>0, <1>7 DEF List, Leave, Refused, Fault, ClaimsHeld, Stranded,
      Exclusive, Shape, WellFormed, HeldInFlight, ClaimedIsRunning, scanVars,
      workVars, storeVars, procVars, ctxVars, flightVars, Busy, TypeOK,
      StoreTypeOK
<1>8. ASSUME NEW s \in Scanners, NextReaction(s) PROVE ClaimsHeld'
  BY <1>0, <1>8 DEF NextReaction, ClaimsHeld, Stranded, Exclusive, Shape,
      WellFormed, HeldInFlight, ClaimedIsRunning, scanVars, workVars,
      storeVars, procVars, ctxVars, flightVars, Busy, Oldest, TypeOK,
      ScanTypeOK
<1>9. ASSUME NEW s \in Scanners, EndOfList(s) PROVE ClaimsHeld'
  BY <1>0, <1>9 DEF EndOfList, Leave, ClaimsHeld, Stranded, Exclusive, Shape,
      WellFormed, HeldInFlight, ClaimedIsRunning, scanVars, workVars,
      storeVars, procVars, ctxVars, flightVars, Busy
<1>10. ASSUME NEW s \in Scanners, Claim(s) PROVE ClaimsHeld'
  BY <1>0, <1>10 DEF Claim, Refused, Fault, DoneWith, ClaimsHeld, Stranded,
      Exclusive, Shape, WellFormed, HeldInFlight, ClaimedIsRunning, scanVars,
      workVars, storeVars, procVars, ctxVars, flightVars, Busy, TypeOK,
      StoreTypeOK
<1>11. ASSUME NEW s \in Scanners, Decode(s) PROVE ClaimsHeld'
  BY <1>0, <1>11 DEF Decode, DoneWith, ClaimsHeld, Stranded, Exclusive, Shape,
      WellFormed, HeldInFlight, ClaimedIsRunning, scanVars, workVars,
      storeVars, procVars, ctxVars, flightVars, Busy
<1>12. ASSUME NEW s \in Scanners, Reject(s) PROVE ClaimsHeld'
  BY <1>0, <1>12, SMTT(30) DEF Reject, Refused, Fault, MarkReaction, ClaimsHeld,
      Stranded, Exclusive, Shape, WellFormed, HeldInFlight, ClaimedIsRunning,
      scanVars, workVars, storeVars, procVars, ctxVars, flightVars, Busy,
      TypeOK, StoreTypeOK
<1>13. ASSUME NEW s \in Scanners, Send(s) PROVE ClaimsHeld'
  BY <1>0, <1>13 DEF Send, ClaimsHeld, Stranded, Exclusive, Shape, WellFormed,
      HeldInFlight, ClaimedIsRunning, scanVars, workVars, storeVars, procVars,
      ctxVars, flightVars, Busy
<1>14. ASSUME NEW s \in Scanners, SendCancelled(s) PROVE ClaimsHeld'
  BY <1>0, <1>14 DEF SendCancelled, DoneWith, ClaimsHeld, Stranded, Exclusive,
      Shape, WellFormed, HeldInFlight, ClaimedIsRunning, scanVars, workVars,
      storeVars, procVars, ctxVars, flightVars, Busy
<1>15. ASSUME NEW w \in Workers, WorkerBegins(w) PROVE ClaimsHeld'
  BY <1>0, <1>15 DEF WorkerBegins, ClaimsHeld, Stranded, Exclusive, Shape,
      WellFormed, HeldInFlight, ClaimedIsRunning, scanVars, workVars,
      storeVars, procVars, ctxVars, flightVars, Busy, TypeOK, WorkTypeOK
<1>16. ASSUME NEW w \in Workers, WorkerTakes(w) PROVE ClaimsHeld'
  BY <1>0, <1>16 DEF WorkerTakes, ClaimsHeld, Stranded, Exclusive, Shape,
      WellFormed, HeldInFlight, ClaimedIsRunning, scanVars, workVars,
      storeVars, procVars, ctxVars, flightVars, Busy, TypeOK, WorkTypeOK
<1>17. ASSUME NEW w \in Workers, WorkerExits(w) PROVE ClaimsHeld'
  BY <1>0, <1>17 DEF WorkerExits, ClaimsHeld, Stranded, Exclusive, Shape,
      WellFormed, HeldInFlight, ClaimedIsRunning, scanVars, workVars,
      storeVars, procVars, ctxVars, flightVars, Busy, TypeOK, WorkTypeOK
<1>18. ASSUME NEW w \in Workers, HandlerReturns(w) PROVE ClaimsHeld'
  BY <1>0, <1>18 DEF HandlerReturns, ClaimsHeld, Stranded, Exclusive, Shape,
      WellFormed, HeldInFlight, ClaimedIsRunning, scanVars, workVars,
      storeVars, procVars, ctxVars, flightVars, Busy, TypeOK, WorkTypeOK
<1>19. ASSUME NEW w \in Workers, Mark(w) PROVE ClaimsHeld'
  <2>1. CASE faults' # 0 \/ dead' # {} \/ proc' # "up"
    BY <2>1 DEF ClaimsHeld
  <2>2. CASE faults' = 0 /\ dead' = {} /\ proc' = "up"
    <3>1. /\ proc = "up" /\ dead = {} /\ faults = 0
          /\ job[w].r \in Reactions /\ job[w].r \in inFlight
          /\ UNCHANGED <<inFlight, job, step, current>>
          /\ wpc' = [wpc EXCEPT ![w] = "finish"]
          /\ row' = [row EXCEPT ![job[w].r] = IF wpc[w] = "ok" THEN "succeeded" ELSE "failed"]
      BY <1>0, <1>19, <2>2 DEF Mark, MarkReaction, Verdict, Refused, Fault,
         procVars, ctxVars, flightVars, scanVars,
         Exclusive, HeldInFlight, Busy, TypeOK, StoreTypeOK
    <3>2. \A r \in Reactions : row'[r] = "running" => row[r] = "running" /\ r # job[w].r
      BY <1>0, <3>1 DEF TypeOK, StoreTypeOK
    <3>3. ASSUME NEW v \in Workers, wpc'[v] = "finish" PROVE row'[job'[v].r] # "running"
      <4>1. CASE v = w
        BY <3>1, <3>2, <4>1
      <4>2. CASE v # w
        <5>1. wpc[v] = "finish" /\ job[v].r \in Reactions
          BY <1>0, <3>1, <3>3, <4>2 DEF Exclusive, Busy, TypeOK, WorkTypeOK
        <5> QED
          BY <1>0, <3>1, <3>2, <5>1 DEF ClaimsHeld
      <4> QED
        BY <4>1, <4>2
    <3>4. step' = "claim" => row'[current'] # "running"
      BY <1>0, <3>1, <3>2 DEF ClaimsHeld, Shape, WellFormed
    <3> QED
      BY <1>0, <3>1, <3>2, <3>3, <3>4 DEF ClaimsHeld, Stranded
  <2> QED
    BY <2>1, <2>2
<1>20. ASSUME NEW w \in Workers, Finish(w) PROVE ClaimsHeld'
  BY <1>0, <1>20 DEF Finish, DoneWith, ClaimsHeld, Stranded, Exclusive, Shape,
      WellFormed, HeldInFlight, ClaimedIsRunning, scanVars, workVars,
      storeVars, procVars, ctxVars, flightVars, Busy, TypeOK, WorkTypeOK
<1>21. ASSUME NEW how, how # "up", ProcessEnds(how) PROVE ClaimsHeld'
  BY <1>0, <1>21 DEF ProcessEnds, Volatile, ClaimsHeld, Stranded, Exclusive,
      Shape, WellFormed, HeldInFlight, ClaimedIsRunning, scanVars, workVars,
      storeVars, procVars, ctxVars, flightVars, Busy
<1>22. CASE UNCHANGED <<row, faults, proc, dead, step, current, inFlight, wpc, job>>
  BY <1>0, <1>22 DEF ClaimsHeld, Stranded, Exclusive, Shape, WellFormed,
      HeldInFlight, ClaimedIsRunning, scanVars, workVars, storeVars, procVars,
      ctxVars, flightVars, Busy
<1> QED
  BY <1>1, <1>2, <1>3, <1>4, <1>5, <1>6, <1>7, <1>8, <1>9, <1>10, <1>11,
      <1>12, <1>13, <1>14, <1>15, <1>16, <1>17, <1>18, <1>19, <1>20, <1>21,
      <1>22
  DEF Next, Scan, Work, Drain, vars, Crash, PollerWakes, PollerStops,
      CallDrain, WaiterCalls, WaiterReturns, AcquireDrainMu, CloseJobs,
      ShutdownCompletes, ShutdownExpires, Exit, Over, Leave, DoneWith,
      storeVars, procVars, ctxVars, chanVars, flightVars, callerVars,
      scanVars, workVars

\* The database is empty and no process was started.
LEMMA InitIInv == Init => IInv
<1> SUFFICES ASSUME Init PROVE IInv
  OBVIOUS
<1> USE ConstantsAssumption DEF Init
<1>1. TypeOK
  <2>1. StoreTypeOK /\ CtxTypeOK /\ FlightTypeOK
    BY DEF StoreTypeOK, CtxTypeOK, FlightTypeOK, Status
  <2>2. ProcTypeOK
    BY DEF ProcTypeOK, Volatile
  <2>3. ChanTypeOK
    BY NoJobs DEF ChanTypeOK
  <2>4. CallerTypeOK
    BY DEF CallerTypeOK, Volatile
  <2>5. ScanTypeOK
    BY DEF ScanTypeOK
  <2>6. WorkTypeOK
    BY DEF WorkTypeOK, Volatile
  <2> QED
    BY <2>1, <2>2, <2>3, <2>4, <2>5, <2>6 DEF TypeOK
<1>2. Shape
  BY DEF Shape, NoProcess, WellFormed, Volatile, Busy
<1>3. WorkedOnOnce
  BY NoJobs DEF WorkedOnOnce, RunBy, QueuedAt, Volatile, Busy
<1>4. HeldInFlight /\ ClaimedIsRunning /\ NotCalledYet /\ OncePerProcess
  BY NoJobs DEF HeldInFlight, ClaimedIsRunning, NotCalledYet, OncePerProcess,
     Volatile, Busy
<1>5. EvidenceAtHand /\ SettledOnEvidence
  BY DEF EvidenceAtHand, SettledOnEvidence, Volatile
<1>6. PendingCountsFlight
  BY FS_EmptySet DEF PendingCountsFlight
<1>7. CallersInOrder /\ ClaimsHeld
  BY DEF CallersInOrder, ClaimsHeld, Volatile
<1> QED
  BY <1>1, <1>2, <1>3, <1>4, <1>5, <1>6, <1>7 DEF IInv

\* The invariant is inductive: no step of any process leaves it.
LEMMA StepIInv == IInv /\ [Next]_vars => IInv'
<1> SUFFICES ASSUME IInv, [Next]_vars PROVE IInv'
  OBVIOUS
<1>1. TypeOK'
  BY StoreType, ProcType, CtxType, ChanType, Flight, CallerType, ScanType,
     WorkType DEF TypeOK
<1>2. Shape'
  BY DownStays, ShapeStep DEF Shape
<1> QED
  BY <1>1, <1>2, OnceStep, HeldStep, RunningStep, CalledStep, EvidenceStep, Flight,
     CallersStep, ClaimsStep DEF IInv

\* The inductive invariant holds in every reachable state, for any number
\* of reactions, workers, Drains, restarts and failures.
THEOREM Invariance == Spec => []IInv
<1>1. IInv /\ [Next]_vars => IInv'
  BY StepIInv
<1> QED
  BY InitIInv, <1>1, PTL DEF Spec

\* Type correctness of the whole dispatcher.
THEOREM TypeCorrect == Spec => []TypeOK
<1>1. IInv => TypeOK
  BY DEF IInv
<1> QED
  BY Invariance, <1>1, PTL

\* No reaction is ever worked on by two goroutines at once, whoever lists
\* it.
THEOREM Exclusion == Spec => []WorkedOnOnce
<1>1. IInv => WorkedOnOnce
  BY DEF IInv
<1> QED
  BY Invariance, <1>1, PTL

\* No process calls the handler of a reaction twice.
THEOREM AtMostOncePerProcess == Spec => []OncePerProcess
<1>1. IInv => OncePerProcess
  BY DEF IInv
<1> QED
  BY Invariance, <1>1, PTL

\* What Drain waits for is exactly what is in flight.
THEOREM DrainCounts == Spec => []PendingCountsFlight
<1>1. IInv => PendingCountsFlight
  BY DEF IInv
<1> QED
  BY Invariance, <1>1, PTL

\* No row is settled without an attempt that ended that way.
THEOREM Evidence == Spec => []SettledOnEvidence
<1>1. IInv => SettledOnEvidence
  BY DEF IInv
<1> QED
  BY Invariance, <1>1, PTL

\* While every context is alive and no store operation failed, no claimed
\* row is left without a holder.
THEOREM ClaimsMarkedInService == Spec => []NoneStrandedInService
<1>1. IInv => NoneStrandedInService
  BY DEF IInv, ClaimsHeld, NoneStrandedInService
<1> QED
  BY Invariance, <1>1, PTL

\* With the hooks in the order runtime.go gives them, closing the jobs
\* channel never panics a goroutine that sends on it.
THEOREM JobsClosedSafely == HooksInOrder => (Spec => []NoSendPanic)
<1> SUFFICES ASSUME HooksInOrder PROVE Spec => []NoSendPanic
  OBVIOUS
<1>1. IInv => NoSendPanic
  BY DEF IInv, CallersInOrder, NoSendPanic
<1> QED
  BY Invariance, <1>1, PTL

\* The edges of the life of a row.
RowStep(r) ==
  \/ row'[r] = row[r]
  \/ row[r] = "none" /\ row'[r] = "pending"
  \/ row[r] = "pending" /\ row'[r] = "running"
  \/ row[r] = "running" /\ row'[r] \in Terminal /\ UNCHANGED outcomes
  \/ row[r] = "running" /\ row'[r] = "pending" /\ proc # "up" /\ proc' = "up"

\* Every step takes a row at most one edge further, and a claimed row goes
\* back to pending only by Start.
LEMMA RowSteps == IInv /\ [Next]_vars => \A r \in Reactions : RowStep(r)
<1> SUFFICES ASSUME IInv, [Next]_vars PROVE \A r \in Reactions : RowStep(r)
  OBVIOUS
<1> USE ConstantsAssumption
<1>0. TypeOK /\ Shape /\ ClaimedIsRunning
  BY DEF IInv
<1>1. CASE Start
  BY <1>0, <1>1 DEF Start, ResetRunning, RowStep, TypeOK, StoreTypeOK, Status,
      Terminal
<1>2. ASSUME NEW e \in Events, Record(e) PROVE \A r \in Reactions : RowStep(r)
  BY <1>0, <1>2 DEF Record, Dispatch, RecordEventReactions, NewEvent, Notify,
      RowStep, TypeOK, StoreTypeOK, Status, Terminal
<1>3. ASSUME NEW s \in Scanners, List(s) PROVE \A r \in Reactions : RowStep(r)
  BY <1>0, <1>3 DEF List, Leave, Refused, Fault, RowStep, TypeOK, StoreTypeOK,
      Status, Terminal
<1>4. ASSUME NEW s \in Scanners, Claim(s) PROVE \A r \in Reactions : RowStep(r)
  BY <1>0, <1>4 DEF Claim, Refused, Fault, DoneWith, RowStep, TypeOK,
      StoreTypeOK, Status, Terminal, Shape, WellFormed
<1>5. ASSUME NEW s \in Scanners, Decode(s) PROVE \A r \in Reactions : RowStep(r)
  BY <1>0, <1>5 DEF Decode, DoneWith, RowStep, TypeOK, StoreTypeOK, Status,
      Terminal
<1>6. ASSUME NEW s \in Scanners, Reject(s) PROVE \A r \in Reactions : RowStep(r)
  BY <1>0, <1>6 DEF Reject, Refused, Fault, MarkReaction, RowStep, TypeOK,
      StoreTypeOK, Status, Terminal, Shape, WellFormed, ClaimedIsRunning
<1>7. ASSUME NEW w \in Workers, HandlerReturns(w)
      PROVE  \A r \in Reactions : RowStep(r)
  BY <1>0, <1>7 DEF HandlerReturns, RowStep, TypeOK, StoreTypeOK, Status,
      Terminal
<1>8. ASSUME NEW w \in Workers, Mark(w) PROVE \A r \in Reactions : RowStep(r)
  <2>1. /\ job[w].r \in Reactions => row[job[w].r] = "running"
        /\ job[w].r \in Reactions
    BY <1>0, ExclusiveHolds, <1>8 DEF Mark, ClaimedIsRunning, Exclusive, Busy
  <2> QED
    BY <1>0, <1>8, <2>1 DEF Mark, MarkReaction, Verdict, Refused, Fault, RowStep,
       TypeOK, StoreTypeOK, Terminal
<1>9. CASE UNCHANGED row
  BY <1>9 DEF RowStep, TypeOK, StoreTypeOK, Status, Terminal
<1> QED
  BY <1>1, <1>2, <1>3, <1>4, <1>5, <1>6, <1>7, <1>8, <1>9
  DEF Next, Scan, Work, Drain, vars, Crash, Signal, PollerWakes, PollerStops,
      CallDrain, DrainExpires, WaiterCalls, WaiterReturns, DrainReturns,
      AcquireDrainMu, NextReaction, EndOfList, Send, SendCancelled,
      WorkerBegins, WorkerTakes, WorkerExits, Finish, CallShutdown, CloseJobs,
      ShutdownCompletes, ShutdownExpires, Exit, Over, Leave, DoneWith,
      ProcessEnds, storeVars, procVars, ctxVars, chanVars, flightVars,
      callerVars, scanVars, workVars

\* A settled row never changes again, although markReaction does not look
\* at the status it overwrites.
THEOREM SettledRowsStay == Spec => SettledForGood
<1>1. IInv /\ [Next]_vars => [\A r \in Reactions : Settled(r) => row'[r] = row[r]]_row
  BY RowSteps DEF RowStep, Settled, Terminal
<1> QED
  BY Invariance, <1>1, PTL DEF Spec, SettledForGood

\* Only the start of a process gives a claimed row back.
THEOREM ClaimsGivenBackByStart == Spec => OnlyStartGivesBack
<1>1. IInv /\ [Next]_vars =>
        [(\E r \in Reactions : row[r] = "running" /\ row'[r] = "pending")
           => proc # "up" /\ proc' = "up"]_vars
  BY RowSteps DEF RowStep, Terminal
<1> QED
  BY Invariance, <1>1, PTL DEF Spec, OnlyStartGivesBack

\* What AtLeastOnce sees of the rows does not change.
SameToPromise ==
  /\ UNCHANGED outcomes
  /\ \A r \in Reactions : (row'[r] = "none" <=> row[r] = "none") /\ (Settled(r)' <=> Settled(r))

\* A step that neither records, handles nor settles a reaction is a
\* stutter of AtLeastOnce.
LEMMA SameIsStutter == SameToPromise => UNCHANGED Promise!vars
  BY DEF SameToPromise, Promise!vars

\* An attempt at a claimed reaction is a Handle of AtLeastOnce.
LEMMA HandledStep ==
  ASSUME IInv, NEW r \in Reactions, row[r] = "running", UNCHANGED row,
         NEW o \in Outcome, outcomes' = [outcomes EXCEPT ![r] = @ \union {o}]
  PROVE  Promise!Next
<1>1. Promise!Handle(r)
  <2>1. \A q \in Reactions : outcomes'[q] = IF q = r THEN outcomes[r] \union {o} ELSE outcomes[q]
    BY DEF IInv, TypeOK, StoreTypeOK
  <2>2. {q \in Reactions : outcomes'[q] # {}} = {q \in Reactions : outcomes[q] # {}} \union {r}
    BY <2>1
  <2> QED
    BY <2>2 DEF Promise!Handle, Settled, Terminal
<1> QED
  BY <1>1 DEF Promise!Next

\* A mark on an attempted reaction is a Settle of AtLeastOnce.
LEMMA SettledStep ==
  ASSUME IInv, NEW r \in Reactions, row[r] = "running", outcomes[r] # {}, UNCHANGED outcomes,
         NEW t \in Terminal, row' = [row EXCEPT ![r] = t]
  PROVE  Promise!Next
<1>1. Promise!Settle(r)
  <2>1. \A q \in Reactions : row'[q] = IF q = r THEN t ELSE row[q]
    BY DEF IInv, TypeOK, StoreTypeOK
  <2>2. {q \in Reactions : row'[q] # "none"} = {q \in Reactions : row[q] # "none"}
    BY <2>1 DEF Terminal
  <2>3. {q \in Reactions : Settled(q)'} = {q \in Reactions : Settled(q)} \union {r}
    BY <2>1 DEF Settled
  <2> QED
    BY <2>2, <2>3 DEF Promise!Settle, Settled, Terminal
<1> QED
  BY <1>1 DEF Promise!Next

\* Every step of the dispatcher is a step of AtLeastOnce or a stutter.
LEMMA RefinementStep == IInv /\ [Next]_vars => [Promise!Next]_(Promise!vars)
<1> SUFFICES ASSUME IInv, [Next]_vars PROVE Promise!Next \/ UNCHANGED Promise!vars
  OBVIOUS
<1>0. TypeOK /\ Shape /\ ClaimedIsRunning /\ EvidenceAtHand /\ Exclusive
  BY ExclusiveHolds DEF IInv
<1>1. CASE Start
  BY <1>0, <1>1, SameIsStutter DEF Start, ResetRunning, SameToPromise, Settled,
     Terminal
<1>2. ASSUME NEW e \in Events, Record(e) PROVE Promise!Next
  <2>0. PICK S \in SUBSET Reactions : S = {r \in Reactions : EventOf[r] = e /\ r \in live}
    OBVIOUS
  <2>1. Promise!Record(S)
    <3>1. {r \in Reactions : row'[r] # "none"} = {r \in Reactions : row[r] # "none"} \union S
      BY <1>2, <2>0 DEF Record, Dispatch, RecordEventReactions, NewEvent
    <3>2. {r \in Reactions : Settled(r)'} = {r \in Reactions : Settled(r)}
      BY <1>2 DEF Record, Dispatch, RecordEventReactions, NewEvent, Settled,
         Terminal
    <3>3. S \intersect {r \in Reactions : row[r] # "none"} = {} /\ UNCHANGED outcomes
      BY <1>2, <2>0 DEF Record, Dispatch, RecordEventReactions, NewEvent
    <3> QED
      BY <3>1, <3>2, <3>3 DEF Promise!Record
  <2> QED
    BY <2>1 DEF Promise!Next
<1>3. ASSUME NEW s \in Scanners, Claim(s) PROVE UNCHANGED Promise!vars
  BY <1>0, <1>3, SameIsStutter DEF Claim, SameToPromise, Settled, Terminal,
     TypeOK, StoreTypeOK
<1>4. ASSUME NEW s \in Scanners, Decode(s)
      PROVE  Promise!Next \/ UNCHANGED Promise!vars
  <2>1. current \in Reactions /\ row[current] = "running" /\ UNCHANGED row
    BY <1>0, <1>4 DEF Decode, Shape, WellFormed, ClaimedIsRunning
  <2>2. CASE UNCHANGED outcomes
    BY <2>1, <2>2, SameIsStutter DEF SameToPromise, Settled
  <2>3. CASE outcomes' = [outcomes EXCEPT ![current] = @ \union {"undecodable"}]
    BY <2>1, <2>3, HandledStep DEF Outcome
  <2> QED
    BY <1>4, <2>2, <2>3 DEF Decode
<1>5. ASSUME NEW w \in Workers, HandlerReturns(w) PROVE Promise!Next
  <2>1. job[w].r \in Reactions /\ row[job[w].r] = "running" /\ UNCHANGED row
    BY <1>0, <1>5 DEF HandlerReturns, Exclusive, ClaimedIsRunning, Busy
  <2>2. PICK o \in Outcome : outcomes' = [outcomes EXCEPT ![job[w].r] = @ \union {o}]
    BY <1>5 DEF HandlerReturns, Outcome
  <2> QED
    BY <2>1, <2>2, HandledStep
<1>6. ASSUME NEW s \in Scanners, Reject(s)
      PROVE  Promise!Next \/ UNCHANGED Promise!vars
  <2>1. /\ current \in Reactions /\ row[current] = "running" /\ UNCHANGED outcomes
        /\ outcomes[current] # {}
    BY <1>0, <1>6 DEF Reject, Shape, WellFormed, ClaimedIsRunning, EvidenceAtHand
  <2>2. CASE UNCHANGED row
    BY <2>1, <2>2, SameIsStutter DEF SameToPromise, Settled
  <2>3. CASE row' = [row EXCEPT ![current] = "failed"]
    BY <2>1, <2>3, SettledStep DEF Terminal
  <2> QED
    BY <1>6, <2>2, <2>3 DEF Reject, MarkReaction
<1>7. ASSUME NEW w \in Workers, Mark(w) PROVE Promise!Next \/ UNCHANGED Promise!vars
  <2>1. /\ job[w].r \in Reactions /\ row[job[w].r] = "running" /\ UNCHANGED outcomes
        /\ outcomes[job[w].r] # {}
    BY <1>0, <1>7 DEF Mark, Exclusive, ClaimedIsRunning, EvidenceAtHand, Busy
  <2>2. CASE UNCHANGED row
    BY <2>1, <2>2, SameIsStutter DEF SameToPromise, Settled
  <2>3. CASE row' = [row EXCEPT ![job[w].r] = IF wpc[w] = "ok" THEN "succeeded" ELSE "failed"]
    BY <2>1, <2>3, SettledStep DEF Terminal
  <2> QED
    BY <1>7, <2>2, <2>3 DEF Mark, MarkReaction, Verdict
<1>8. CASE UNCHANGED <<row, outcomes>>
  BY <1>8, SameIsStutter DEF SameToPromise, Settled
<1> QED
  BY <1>1, <1>2, <1>3, <1>4, <1>5, <1>6, <1>7, <1>8
  DEF Next, Scan, Work, Drain, vars, Crash, Signal, PollerWakes, PollerStops,
     CallDrain, DrainExpires,
      WaiterCalls, WaiterReturns, DrainReturns, AcquireDrainMu, List,
      NextReaction, EndOfList, Send, SendCancelled, WorkerBegins,
      WorkerTakes, WorkerExits, Finish, CallShutdown, CloseJobs,
      ShutdownCompletes, ShutdownExpires, Exit, Over, Leave, DoneWith,
      ProcessEnds, storeVars

\* The dispatcher keeps the promise of AtLeastOnce across crashes,
\* restarts, failed store operations and cancelled contexts.
THEOREM Refinement == Spec => KeepsPromise
<1>1. Init => Promise!Init
  BY DEF Init, Promise!Init, Settled, Terminal
<1> QED
  BY <1>1, Invariance, RefinementStep, PTL DEF Spec, KeepsPromise, Promise!Spec

-----------------------------------------------------------------------------
(* Drain.                                                                     *)

\* Who lists has nothing left of an earlier listing; what is listed waits, and
\* is not in flight.
BatchWaits ==
  /\ step = "list" => batch = {}
  /\ \A r \in batch : row[r] = "pending" /\ r \notin inFlight /\ r # current

\* What is in flight has been recorded and, but for the reaction to be claimed,
\* does not wait any more.
FlightListed ==
  \A r \in inFlight : row[r] # "none" /\ (row[r] = "pending" => step = "claim" /\ current = r)

\* A Drain is called for what was recorded, and starts to wait after its scan.
CalledFor ==
  /\ \A d \in Drainers : \A r \in owed[d] : row[r] # "none"
  /\ \A d \in Drainers : pc[d] \in {"off", "lock", "scan"} => waiter[d] = "none"

\* What a Drain was called for and can be run is still to be listed or claimed
\* while the Drain scans; then it waits no more, and when the counter was at zero
\* it is not in flight.
Looked(d, r) ==
  /\ holder = d /\ row[r] = "pending" =>
       step = "list" \/ r \in batch \/ (step = "claim" /\ current = r)
  /\ pc[d] = "wait" => row[r] # "pending" /\ (waiter[d] = "done" => r \notin inFlight)

OwedLooked ==
  faults = 0 => \A d \in Drainers \ dead : \A r \in owed[d] \intersect live : Looked(d, r)

DrainInv == BatchWaits /\ FlightListed /\ CalledFor /\ OwedLooked

\* A listing reaches every reaction that waits.
ListingReachesAll == Cardinality(Pending) <= PollLimit

\* The oldest of what waits is then all of it.
LEMMA AllListed ==
  ASSUME IInv, ListingReachesAll
  PROVE  Oldest(Pending, PollLimit) = Pending
<1> SUFFICES ASSUME NEW r \in Pending
             PROVE  Cardinality({q \in Pending : q < r}) < PollLimit
  BY DEF Oldest
<1> DEFINE A == {q \in Pending : q < r}
<1>1. IsFiniteSet(Pending) /\ Cardinality(Pending) \in Nat
  BY ConstantsAssumption, FS_Subset, FS_CardinalityType DEF Pending
<1>2. r \in Nat
  BY ConstantsAssumption DEF Pending
<1>3. A \subseteq Pending \ {r}
  BY <1>2
<1>4. Cardinality(Pending \ {r}) = Cardinality(Pending) - 1 /\ IsFiniteSet(Pending \ {r})
  BY <1>1, FS_RemoveElement, FS_Subset
<1> HIDE DEF A
<1>5. Cardinality(A) <= Cardinality(Pending) - 1 /\ Cardinality(A) \in Nat
  BY <1>3, <1>4, FS_Subset, FS_CardinalityType
<1>6. Cardinality(A) < PollLimit
  BY <1>1, <1>5, ConstantsAssumption DEF ListingReachesAll
<1> QED
  BY <1>6 DEF A

\* Listed reactions are taken from the rows that wait, and only the holder of
\* drainMu puts them in flight.
LEMMA BatchStep == IInv /\ DrainInv /\ [Next]_vars => (BatchWaits /\ FlightListed)'
<1> SUFFICES ASSUME IInv, DrainInv, [Next]_vars PROVE (BatchWaits /\ FlightListed)'
  OBVIOUS
<1> USE ConstantsAssumption
<1>0. TypeOK /\ Shape /\ HeldInFlight /\ ClaimedIsRunning /\ BatchWaits /\ FlightListed
  BY DEF IInv, DrainInv
<1>1. CASE Start
  BY <1>0, <1>1 DEF Start, ResetRunning, BatchWaits, FlightListed, Shape, NoProcess,
     scanVars, flightVars
<1>2. ASSUME NEW e \in Events, Record(e) PROVE (BatchWaits /\ FlightListed)'
  BY <1>0, <1>2 DEF Record, Dispatch, RecordEventReactions, NewEvent, BatchWaits,
     FlightListed, scanVars, flightVars, TypeOK, StoreTypeOK, ScanTypeOK, FlightTypeOK
<1>3. ASSUME NEW s \in Scanners, List(s) PROVE (BatchWaits /\ FlightListed)'
  <2>1. current = None
    BY <1>0, <1>3 DEF List, Shape, WellFormed
  <2> QED
    BY <1>0, <1>3, <2>1 DEF List, Leave, BatchWaits, FlightListed, flightVars, Pending,
       Oldest, Shape, WellFormed
<1>4. ASSUME NEW s \in Scanners, NextReaction(s) PROVE (BatchWaits /\ FlightListed)'
  BY <1>0, <1>4 DEF NextReaction, BatchWaits, FlightListed, storeVars, flightVars, Oldest,
     Shape, WellFormed, TypeOK, ScanTypeOK
<1>5. ASSUME NEW s \in Scanners, EndOfList(s) PROVE (BatchWaits /\ FlightListed)'
  BY <1>0, <1>5 DEF EndOfList, Leave, BatchWaits, FlightListed, storeVars, flightVars, Shape,
     WellFormed
<1>6. ASSUME NEW s \in Scanners, Claim(s) PROVE (BatchWaits /\ FlightListed)'
  <2>1. /\ step = "claim" /\ current \in Reactions /\ None \notin Reactions
        /\ row \in [Reactions -> Status] /\ batch \subseteq Reactions /\ inFlight \subseteq Reactions
        /\ batch' = batch
    BY <1>0, <1>6 DEF Claim, Shape, WellFormed, TypeOK, StoreTypeOK, ScanTypeOK, FlightTypeOK
  <2>2. CASE row' = [row EXCEPT ![current] = "running"] /\ step' = "decode"
             /\ inFlight' = inFlight /\ current' = current
    BY <1>0, <2>1, <2>2 DEF BatchWaits, FlightListed
  <2>3. CASE row' = row /\ step' = "next" /\ inFlight' = inFlight \ {current} /\ current' = None
    BY <1>0, <2>1, <2>3 DEF BatchWaits, FlightListed
  <2> QED
    BY <1>6, <2>2, <2>3 DEF Claim, DoneWith, flightVars
<1>7. ASSUME NEW s \in Scanners, Decode(s) PROVE (BatchWaits /\ FlightListed)'
  BY <1>0, <1>7 DEF Decode, DoneWith, BatchWaits, FlightListed, flightVars, Shape, WellFormed
<1>8. ASSUME NEW s \in Scanners, Reject(s) PROVE (BatchWaits /\ FlightListed)'
  BY <1>0, <1>8 DEF Reject, MarkReaction, BatchWaits, FlightListed, flightVars, Shape,
     WellFormed, TypeOK, StoreTypeOK, ScanTypeOK, FlightTypeOK
<1>9. ASSUME NEW s \in Scanners, Send(s) PROVE (BatchWaits /\ FlightListed)'
  BY <1>0, <1>9 DEF Send, BatchWaits, FlightListed, flightVars, storeVars, Shape, WellFormed,
     TypeOK, ScanTypeOK
<1>10. ASSUME NEW s \in Scanners, SendCancelled(s) PROVE (BatchWaits /\ FlightListed)'
  BY <1>0, <1>10 DEF SendCancelled, DoneWith, BatchWaits, FlightListed, storeVars, Shape,
     WellFormed, TypeOK, ScanTypeOK
<1>11. ASSUME NEW w \in Workers, Mark(w) PROVE (BatchWaits /\ FlightListed)'
  <2>1. row[job[w].r] = "running" /\ job[w].r \in Reactions
    BY <1>0, ExclusiveHolds, <1>11 DEF Mark, ClaimedIsRunning, Exclusive, Busy
  <2>2. \/ row' = row
        \/ row' = [row EXCEPT ![job[w].r] = Verdict(w)]
    BY <1>11 DEF Mark, MarkReaction
  <2>3. \A r \in Reactions : row'[r] = row[r] \/ (row[r] = "running" /\ row'[r] \in Terminal)
    BY <1>0, <2>1, <2>2 DEF TypeOK, StoreTypeOK, Verdict, Terminal
  <2>4. UNCHANGED <<step, batch, current, inFlight>>
    BY <1>11 DEF Mark, scanVars, flightVars
  <2>5. batch \subseteq Reactions /\ inFlight \subseteq Reactions
    BY <1>0 DEF TypeOK, ScanTypeOK, FlightTypeOK
  <2> QED
    BY <1>0, <2>3, <2>4, <2>5 DEF BatchWaits, FlightListed, Terminal
<1>12. ASSUME NEW w \in Workers, Finish(w) PROVE (BatchWaits /\ FlightListed)'
  BY <1>0, <1>12 DEF Finish, DoneWith, BatchWaits, FlightListed, storeVars, scanVars
<1>13. ASSUME NEW how, ProcessEnds(how) PROVE (BatchWaits /\ FlightListed)'
  BY <1>13 DEF ProcessEnds, BatchWaits, FlightListed
<1>14. CASE UNCHANGED <<row, step, batch, current, inFlight>>
  BY <1>0, <1>14 DEF BatchWaits, FlightListed
<1> QED
  BY <1>1, <1>2, <1>3, <1>4, <1>5, <1>6, <1>7, <1>8, <1>9, <1>10, <1>11, <1>12, <1>13, <1>14
  DEF Next, Scan, Work, Drain, vars, Crash, Signal, PollerWakes, PollerStops, CallDrain,
      DrainExpires, WaiterCalls, WaiterReturns, DrainReturns, AcquireDrainMu, WorkerBegins,
      WorkerTakes, WorkerExits, HandlerReturns, CallShutdown, CloseJobs, ShutdownCompletes,
      ShutdownExpires, Exit, Over, storeVars, procVars, ctxVars, chanVars, flightVars,
      callerVars, scanVars, workVars

\* What a Drain is called for is on record; no goroutine waits for it before it
\* has scanned.
LEMMA CalledForStep == IInv /\ DrainInv /\ [Next]_vars => CalledFor'
<1> SUFFICES ASSUME IInv, DrainInv, [Next]_vars PROVE CalledFor'
  OBVIOUS
<1>0. TypeOK /\ Shape /\ CallersInOrder /\ FlightListed /\ CalledFor
  BY DEF IInv, DrainInv
<1>1. \A r \in Reactions : row[r] # "none" => row'[r] # "none"
  BY RowSteps DEF RowStep, Terminal
<1>2. \A d \in Drainers : owed[d] \subseteq Reactions
  BY <1>0 DEF TypeOK, ProcTypeOK
<1>3. \A d \in Drainers : \A r \in owed'[d] : row'[r] # "none"
  <2>1. ASSUME NEW d \in Drainers, CallDrain(d)
        PROVE  \A x \in Drainers : \A r \in owed'[x] : row'[r] # "none"
    BY <1>0, <2>1 DEF CallDrain, storeVars, CalledFor, FlightListed, Pending, TypeOK, ProcTypeOK
  <2>2. ASSUME NEW how, ProcessEnds(how)
        PROVE  \A x \in Drainers : \A r \in owed'[x] : row'[r] # "none"
    BY <2>2 DEF ProcessEnds, Volatile
  <2>3. CASE UNCHANGED owed
    BY <1>0, <1>1, <1>2, <2>3 DEF CalledFor
  <2> QED
    BY <2>1, <2>2, <2>3
    DEF Next, Scan, Work, Drain, vars, Start, Record, Crash, Signal, PollerWakes, PollerStops,
        DrainExpires, WaiterCalls, WaiterReturns, DrainReturns, AcquireDrainMu, List,
        NextReaction, EndOfList, Claim, Decode, Reject, Send, SendCancelled, WorkerBegins,
        WorkerTakes, WorkerExits, HandlerReturns, Mark, Finish, CallShutdown, CloseJobs,
        ShutdownCompletes, ShutdownExpires, Exit, Over, procVars, ctxVars, chanVars, flightVars,
        callerVars, scanVars, workVars
<1>4. \A d \in Drainers : pc'[d] \in {"off", "lock", "scan"} => waiter'[d] = "none"
  <2> DEFINE Early == \A d \in Drainers : pc[d] \in {"off", "lock", "scan"} => waiter[d] = "none"
  <2>0. Early /\ waiter \in [Drainers -> {"none", "asleep", "woken", "done"}]
        /\ DOMAIN pc = Scanners /\ Drainers \subseteq Scanners /\ Poller \notin Drainers
    BY <1>0, ConstantsAssumption DEF CalledFor, TypeOK, CallerTypeOK, Scanners
  <2>1. CASE Start \/ PollerWakes \/ PollerStops
    BY <2>0, <2>1 DEF Start, PollerWakes, PollerStops
  <2>2. ASSUME NEW d \in Drainers, CallDrain(d) PROVE Early'
    BY <2>0, <2>2 DEF CallDrain
  <2>3. ASSUME NEW d \in Drainers, WaiterCalls(d) PROVE Early'
    BY <2>0, <2>3 DEF WaiterCalls
  <2>4. ASSUME NEW d \in Drainers, WaiterReturns(d) PROVE Early'
    BY <2>0, <2>4 DEF WaiterReturns, ProcessEnds, Volatile
  <2>5. ASSUME NEW d \in Drainers, DrainReturns(d) PROVE Early'
    BY <2>0, <2>5 DEF DrainReturns
  <2>6. ASSUME NEW s \in Scanners, AcquireDrainMu(s) PROVE Early'
    BY <2>0, <2>6 DEF AcquireDrainMu
  <2>7. ASSUME NEW s \in Scanners, List(s) \/ EndOfList(s) PROVE Early'
    BY <2>0, <2>7 DEF List, EndOfList, Leave
  <2>8. ASSUME NEW s \in Scanners, Claim(s) \/ Decode(s) \/ SendCancelled(s) PROVE Early'
    BY <2>0, <2>8 DEF Claim, Decode, SendCancelled, DoneWith, callerVars
  <2>9. ASSUME NEW w \in Workers, Finish(w) PROVE Early'
    BY <2>0, <2>9 DEF Finish, DoneWith
  <2>10. ASSUME NEW how, ProcessEnds(how) PROVE Early'
    BY <2>10 DEF ProcessEnds, Volatile, Scanners
  <2>11. CASE UNCHANGED callerVars
    BY <2>0, <2>11 DEF callerVars
  <2> QED
    BY <2>1, <2>2, <2>3, <2>4, <2>5, <2>6, <2>7, <2>8, <2>9, <2>10, <2>11
    DEF Next, Scan, Work, Drain, vars, Record, Crash, Signal, DrainExpires,
        NextReaction, Reject, Send, WorkerBegins, WorkerTakes, WorkerExits, HandlerReturns,
        Mark, CallShutdown, CloseJobs, ShutdownCompletes, ShutdownExpires, Exit, Over
<1> QED
  BY <1>3, <1>4 DEF CalledFor

\* A step that neither scans nor puts a reaction in flight.
LEMMA LookedStays ==
  ASSUME NEW d, NEW r, Looked(d, r), row'[r] = "pending" => row[r] = "pending",
         UNCHANGED <<holder, step, batch, current>>, pc'[d] = pc[d],
         r \in inFlight' => r \in inFlight, waiter'[d] = "done" => waiter[d] = "done"
  PROVE  Looked(d, r)'
BY DEF Looked

\* Each step of a scan brings what the Drain was called for nearer to its claim,
\* and what has been claimed does not wait again while the process lives.
LEMMA LookedStep == IInv /\ DrainInv /\ ListingReachesAll /\ [Next]_vars => OwedLooked'
<1> SUFFICES ASSUME IInv, DrainInv, ListingReachesAll, [Next]_vars, faults' = 0,
                    NEW d \in Drainers, d \notin dead', NEW r \in owed'[d], r \in live'
             PROVE  Looked(d, r)'
  BY DEF OwedLooked
<1> USE ConstantsAssumption
<1>0. TypeOK /\ Shape /\ CallersInOrder /\ BatchWaits /\ FlightListed /\ CalledFor /\ OwedLooked
  BY DEF IInv, DrainInv
<1>1. /\ d \in Scanners /\ d # Poller /\ d # None /\ DOMAIN pc = Scanners
      /\ faults \in Nat /\ waiter \in [Drainers -> {"none", "asleep", "woken", "done"}]
      /\ pc[d] = "scan" <=> holder = d
  BY <1>0 DEF TypeOK, StoreTypeOK, CallerTypeOK, CallersInOrder, Scanners
<1>2. CASE Start
  BY <1>0, <1>1, <1>2 DEF Start, Shape, NoProcess, scanVars, Looked
<1>3. CASE CallDrain(d)
  BY <1>1, <1>3 DEF CallDrain, scanVars, Looked
<1>4. ASSUME NEW how, ProcessEnds(how) PROVE Looked(d, r)'
  BY <1>4 DEF ProcessEnds, Volatile
<1>5. ASSUME owed'[d] = owed[d], live' = live, dead \subseteq dead', faults' # 0 \/ faults = 0,
             proc = "up" \/ proc' = proc
      PROVE  /\ Looked(d, r) /\ d \notin dead /\ faults = 0 /\ r \in live /\ r \in owed[d]
             /\ row'[r] = "pending" => row[r] = "pending"
  <2>1. d \notin dead /\ faults = 0 /\ r \in live /\ r \in owed[d] /\ r \in Reactions
    BY <1>0, <1>5 DEF TypeOK, ProcTypeOK
  <2>2. Looked(d, r) /\ row[r] # "none"
    BY <1>0, <2>1 DEF OwedLooked, CalledFor
  <2>3. RowStep(r)
    BY <2>1, RowSteps
  <2> QED
    BY <1>5, <2>1, <2>2, <2>3 DEF RowStep, Terminal
<1>6. ASSUME NEW s \in Scanners, AcquireDrainMu(s) PROVE Looked(d, r)'
  <2>1. Looked(d, r) /\ row' = row /\ inFlight' = inFlight /\ waiter' = waiter
        /\ UNCHANGED <<step, batch, current>> /\ holder' = s /\ step = "list"
    BY <1>0, <1>5, <1>6 DEF AcquireDrainMu, storeVars, procVars, ctxVars, flightVars, Shape, WellFormed
  <2>2. pc'[d] = IF s = d THEN "scan" ELSE pc[d]
    BY <1>1, <1>6 DEF AcquireDrainMu
  <2> QED
    BY <1>1, <2>1, <2>2 DEF Looked
<1>7. ASSUME NEW s \in Scanners, List(s) PROVE Looked(d, r)'
  <2>1. /\ faults = 0 \/ faults' # 0
        /\ owed' = owed /\ live' = live /\ dead' = dead /\ proc' = proc
    BY <1>1, <1>7 DEF List, Refused, Fault, procVars, ctxVars
  <2>2. Looked(d, r) /\ d \notin dead /\ faults = 0 /\ r \in owed[d]
    BY <1>5, <2>1
  <2>3. row' = row /\ inFlight' = inFlight /\ waiter' = waiter /\ holder = s /\ step = "list"
    BY <1>7 DEF List, flightVars
  <2>4. CASE s # d
    <3>1. holder' # d /\ pc'[d] = pc[d]
      BY <1>1, <1>7, <2>3, <2>4 DEF List, Leave
    <3> QED
      BY <2>2, <2>3, <3>1 DEF Looked
  <2>5. CASE s = d
    <3>1. waiter[d] = "none" /\ pc[d] = "scan"
      BY <1>0, <1>1, <2>3, <2>5 DEF CalledFor
    <3>2. CASE Pending = {} /\ Leave
      <4>1. row[r] # "pending"
        BY <1>0, <2>2, <3>2 DEF Pending, TypeOK, ProcTypeOK
      <4>2. holder' # d
        BY <1>1, <3>2 DEF Leave
      <4> QED
        BY <2>3, <3>1, <4>1, <4>2 DEF Looked
    <3>3. CASE batch' = Oldest(Pending, PollLimit) /\ step' = "next" /\ pc' = pc
      <4>1. row[r] = "pending" => r \in batch'
        BY <1>0, <2>2, <3>3, AllListed DEF Pending, TypeOK, ProcTypeOK
      <4> QED
        BY <2>3, <3>1, <3>3, <4>1 DEF Looked
    <3> QED
      BY <1>1, <1>7, <2>2, <2>5, <3>2, <3>3 DEF List, Refused, Fault
  <2> QED
    BY <2>4, <2>5
<1>8. ASSUME NEW s \in Scanners, NextReaction(s) PROVE Looked(d, r)'
  <2>1. /\ Looked(d, r) /\ row' = row /\ pc' = pc /\ waiter' = waiter /\ holder' = holder
        /\ step = "next" /\ holder = s
    BY <1>5, <1>8 DEF NextReaction, storeVars, procVars, ctxVars, callerVars
  <2>2. PICK x \in batch : /\ batch' = batch \ {x} /\ x \notin inFlight /\ row[x] = "pending"
                           /\ inFlight' = inFlight \union {x} /\ current' = x /\ step' = "claim"
    <3>1. \A x \in Oldest(batch, 1) : x \in batch
      BY DEF Oldest
    <3> QED
      BY <1>0, <1>8, <3>1 DEF NextReaction, BatchWaits
  <2>3. holder = d => pc[d] = "scan"
    BY <1>1
  <2> QED
    BY <2>1, <2>2, <2>3 DEF Looked
<1>9. ASSUME NEW s \in Scanners, EndOfList(s) PROVE Looked(d, r)'
  <2>1. /\ Looked(d, r) /\ d \notin dead /\ row' = row /\ inFlight' = inFlight /\ waiter' = waiter
        /\ step = "next" /\ holder = s
    BY <1>5, <1>9 DEF EndOfList, storeVars, procVars, ctxVars, flightVars
  <2>2. CASE s # d
    <3>1. holder' # d /\ pc'[d] = pc[d]
      BY <1>1, <1>9, <2>1, <2>2 DEF EndOfList, Leave
    <3> QED
      BY <2>1, <3>1 DEF Looked
  <2>3. CASE s = d
    <3>1. waiter[d] = "none" /\ pc[d] = "scan" /\ batch = {} /\ row[r] # "pending"
      BY <1>0, <1>1, <1>9, <2>1, <2>3 DEF CalledFor, EndOfList, Looked
    <3> QED
      BY <2>1, <3>1 DEF Looked
  <2> QED
    BY <2>2, <2>3
<1>10. ASSUME NEW s \in Scanners, Claim(s) PROVE Looked(d, r)'
  <2>1. /\ faults = 0 \/ faults' # 0
        /\ owed' = owed /\ live' = live /\ dead' = dead /\ proc' = proc
    BY <1>1, <1>10 DEF Claim, Refused, Fault, procVars, ctxVars
  <2>2. Looked(d, r) /\ d \notin dead /\ faults = 0 /\ r \in live
        /\ (row'[r] = "pending" => row[r] = "pending") /\ r \in Reactions
    BY <1>0, <1>5, <2>1 DEF TypeOK, ProcTypeOK
  <2>3. /\ pc' = pc /\ holder' = holder /\ holder = s /\ batch' = batch /\ step = "claim"
        /\ inFlight' \subseteq inFlight /\ (waiter'[d] = "done" => waiter[d] = "done")
    BY <1>1, <1>10 DEF Claim, DoneWith, flightVars
  <2>4. CASE holder = d
    <3>1. pc[d] = "scan"
      BY <1>1, <2>4
    <3>2. row'[r] = "pending" => r # current
      BY <1>0, <1>1, <1>10, <2>2, <2>3, <2>4 DEF Claim, Refused, Fault, TypeOK, StoreTypeOK
    <3> QED
      BY <2>2, <2>3, <3>1, <3>2 DEF Looked
  <2>5. CASE holder # d
    BY <2>2, <2>3, <2>5 DEF Looked
  <2> QED
    BY <2>4, <2>5
<1>11. ASSUME NEW s \in Scanners, Decode(s) \/ Reject(s) \/ Send(s) \/ SendCancelled(s)
       PROVE  Looked(d, r)'
  <2>1. /\ faults = 0 \/ faults' # 0
        /\ owed' = owed /\ live' = live /\ dead' = dead /\ proc' = proc
    BY <1>1, <1>11 DEF Decode, Reject, Send, SendCancelled, Refused, Fault, procVars, ctxVars,
       storeVars
  <2>2. Looked(d, r) /\ (row'[r] = "pending" => row[r] = "pending")
    BY <1>5, <2>1
  <2>3. /\ pc' = pc /\ holder' = holder /\ batch' = batch /\ step \notin {"list", "claim"}
        /\ inFlight' \subseteq inFlight /\ (waiter'[d] = "done" => waiter[d] = "done")
    BY <1>1, <1>11 DEF Decode, Reject, Send, SendCancelled, DoneWith, flightVars, callerVars
  <2> QED
    BY <2>2, <2>3 DEF Looked
<1>12. ASSUME NEW x \in Drainers, WaiterCalls(x) \/ (WaiterReturns(x) /\ pending = 0)
       PROVE  Looked(d, r)'
  <2>1. /\ Looked(d, r) /\ row' = row /\ inFlight' = inFlight /\ pc' = pc
        /\ UNCHANGED <<holder, step, batch, current>>
    BY <1>5, <1>12 DEF WaiterCalls, WaiterReturns, ProcessEnds, storeVars, procVars, ctxVars,
       flightVars, scanVars
  <2>2. waiter'[d] = "done" => waiter[d] = "done" \/ pending = 0
    BY <1>1, <1>12 DEF WaiterCalls, WaiterReturns, ProcessEnds
  <2>3. pending = 0 => inFlight = {}
    <3>1. IsFiniteSet(inFlight)
      BY FS_Subset DEF IInv, TypeOK, FlightTypeOK
    <3> QED
      BY <3>1, FS_EmptySet DEF IInv, PendingCountsFlight
  <2> QED
    BY <2>1, <2>2, <2>3 DEF Looked
<1>13. ASSUME NEW x \in Drainers, x # d,
              CallDrain(x) \/ DrainExpires(x) \/ DrainReturns(x)
       PROVE  Looked(d, r)'
  <2>1. /\ faults' = faults /\ owed'[d] = owed[d] /\ live' = live /\ dead \subseteq dead'
        /\ proc' = proc
    BY <1>0, <1>13 DEF CallDrain, DrainExpires, DrainReturns, Cancel, storeVars, procVars, ctxVars,
       TypeOK, ProcTypeOK
  <2>2. /\ UNCHANGED <<row, holder, step, batch, current, inFlight, waiter>> /\ pc'[d] = pc[d]
    BY <1>1, <1>13 DEF CallDrain, DrainExpires, DrainReturns, storeVars, scanVars, flightVars,
       callerVars
  <2> QED
    BY <1>5, <2>1, <2>2, LookedStays
<1>14. CASE PollerWakes \/ PollerStops
  BY <1>1, <1>5, <1>14, LookedStays DEF PollerWakes, PollerStops, storeVars, procVars, ctxVars,
     flightVars, scanVars
<1>15. ASSUME NEW w \in Workers, Work(w) PROVE Looked(d, r)'
  <2>1. /\ faults = 0 \/ faults' # 0
        /\ owed' = owed /\ live' = live /\ dead' = dead /\ proc' = proc
    BY <1>1, <1>15 DEF Work, WorkerBegins, WorkerTakes, WorkerExits, HandlerReturns, Mark, Finish,
       Refused, Fault, procVars, ctxVars, storeVars
  <2>2. Looked(d, r) /\ (row'[r] = "pending" => row[r] = "pending")
    BY <1>5, <2>1
  <2>3. /\ UNCHANGED <<pc, holder, batch, step, current>>
        /\ inFlight' \subseteq inFlight /\ (waiter'[d] = "done" => waiter[d] = "done")
    BY <1>1, <1>15 DEF Work, WorkerBegins, WorkerTakes, WorkerExits, HandlerReturns, Mark, Finish,
       DoneWith, flightVars, callerVars, scanVars
  <2> QED
    BY <2>2, <2>3, LookedStays
<1>16. CASE \/ Signal \/ CallShutdown \/ ShutdownCompletes \/ ShutdownExpires
            \/ CloseJobs
            \/ \E e \in Events : Record(e)
            \/ UNCHANGED vars
  <2>1. \/ \E how : ProcessEnds(how)
        \/ /\ faults' = faults /\ owed' = owed /\ live' = live /\ dead \subseteq dead'
           /\ proc' = proc
           /\ UNCHANGED <<pc, waiter, holder, batch, step, current, inFlight>>
    BY <1>16 DEF Signal, CallShutdown, ShutdownCompletes, ShutdownExpires, CloseJobs, Record,
       Cancel, Dispatch, Notify, RecordEventReactions, storeVars, procVars, ctxVars, flightVars,
       callerVars, scanVars, vars
  <2> QED
    BY <1>4, <1>5, <2>1, LookedStays
<1>17. \A x \in Drainers : DrainExpires(x) \/ DrainReturns(x) => x # d
  BY DEF DrainExpires, DrainReturns, Cancel
<1>18. \A x \in Drainers : WaiterReturns(x) => pending = 0 \/ \E how : ProcessEnds(how)
  BY DEF WaiterReturns
<1>19. Crash \/ Exit => \E how : ProcessEnds(how)
  BY DEF Crash, Exit
<1> QED
  BY <1>2, <1>3, <1>4, <1>6, <1>7, <1>8, <1>9, <1>10, <1>11, <1>12, <1>13, <1>14, <1>15, <1>16,
     <1>17, <1>18, <1>19
  DEF Next, Scan, Drain, Over

\* At first nothing is listed, in flight or owed.
LEMMA DrainInvInit == Init => DrainInv
BY DEF Init, DrainInv, BatchWaits, FlightListed, CalledFor, OwedLooked, Volatile

\* When Drain returns nil in time, nothing it was called for is left, unless a
\* store operation failed or more reactions waited than a listing returns.
THEOREM DrainLeavesNone == Spec /\ []ListingReachesAll => DrainLeavesNothing
<1>1. IInv /\ DrainInv /\ ListingReachesAll /\ [Next]_vars => DrainInv'
  BY BatchStep, CalledForStep, LookedStep DEF DrainInv
<1>2. IInv /\ DrainInv /\ [Next]_vars =>
        [\A d \in Drainers :
           pc[d] = "wait" /\ pc'[d] = "drained" /\ d \notin dead /\ faults = 0 =>
             \A r \in owed[d] \intersect live : r \notin inFlight /\ row[r] # "pending"]_vars
  <2> SUFFICES ASSUME IInv, DrainInv, [Next]_vars, NEW d \in Drainers,
                      pc[d] = "wait", pc'[d] = "drained", d \notin dead, faults = 0,
                      NEW r \in owed[d] \intersect live
               PROVE  r \notin inFlight /\ row[r] # "pending"
    OBVIOUS
  <2>1. waiter[d] = "done"
    <3>0. DOMAIN pc = Scanners /\ holder \in Scanners \union {None}
          /\ \A s \in Scanners : pc[s] = "scan" <=> holder = s
      BY DEF IInv, TypeOK, CallerTypeOK, ScanTypeOK, CallersInOrder
    <3>1. d \in Scanners /\ d # Poller
      BY ConstantsAssumption DEF Scanners
    <3>2. CASE Start \/ PollerWakes \/ PollerStops
      BY <3>0, <3>1, <3>2 DEF Start, PollerWakes, PollerStops
    <3>3. ASSUME NEW x \in Drainers, CallDrain(x) \/ DrainReturns(x) PROVE waiter[d] = "done"
      BY <3>0, <3>1, <3>3 DEF CallDrain, DrainReturns
    <3>4. ASSUME NEW s \in Scanners, AcquireDrainMu(s) \/ List(s) \/ EndOfList(s)
          PROVE  FALSE
      BY <3>0, <3>1, <3>4 DEF AcquireDrainMu, List, EndOfList, Leave
    <3>5. ASSUME NEW how, ProcessEnds(how) PROVE FALSE
      BY <3>1, <3>5 DEF ProcessEnds, Volatile
    <3>6. pc' # pc
      OBVIOUS
    <3> QED
      BY <3>2, <3>3, <3>4, <3>5, <3>6
      DEF Next, Scan, Work, Drain, vars, Record, Crash, Signal, DrainExpires, WaiterCalls,
          WaiterReturns, NextReaction, Claim, Decode, Reject, Send, SendCancelled, WorkerBegins,
          WorkerTakes, WorkerExits, HandlerReturns, Mark, Finish, CallShutdown, CloseJobs,
          ShutdownCompletes, ShutdownExpires, Exit, Over, callerVars
  <2> QED
    BY <2>1 DEF DrainInv, OwedLooked, Looked
<1> QED
  BY DrainInvInit, Invariance, <1>1, <1>2, PTL DEF Spec, DrainLeavesNothing

=============================================================================
