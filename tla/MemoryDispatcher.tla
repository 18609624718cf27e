-------------------------- MODULE MemoryDispatcher --------------------------
(***************************************************************************)
(* The bus that keeps its events in memory (pkg/waffle: bus.go,            *)
(* dispatcher.go, memory_store.go): callers record, workers run handlers,  *)
(* handlers record in turn.                                                *)
(*                                                                         *)
(* Record holds stateMu for reading while it sends on a bounded channel;   *)
(* Shutdown takes stateMu for writing, closes the channel and waits for    *)
(* the workers.  A writer that waits holds up new readers.                 *)
(***************************************************************************)
EXTENDS Integers, Sequences, FiniteSets

CONSTANTS
  Recorders,   \* callers outside the bus: each records one event
  Workers,     \* the goroutines of the pool
  Drainers,    \* callers of Drain
  Events,      \* what is recorded
  EventOf,     \* the event each recorder records
  HandlersOf,    \* the number of handlers registered for an event
  Follow,      \* the event that each handler of an event records, or None
  QueueCap,    \* the capacity of the channel (64 for each worker)
  None

\* WithWorkers takes a positive number; workers are no callers from outside.
ASSUME BusAssumption ==
  /\ IsFiniteSet(Recorders) /\ IsFiniteSet(Workers) /\ Workers # {}
  /\ Recorders \intersect Workers = {}
  /\ EventOf \in [Recorders -> Events] /\ HandlersOf \in [Events -> Nat]
  /\ Follow \in [Events -> Events \union {None}]

Callers == Recorders \union Workers

VARIABLES
  store,     \* MemoryStore.events
  started,   \* EventBus.started
  closed,    \* EventBus.closed
  readers,   \* who holds stateMu for reading
  jobs,      \* the channel
  jobsOpen,  \* it is not closed
  pending,   \* the wait group of the jobs
  call,      \* the Record each caller is in
  worker,    \* what each worker does
  shutdown,  \* where Shutdown is, or what it returned
  drain,     \* where each Drain is, or what it returned
  owed,      \* for each Drain: the events accepted before it was called
  ended,     \* the recorders whose context has ended
  accepted,  \* for each event: how often its Record returned nil
  handled,   \* for each event: how many of its handlers have returned
  panicked   \* the process has panicked

busVars == <<store, started, closed, readers, jobs, jobsOpen, pending, call, worker,
          shutdown, drain, owed, ended, accepted, handled, panicked>>

\* No Record, no job; ctx is the recorder whose context was handed down.
NoRecord == [pc |-> "idle", event |-> None, left |-> 0, ctx |-> None]
NoJob  == [event |-> None, ctx |-> None]

BusInit ==
  /\ store = <<>> /\ started = FALSE /\ closed = FALSE /\ readers = {}
  /\ jobs = <<>> /\ jobsOpen = TRUE /\ pending = 0
  /\ call = [c \in Callers |->
               IF c \in Recorders
                 THEN [pc |-> "lock", event |-> EventOf[c], left |-> 0, ctx |-> c]
                 ELSE NoRecord]
  /\ worker = [w \in Workers |-> [pc |-> "none", job |-> NoJob]]
  /\ shutdown = "none"
  /\ drain = [d \in Drainers |-> "none"] /\ owed = [d \in Drainers |-> [e \in Events |-> 0]]
  /\ ended = {}
  /\ accepted = [e \in Events |-> 0] /\ handled = [e \in Events |-> 0]
  /\ panicked = FALSE

-----------------------------------------------------------------------------
(* Record.                                                                    *)

\* A plausible bug: the lock is not released when the context ends the call.
ReleaseUnlessEnded(c) == IF call[c].ctx \in ended THEN readers ELSE readers \ {c}

\* The deferred RUnlock.
Release(c) == readers \ {c}

\* The call of c is over, with nil or with an error.
Returns(c, nil) ==
  /\ readers' = Release(c)
  /\ call' = [call EXCEPT ![c] = NoRecord]
  /\ accepted' = IF nil THEN [accepted EXCEPT ![call[c].event] = @ + 1] ELSE accepted

\* Shutdown waits for, or has, the lock.
WriterWaits == shutdown = "lock"

\* stateMu.RLock, the checks of Record, and Append.
Enter(c) ==
  LET e == call[c].event IN
  /\ ~panicked /\ call[c].pc = "lock" /\ ~WriterWaits
  /\ IF closed \/ ~started \/ call[c].ctx \in ended
       THEN Returns(c, FALSE) /\ UNCHANGED <<store, pending>>
       ELSE /\ store' = Append(store, e)
            /\ IF HandlersOf[e] = 0
                 THEN Returns(c, TRUE) /\ UNCHANGED pending
                 ELSE /\ readers' = readers \union {c}
                      /\ call' = [call EXCEPT ![c].pc = "send", ![c].left = HandlersOf[e]]
                      /\ pending' = pending + 1
                      /\ UNCHANGED accepted
  /\ UNCHANGED <<started, closed, jobs, jobsOpen, worker, shutdown, drain, owed,
                 ended, handled, panicked>>

\* The job of one more handler goes on the channel; sending on the closed channel
\* panics.
Send(c) ==
  /\ ~panicked /\ call[c].pc = "send"
  /\ \/ /\ jobsOpen /\ Len(jobs) < QueueCap
        /\ jobs' = Append(jobs, [event |-> call[c].event, ctx |-> call[c].ctx])
        /\ IF call[c].left = 1
             THEN Returns(c, TRUE) /\ UNCHANGED pending
             ELSE /\ call' = [call EXCEPT ![c].left = @ - 1]
                  /\ pending' = pending + 1
                  /\ UNCHANGED <<readers, accepted>>
        /\ UNCHANGED panicked
     \/ /\ ~jobsOpen
        /\ panicked' = TRUE
        /\ UNCHANGED <<jobs, readers, call, accepted, pending>>
  /\ UNCHANGED <<store, started, closed, jobsOpen, worker, shutdown, drain, owed,
                 ended, handled>>

\* Those who wait for the last job are woken.
Woken(n) == IF n = 0 THEN [d \in Drainers |-> IF drain[d] = "wait" THEN "woken" ELSE drain[d]]
                     ELSE drain

\* The context ends while the channel is full: what was queued stays queued.
GiveUp(c) ==
  /\ ~panicked /\ call[c].pc = "send" /\ call[c].ctx \in ended
  /\ Returns(c, FALSE)
  /\ pending' = pending - 1
  /\ drain' = Woken(pending - 1)
  /\ UNCHANGED <<store, started, closed, jobs, jobsOpen, worker, shutdown, owed,
                 ended, handled, panicked>>

ContextEnds(r) ==
  /\ r \notin ended
  /\ ended' = ended \union {r}
  /\ UNCHANGED <<store, started, closed, readers, jobs, jobsOpen, pending, call,
                 worker, shutdown, drain, owed, accepted, handled, panicked>>

-----------------------------------------------------------------------------
(* The workers.                                                               *)

StartWorkers ==
  /\ ~started /\ ~closed /\ readers = {} /\ ~WriterWaits /\ ~panicked
  /\ started' = TRUE
  /\ worker' = [w \in Workers |-> [pc |-> "idle", job |-> NoJob]]
  /\ UNCHANGED <<store, closed, readers, jobs, jobsOpen, pending, call, shutdown,
                 drain, owed, ended, accepted, handled, panicked>>

\* A worker takes a job and its handler starts, with a Record if it makes one.
TakeJob(w) ==
  LET job == Head(jobs) IN
  /\ ~panicked /\ worker[w].pc = "idle" /\ jobs # <<>>
  /\ jobs' = Tail(jobs)
  /\ worker' = [worker EXCEPT ![w] = [pc |-> "run", job |-> job]]
  /\ call' = IF Follow[job.event] = None THEN call
             ELSE [call EXCEPT ![w] = [pc |-> "lock", event |-> Follow[job.event],
                                       left |-> 0, ctx |-> job.ctx]]
  /\ UNCHANGED <<store, started, closed, readers, jobsOpen, pending, shutdown,
                 drain, owed, ended, accepted, handled, panicked>>

\* The handler returns, fails or panics, and Done is called in every case.
FinishJob(w) ==
  /\ ~panicked /\ worker[w].pc = "run" /\ call[w].pc = "idle"
  /\ worker' = [worker EXCEPT ![w] = [pc |-> "idle", job |-> NoJob]]
  /\ handled' = [handled EXCEPT ![worker[w].job.event] = @ + 1]
  /\ pending' = pending - 1
  /\ drain' = Woken(pending - 1)
  /\ UNCHANGED <<store, started, closed, readers, jobs, jobsOpen, call, shutdown,
                 owed, ended, accepted, panicked>>

\* A plausible bug: a worker leaves what is still in the channel.
LeavesQueue == ~jobsOpen

\* A worker leaves the range over the channel: it is closed and empty.
QueueEnds == ~jobsOpen /\ jobs = <<>>

WorkerEnds(w) ==
  /\ ~panicked /\ worker[w].pc = "idle" /\ QueueEnds
  /\ worker' = [worker EXCEPT ![w].pc = "gone"]
  /\ UNCHANGED <<store, started, closed, readers, jobs, jobsOpen, pending, call,
                 shutdown, drain, owed, ended, accepted, handled, panicked>>

-----------------------------------------------------------------------------
(* Drain and Shutdown.                                                        *)

\* Drain: WaitGroup.Wait in a goroutine of its own.
Drain(d) ==
  /\ ~panicked /\ drain[d] = "none"
  /\ drain' = [drain EXCEPT ![d] = IF pending = 0 THEN "nil" ELSE "wait"]
  /\ owed' = [owed EXCEPT ![d] = accepted]
  /\ UNCHANGED <<store, started, closed, readers, jobs, jobsOpen, pending, call,
                 worker, shutdown, ended, accepted, handled, panicked>>

\* A woken Wait panics if the group is already in use again.
Wakes(d) ==
  /\ ~panicked /\ drain[d] = "woken"
  /\ IF pending # 0 THEN panicked' = TRUE /\ UNCHANGED drain
     ELSE drain' = [drain EXCEPT ![d] = "nil"] /\ UNCHANGED panicked
  /\ UNCHANGED <<store, started, closed, readers, jobs, jobsOpen, pending, call,
                 worker, shutdown, owed, ended, accepted, handled>>

\* Shutdown waits for the lock, whatever its context says.
CallShutdown ==
  /\ ~panicked /\ shutdown = "none"
  /\ shutdown' = "lock"
  /\ UNCHANGED <<store, started, closed, readers, jobs, jobsOpen, pending, call,
                 worker, drain, owed, ended, accepted, handled, panicked>>

CloseBus ==
  /\ ~panicked /\ shutdown = "lock" /\ readers = {}
  /\ closed' = TRUE
  /\ shutdown' = IF started THEN "close" ELSE "nil"
  /\ UNCHANGED <<store, started, readers, jobs, jobsOpen, pending, call, worker,
                 drain, owed, ended, accepted, handled, panicked>>

CloseJobs ==
  /\ ~panicked /\ shutdown = "close"
  /\ jobsOpen' = FALSE /\ shutdown' = "wait"
  /\ UNCHANGED <<store, started, closed, readers, jobs, pending, call, worker,
                 drain, owed, ended, accepted, handled, panicked>>

WorkersGone == \A w \in Workers : worker[w].pc = "gone"

ShutdownReturns ==
  /\ ~panicked /\ shutdown = "wait" /\ WorkersGone
  /\ shutdown' = "nil"
  /\ UNCHANGED <<store, started, closed, readers, jobs, jobsOpen, pending, call,
                 worker, drain, owed, ended, accepted, handled, panicked>>

\* The context of Shutdown, or of a Drain, ends while it waits.
ShutdownExpires ==
  /\ ~panicked /\ shutdown = "wait"
  /\ shutdown' = "error"
  /\ UNCHANGED <<store, started, closed, readers, jobs, jobsOpen, pending, call,
                 worker, drain, owed, ended, accepted, handled, panicked>>

DrainExpires(d) ==
  /\ ~panicked /\ drain[d] = "wait"
  /\ drain' = [drain EXCEPT ![d] = "error"]
  /\ UNCHANGED <<store, started, closed, readers, jobs, jobsOpen, pending, call,
                 worker, shutdown, owed, ended, accepted, handled, panicked>>

\* What goes on by itself while goroutines run and handlers return.
Proceeds ==
  \/ \E c \in Callers : Enter(c) \/ Send(c)
  \/ \E w \in Workers : TakeJob(w) \/ FinishJob(w) \/ WorkerEnds(w)
  \/ \E d \in Drainers : Wakes(d)
  \/ CloseBus \/ CloseJobs \/ ShutdownReturns

BusNext ==
  \/ Proceeds
  \/ \E c \in Callers : GiveUp(c)
  \/ \E r \in Recorders : ContextEnds(r)
  \/ StartWorkers \/ CallShutdown \/ ShutdownExpires
  \/ \E d \in Drainers : Drain(d) \/ DrainExpires(d)

BusSpec     == BusInit /\ [][BusNext]_busVars
FairBusSpec == BusSpec /\ WF_busVars(Proceeds)

-----------------------------------------------------------------------------
(* Properties.                                                                *)

\* Every handler of e has returned for each time e was accepted.
HandledAll(e, times) == handled[e] >= times[e] * HandlersOf[e]

\* Drain and Shutdown that return nil mean it: what was accepted before, by
\* callers or by handlers, has been handled by each handler; no handler is run
\* twice, nor for an event that is not in the store; and no Record sends on the
\* channel that Shutdown has closed (bus.go, dispatcher.go).
NilMeansHandled ==
  /\ shutdown = "nil" => \A e \in Events : HandledAll(e, accepted)
  /\ \A d \in Drainers : drain[d] = "nil" => \A e \in Events : HandledAll(e, owed[d])
  /\ \A e \in Events :
       handled[e] <= HandlersOf[e] * Cardinality({i \in DOMAIN store : store[i] = e})
  /\ ~jobsOpen => \A c \in Callers : call[c].pc # "send"

\* The queue is full, and each worker that could empty it is in a handler whose
\* Record waits behind Shutdown, which waits for a Record that is queueing.
Entangled ==
  /\ WriterWaits /\ Len(jobs) = QueueCap /\ readers # {}
  /\ \A w \in Workers : call[w].pc \in {"lock", "send"}

\* Shutdown ends without the help of its context, which it does not look at
\* before it has the lock, unless handlers record, the queue is full and the three
\* wait for one another (bus.go Shutdown, dispatcher.go Dispatch).
ShutdownEnds ==
  shutdown = "lock" ~> (shutdown \in {"nil", "error"} \/ Entangled \/ panicked)

=============================================================================
