------------------------- MODULE ReactionDispatcher -------------------------
(***************************************************************************)
(* Durable handler reactions of the waffle event bus: the rows of          *)
(* waffle_reactions (pkg/waffle/sqlite/store.go), the dispatcher that      *)
(* claims and runs them (pkg/waffle/reaction_dispatcher.go) and the part   *)
(* of EventBus that opens and closes it (pkg/waffle/bus.go).               *)
(*                                                                         *)
(* One process at a time owns the database.  In it run the poller, the     *)
(* callers of Drain, the caller of Shutdown and the workers; the process   *)
(* may end at any step and be started again on the same rows.              *)
(***************************************************************************)
EXTENDS Naturals, Sequences, FiniteSets

CONSTANTS
  Reactions,      \* the reaction rows; the number is the rank of created_at
  Events,         \* the events that may be recorded
  EventOf,        \* [Reactions -> Events]
  Registrations,  \* the sets of reactions whose handler a process may register
  Workers,        \* worker goroutines of one process
  Drainers,       \* callers of Drain, each with a context of its own
  Poller,         \* the poller goroutine
  None,
  PollLimit,      \* rows of one ListPendingReactions (100 in the code)
  QueueCap,       \* capacity of the jobs channel (workers*64 in the code)
  MaxLives,       \* bound: processes started, one after the other
  MaxFaults,      \* bound: store operations that fail
  Ticking,        \* FALSE: the poll ticker never fires, only wake does
  HooksInOrder    \* TRUE: Shutdown is called after Drain returned (runtime.go)

Scanners == Drainers \union {Poller}

ASSUME ConstantsAssumption ==
  /\ Reactions \subseteq Nat
  /\ IsFiniteSet(Reactions)
  /\ EventOf \in [Reactions -> Events]
  /\ Registrations \subseteq SUBSET Reactions
  /\ Poller \notin Drainers
  /\ None \notin Reactions \union Scanners
  /\ PollLimit \in Nat \ {0}
  /\ QueueCap \in Nat \ {0}
  /\ MaxLives \in Nat
  /\ MaxFaults \in Nat
  /\ Ticking \in BOOLEAN
  /\ HooksInOrder \in BOOLEAN

VARIABLES
  row,       \* durable: status of each reaction, "none" before it is recorded
  outcomes,  \* history: what the attempts at each reaction came to
  calls,     \* history: handler calls of each reaction by this process
  proc,      \* "up", "down", or the panic that ended it
  lives,     \* processes started so far
  faults,    \* store operations that failed so far
  live,      \* reactions whose handler this process has registered
  dead,      \* scanners whose context is cancelled or past its deadline
  shutdown,  \* where the call of Shutdown is
  open,      \* d.jobs is an open channel (FALSE: closed and set to nil)
  jobs,      \* contents of the channel
  wake,      \* the wake channel holds its token
  inFlight,  \* d.inFlight
  pending,   \* counter of the WaitGroup d.pending
  pc,        \* where each scanner is
  waiter,    \* the goroutine of waitContext in each Drain
  owed,      \* history: reactions waiting or in flight when each Drain was called
  holder,    \* scanner that holds drainMu
  step,      \* where the holder is inside drainPending and enqueue
  batch,     \* listed reactions the holder has not looked at
  current,   \* reaction the holder is enqueueing
  queued,    \* the holder queued something of this listing
  full,      \* this listing had pollLimit rows
  wpc,       \* where each worker is
  job        \* the job each worker runs

storeVars  == <<row, outcomes, faults>>
procVars   == <<calls, owed, proc, lives, live>>
ctxVars    == <<dead, shutdown>>
chanVars   == <<open, jobs, wake>>
flightVars == <<inFlight, pending>>
callerVars == <<pc, waiter>>
scanVars   == <<holder, step, batch, current, queued, full>>
workVars   == <<wpc, job>>
vars == <<storeVars, procVars, ctxVars, chanVars, flightVars, callerVars,
          scanVars, workVars>>

Status   == {"none", "pending", "running", "succeeded", "failed"}
Terminal == {"succeeded", "failed"}
Outcome  == {"ok", "err", "undecodable"}
Job      == [r : Reactions, by : Scanners]

Settled(r)   == row[r] \in Terminal
Pending      == {r \in Reactions : row[r] = "pending"}
Oldest(S, n) == {r \in S : Cardinality({q \in S : q < r}) < n}

\* A process that has started nothing.
Volatile ==
  [calls  |-> [r \in Reactions |-> 0],
   pc     |-> [s \in Scanners |-> "off"],
   waiter |-> [d \in Drainers |-> "none"],
   wpc    |-> [w \in Workers |-> "off"],
   job    |-> [w \in Workers |-> None],
   owed   |-> [d \in Drainers |-> {}]]

Init ==
  /\ row = [r \in Reactions |-> "none"]
  /\ outcomes = [r \in Reactions |-> {}]
  /\ proc = "down" /\ lives = 0 /\ faults = 0
  /\ calls = Volatile.calls /\ live = {} /\ dead = {} /\ shutdown = "none"
  /\ open = FALSE /\ jobs = <<>> /\ wake = FALSE
  /\ inFlight = {} /\ pending = 0
  /\ pc = Volatile.pc /\ waiter = Volatile.waiter /\ owed = Volatile.owed
  /\ holder = None /\ step = "list" /\ batch = {} /\ current = None
  /\ queued = FALSE /\ full = FALSE
  /\ wpc = Volatile.wpc /\ job = Volatile.job

(***************************************************************************)
(* The process.                                                            *)
(***************************************************************************)

\* ResetRunningReactions; before it, the same left out and without its WHERE clause.
ResetNothing == row
ResetAll     == [r \in Reactions |-> IF row[r] = "none" THEN "none" ELSE "pending"]
ResetRunning ==
  [r \in Reactions |-> IF row[r] = "running" THEN "pending" ELSE row[r]]

\* EventBus.Start, after the process registered its handlers: running rows go
\* back to pending, then the workers and the poller are spawned.
Start ==
  /\ proc # "up" /\ lives < MaxLives
  /\ proc' = "up" /\ lives' = lives + 1
  /\ live' \in Registrations
  /\ row' = ResetRunning
  /\ open' = TRUE
  /\ pc'  = [pc EXCEPT ![Poller] = "lock"]
  /\ wpc' = [w \in Workers |-> "new"]
  /\ UNCHANGED <<outcomes, faults, calls, owed, ctxVars, jobs, wake, flightVars,
                 waiter, scanVars, job>>

\* What was in memory is gone; the rows stay.
ProcessEnds(how) ==
  /\ proc' = how
  /\ calls' = Volatile.calls /\ live' = {} /\ dead' = {} /\ shutdown' = "none"
  /\ open' = FALSE /\ jobs' = <<>> /\ wake' = FALSE
  /\ inFlight' = {} /\ pending' = 0
  /\ pc' = Volatile.pc /\ waiter' = Volatile.waiter /\ owed' = Volatile.owed
  /\ holder' = None /\ step' = "list" /\ batch' = {} /\ current' = None
  /\ queued' = FALSE /\ full' = FALSE
  /\ wpc' = Volatile.wpc /\ job' = Volatile.job
  /\ UNCHANGED <<storeVars, lives>>

Crash == proc = "up" /\ ProcessEnds("down")

\* The context of s is cancelled or passes its deadline; first the call left out.
CancelNothing(s) == UNCHANGED dead
Cancel(s)        == dead' = dead \union {s}

\* The context of Start is the one a signal cancels (supervisor.Run).
Signal ==
  /\ proc = "up" /\ Poller \notin dead
  /\ Cancel(Poller)
  /\ UNCHANGED <<storeVars, procVars, shutdown, chanVars, flightVars,
                 callerVars, scanVars, workVars>>

\* A store operation whose context is alive may still fail.
Fault == faults < MaxFaults /\ faults' = faults + 1

\* A store operation of scanner s is refused, or fails.
Refused(s) == \/ s \in dead /\ UNCHANGED faults
              \/ s \notin dead /\ Fault

\* An event has an id of its own and is inserted once; before it, a second insert.
InsertedAgain(e) == TRUE
NewEvent(e)      == \A r \in Reactions : EventOf[r] = e => row[r] = "none"

\* notify; before it, the call left out.
NotifyNobody == UNCHANGED wake
Notify       == wake' = TRUE

\* The event and one pending row per registered handler in one transaction.
RecordEventReactions(e) ==
  /\ NewEvent(e)
  /\ row' = [r \in Reactions |->
               IF EventOf[r] = e /\ r \in live THEN "pending" ELSE row[r]]

Dispatch(e) == RecordEventReactions(e) /\ Notify

\* EventBus.Record is refused before Start and once Shutdown closed the bus.
Record(e) ==
  /\ proc = "up" /\ shutdown = "none"
  /\ Dispatch(e)
  /\ UNCHANGED <<outcomes, faults, procVars, ctxVars, open, jobs, flightVars,
                 callerVars, scanVars, workVars>>

(***************************************************************************)
(* The poller's loop and the calls of Drain.                               *)
(***************************************************************************)

PollerWakes ==
  /\ pc[Poller] = "select"
  /\ \/ wake /\ wake' = FALSE
     \/ Ticking /\ UNCHANGED wake
  /\ pc' = [pc EXCEPT ![Poller] = "lock"]
  /\ UNCHANGED <<storeVars, procVars, ctxVars, open, jobs, flightVars, waiter,
                 scanVars, workVars>>

PollerStops ==
  /\ pc[Poller] = "select" /\ Poller \in dead
  /\ pc' = [pc EXCEPT ![Poller] = "exited"]
  /\ UNCHANGED <<storeVars, procVars, ctxVars, chanVars, flightVars, waiter,
                 scanVars, workVars>>

CallDrain(d) ==
  /\ proc = "up" /\ pc[d] = "off"
  /\ HooksInOrder => shutdown = "none"
  /\ pc' = [pc EXCEPT ![d] = "lock"]
  /\ owed' = [owed EXCEPT ![d] = inFlight \union (Pending \intersect live)]
  /\ UNCHANGED <<storeVars, calls, proc, lives, live, ctxVars, chanVars, flightVars, waiter,
                 scanVars, workVars>>

DrainExpires(d) ==
  /\ pc[d] \in {"lock", "scan", "wait"} /\ d \notin dead
  /\ Cancel(d)
  /\ UNCHANGED <<storeVars, procVars, shutdown, chanVars, flightVars,
                 callerVars, scanVars, workVars>>

\* Drain that does not wait for the counter.
WaiterDoesNotWait(d) ==
  /\ pc[d] \in {"wait", "expired"} /\ waiter[d] = "none"
  /\ waiter' = [waiter EXCEPT ![d] = "done"]
  /\ UNCHANGED <<storeVars, procVars, ctxVars, chanVars, flightVars, pc,
                 scanVars, workVars>>

\* waitContext runs WaitGroup.Wait in a goroutine that outlives an expired
\* Drain.  Wait returns at once when the counter is zero.
WaiterCalls(d) ==
  /\ pc[d] \in {"wait", "expired"} /\ waiter[d] = "none"
  /\ waiter' = [waiter EXCEPT ![d] = IF pending = 0 THEN "done" ELSE "asleep"]
  /\ UNCHANGED <<storeVars, procVars, ctxVars, chanVars, flightVars, pc,
                 scanVars, workVars>>

\* A woken Wait loads the counter again and panics when it is in use; nothing
\* recovers the panic of that goroutine.
WaiterReturns(d) ==
  /\ waiter[d] = "woken"
  /\ \/ /\ pending = 0
        /\ waiter' = [waiter EXCEPT ![d] = "done"]
        /\ UNCHANGED <<storeVars, procVars, ctxVars, chanVars, flightVars, pc,
                       scanVars, workVars>>
     \/ pending # 0 /\ ProcessEnds("panicWait")

\* Drain returns nil or the context's error; its caller then cancels the context.
DrainReturns(d) ==
  /\ pc[d] = "wait"
  /\ \/ waiter[d] = "done" /\ pc' = [pc EXCEPT ![d] = "drained"]
     \/ d \in dead /\ pc' = [pc EXCEPT ![d] = "expired"]
  /\ Cancel(d)
  /\ UNCHANGED <<storeVars, procVars, shutdown, chanVars, flightVars, waiter,
                 scanVars, workVars>>

(***************************************************************************)
(* drainPending and enqueue, by the scanner that holds drainMu.            *)
(***************************************************************************)

AcquireDrainMu(s) ==
  /\ pc[s] = "lock" /\ holder = None
  /\ holder' = s
  /\ pc' = [pc EXCEPT ![s] = "scan"]
  /\ UNCHANGED <<storeVars, procVars, ctxVars, chanVars, flightVars, waiter,
                 step, batch, current, queued, full, workVars>>

\* drainPending returns and unlocks drainMu.
Leave ==
  /\ pc' = [pc EXCEPT ![holder] = IF holder = Poller THEN "select" ELSE "wait"]
  /\ holder' = None /\ step' = "list" /\ batch' = {} /\ current' = None
  /\ queued' = FALSE /\ full' = FALSE

\* A failed listing ends drainPending without an error to its caller.
List(s) ==
  /\ holder = s /\ step = "list"
  /\ \/ Refused(s) /\ Leave
     \/ s \notin dead /\ Pending = {} /\ Leave /\ UNCHANGED faults
     \/ /\ s \notin dead /\ Pending # {}
        /\ batch' = Oldest(Pending, PollLimit)
        /\ full' = (Cardinality(Pending) >= PollLimit)
        /\ queued' = FALSE
        /\ step' = "next"
        /\ UNCHANGED <<pc, holder, current, faults>>
  /\ UNCHANGED <<row, outcomes, procVars, ctxVars, chanVars, flightVars, waiter,
                 workVars>>

\* The loop over the listed reactions, up to markInFlight and pending.Add.
NextReaction(s) ==
  /\ holder = s /\ step = "next" /\ batch # {} /\ s \notin dead
  /\ \E r \in Oldest(batch, 1) :
       /\ batch' = batch \ {r}
       /\ IF r \in inFlight
          THEN UNCHANGED <<flightVars, current, step>>
          ELSE /\ inFlight' = inFlight \union {r}
               /\ pending' = pending + 1
               /\ current' = r
               /\ step' = "claim"
  /\ UNCHANGED <<storeVars, procVars, ctxVars, chanVars, callerVars, holder,
                 queued, full, workVars>>

EndOfList(s) ==
  /\ holder = s /\ step = "next"
  /\ \/ (batch # {} /\ s \in dead) /\ Leave
     \/ (batch = {} /\ ~(queued /\ full)) /\ Leave
     \/ /\ batch = {} /\ queued /\ full
        /\ step' = "list"
        /\ UNCHANGED <<pc, holder, batch, current, queued, full>>
  /\ UNCHANGED <<storeVars, procVars, ctxVars, chanVars, flightVars, waiter,
                 workVars>>

\* Without clearInFlight; without pending.Done; with a second Done; without waking
\* who sleeps in Wait.
KeptInFlight(r) == inFlight' = inFlight /\ pending' = pending - 1 /\ UNCHANGED waiter
OnlyCleared(r)  == inFlight' = inFlight \ {r} /\ UNCHANGED <<pending, waiter>>
DoneTwice(r)    == inFlight' = inFlight \ {r} /\ pending' = pending - 2 /\ UNCHANGED waiter
DoneSilently(r) == inFlight' = inFlight \ {r} /\ pending' = pending - 1 /\ UNCHANGED waiter

\* clearInFlight and pending.Done; the last Done wakes who sleeps in Wait.
DoneWith(r) ==
  /\ inFlight' = inFlight \ {r}
  /\ pending' = pending - 1
  /\ waiter' = IF pending = 1
               THEN [d \in Drainers |-> IF waiter[d] = "asleep" THEN "woken"
                                        ELSE waiter[d]]
               ELSE waiter

\* Get, the handler lookup and ClaimReaction.
Claim(s) ==
  /\ holder = s /\ step = "claim"
  /\ \/ /\ s \notin dead /\ current \in live /\ row[current] = "pending"
        /\ row' = [row EXCEPT ![current] = "running"]
        /\ step' = "decode"
        /\ UNCHANGED <<faults, flightVars, waiter, current>>
     \/ /\ \/ Refused(s)
           \/ /\ s \notin dead /\ (current \notin live \/ row[current] # "pending")
              /\ UNCHANGED faults
        /\ DoneWith(current)
        /\ current' = None /\ step' = "next"
        /\ UNCHANGED row
  /\ UNCHANGED <<outcomes, procVars, ctxVars, chanVars, pc, holder, batch,
                 queued, full, workVars>>

\* Decoding, then d.jobs is read for the send; a closed bus left it nil.
Decode(s) ==
  /\ holder = s /\ step = "decode"
  /\ \/ /\ step' = IF open THEN "send" ELSE "sendNil"
        /\ UNCHANGED <<outcomes, flightVars, waiter>>
     \/ /\ step' = "reject"
        /\ outcomes' = [outcomes EXCEPT ![current] = @ \union {"undecodable"}]
        /\ DoneWith(current)
  /\ UNCHANGED <<row, faults, procVars, ctxVars, chanVars, pc, holder, batch,
                 current, queued, full, workVars>>

\* markReaction, which writes the status whatever it was; before it, left out.
MarkNothing(r, status) == UNCHANGED row
MarkReaction(r, status) == row' = [row EXCEPT ![r] = status]

\* MarkReactionFailed of an event that cannot be decoded.
Reject(s) ==
  /\ holder = s /\ step = "reject"
  /\ \/ /\ s \notin dead
        /\ MarkReaction(current, "failed")
        /\ UNCHANGED faults
     \/ Refused(s) /\ UNCHANGED row
  /\ current' = None /\ step' = "next"
  /\ UNCHANGED <<outcomes, procVars, ctxVars, chanVars, flightVars, callerVars,
                 holder, batch, queued, full, workVars>>

\* enqueue that does not return after the send.
SendAndStay(s) ==
  /\ holder = s /\ step = "send" /\ Len(jobs) < QueueCap
  /\ jobs' = Append(jobs, [r |-> current, by |-> s])
  /\ UNCHANGED <<storeVars, procVars, ctxVars, open, wake, flightVars,
                 callerVars, scanVars, workVars>>

Send(s) ==
  /\ holder = s /\ step = "send" /\ Len(jobs) < QueueCap
  /\ jobs' = Append(jobs, [r |-> current, by |-> s])
  /\ queued' = TRUE /\ current' = None /\ step' = "next"
  /\ UNCHANGED <<storeVars, procVars, ctxVars, open, wake, flightVars,
                 callerVars, holder, batch, full, workVars>>

\* The context ends before the job is sent: the row stays running.
SendCancelled(s) ==
  /\ holder = s /\ step \in {"send", "sendNil"} /\ s \in dead
  /\ DoneWith(current)
  /\ current' = None /\ step' = "next"
  /\ UNCHANGED <<storeVars, procVars, ctxVars, chanVars, pc, holder, batch,
                 queued, full, workVars>>

(***************************************************************************)
(* The workers.                                                            *)
(***************************************************************************)

\* work reads d.jobs once, when the goroutine is first scheduled.
WorkerBegins(w) ==
  /\ wpc[w] = "new"
  /\ wpc' = [wpc EXCEPT ![w] = IF open THEN "idle" ELSE "exited"]
  /\ UNCHANGED <<storeVars, procVars, ctxVars, chanVars, flightVars, callerVars,
                 scanVars, job>>

WorkerTakes(w) ==
  /\ wpc[w] = "idle" /\ jobs # <<>>
  /\ job' = [job EXCEPT ![w] = Head(jobs)]
  /\ jobs' = Tail(jobs)
  /\ wpc' = [wpc EXCEPT ![w] = "run"]
  /\ calls' = [calls EXCEPT ![Head(jobs).r] = @ + 1]
  /\ UNCHANGED <<storeVars, owed, proc, lives, live, ctxVars, open, wake, flightVars,
                 callerVars, scanVars>>

WorkerExits(w) ==
  /\ wpc[w] = "idle" /\ jobs = <<>> /\ ~open
  /\ wpc' = [wpc EXCEPT ![w] = "exited"]
  /\ UNCHANGED <<storeVars, procVars, ctxVars, chanVars, flightVars, callerVars,
                 scanVars, job>>

\* The handler returns; callHandler turns a panic into an error.
HandlerReturns(w) ==
  /\ wpc[w] = "run"
  /\ \E o \in {"ok", "err"} :
       /\ wpc' = [wpc EXCEPT ![w] = o]
       /\ outcomes' = [outcomes EXCEPT ![job[w].r] = @ \union {o}]
  /\ UNCHANGED <<row, faults, procVars, ctxVars, chanVars, flightVars,
                 callerVars, scanVars, job>>

\* What the worker writes; before it, no regard to the error and a failed attempt
\* offered again.
AlwaysSucceeded(w) == "succeeded"
FailedIsRetried(w) == IF wpc[w] = "ok" THEN "succeeded" ELSE "pending"
Verdict(w)         == IF wpc[w] = "ok" THEN "succeeded" ELSE "failed"

\* MarkReactionSucceeded or MarkReactionFailed, with the context of the scanner
\* that queued the job; an error is logged and the row left running.
Mark(w) ==
  /\ wpc[w] \in {"ok", "err"}
  /\ \/ /\ job[w].by \notin dead
        /\ MarkReaction(job[w].r, Verdict(w))
        /\ UNCHANGED faults
     \/ Refused(job[w].by) /\ UNCHANGED row
  /\ wpc' = [wpc EXCEPT ![w] = "finish"]
  /\ UNCHANGED <<outcomes, procVars, ctxVars, chanVars, flightVars, callerVars,
                 scanVars, job>>

Finish(w) ==
  /\ wpc[w] = "finish"
  /\ DoneWith(job[w].r)
  /\ wpc' = [wpc EXCEPT ![w] = "idle"]
  /\ job' = [job EXCEPT ![w] = None]
  /\ UNCHANGED <<storeVars, procVars, ctxVars, chanVars, pc, scanVars>>

(***************************************************************************)
(* EventBus.Shutdown.                                                      *)
(***************************************************************************)

\* Closes the bus to Record, cancels the poller's context.
CallShutdown ==
  /\ proc = "up" /\ shutdown = "none"
  /\ HooksInOrder => \A d \in Drainers : pc[d] \notin {"lock", "scan", "wait"}
  /\ shutdown' = "poller"
  /\ Cancel(Poller)
  /\ UNCHANGED <<storeVars, procVars, chanVars, flightVars, callerVars,
                 scanVars, workVars>>

\* Shutdown waits for the poller; before it, it does not.
PollerIgnored == TRUE
PollerGone    == pc[Poller] = "exited"

\* The poller is gone: close(d.jobs), d.jobs = nil.  Closing a channel panics
\* the goroutine that is blocked sending on it.
CloseJobs ==
  /\ shutdown = "poller" /\ PollerGone
  /\ \/ /\ ~(holder # None /\ step = "send")
        /\ shutdown' = "workers"
        /\ open' = FALSE
        /\ UNCHANGED <<storeVars, procVars, dead, jobs, wake, flightVars,
                       callerVars, scanVars, workVars>>
     \/ (holder # None /\ step = "send") /\ ProcessEnds("panicSend")

ShutdownCompletes ==
  /\ shutdown = "workers" /\ \A w \in Workers : wpc[w] = "exited"
  /\ shutdown' = "stopped"
  /\ UNCHANGED <<storeVars, procVars, dead, chanVars, flightVars, callerVars,
                 scanVars, workVars>>

\* The deadline of its caller passes while it waits for poller or workers.
ShutdownExpires ==
  /\ shutdown \in {"poller", "workers"}
  /\ shutdown' = "expired"
  /\ UNCHANGED <<storeVars, procVars, dead, chanVars, flightVars, callerVars,
                 scanVars, workVars>>

\* Runtime.Start returns: the database is closed and the program ends.
Exit == shutdown \in {"stopped", "expired"} /\ ProcessEnds("down")

\* No process is started after the last one.
Over == proc # "up" /\ lives = MaxLives /\ UNCHANGED vars

Scan(s) == \/ List(s) \/ NextReaction(s) \/ EndOfList(s) \/ Claim(s) \/ Decode(s)
           \/ Reject(s) \/ Send(s) \/ SendCancelled(s)

Work(w) == \/ WorkerBegins(w) \/ WorkerTakes(w) \/ WorkerExits(w)
           \/ HandlerReturns(w) \/ Mark(w) \/ Finish(w)

Drain(d) == WaiterCalls(d) \/ WaiterReturns(d) \/ DrainReturns(d)

Next ==
  \/ Start \/ Crash \/ Signal
  \/ \E e \in Events : Record(e)
  \/ PollerWakes \/ PollerStops
  \/ \E d \in Drainers : CallDrain(d) \/ DrainExpires(d) \/ Drain(d)
  \/ \E s \in Scanners : AcquireDrainMu(s) \/ Scan(s)
  \/ \E w \in Workers : Work(w)
  \/ CallShutdown \/ CloseJobs \/ ShutdownCompletes \/ ShutdownExpires \/ Exit
  \/ Over

Spec == Init /\ [][Next]_vars

\* The goroutines run, a mutex is granted to who keeps asking for it, handlers
\* return, a process that was told to stop is stopped and is started again.
\* Nothing obliges anyone to record, to signal, to crash or to call Drain, and
\* no deadline is obliged to pass.
Fairness ==
  /\ WF_vars(Start) /\ WF_vars(Exit)
  /\ WF_vars(Poller \in dead /\ CallShutdown)
  /\ WF_vars(CloseJobs) /\ WF_vars(ShutdownCompletes)
  /\ WF_vars(PollerWakes) /\ SF_vars(PollerStops)
  /\ \A d \in Drainers : WF_vars(Drain(d))
  /\ \A s \in Scanners : SF_vars(AcquireDrainMu(s)) /\ WF_vars(Scan(s))
  /\ \A w \in Workers : WF_vars(Work(w))

FairSpec == Spec /\ Fairness

(***************************************************************************)
(* Properties.                                                             *)
(***************************************************************************)

StoreTypeOK == /\ row \in [Reactions -> Status]
               /\ outcomes \in [Reactions -> SUBSET Outcome]
               /\ faults \in 0..MaxFaults
ProcTypeOK  == /\ calls \in [Reactions -> Nat]
               /\ owed \in [Drainers -> SUBSET Reactions]
               /\ proc \in {"up", "down", "panicWait", "panicSend"}
               /\ lives \in 0..MaxLives
               /\ live \subseteq Reactions
CtxTypeOK   == /\ dead \subseteq Scanners
               /\ shutdown \in {"none", "poller", "workers", "stopped", "expired"}
ChanTypeOK  == open \in BOOLEAN /\ jobs \in Seq(Job) /\ wake \in BOOLEAN
FlightTypeOK == inFlight \subseteq Reactions /\ pending \in Nat
CallerTypeOK == /\ pc \in [Scanners -> {"off", "lock", "scan", "select", "exited",
                                        "wait", "drained", "expired"}]
                /\ waiter \in [Drainers -> {"none", "asleep", "woken", "done"}]
ScanTypeOK  == /\ holder \in Scanners \union {None}
               /\ step \in {"list", "next", "claim", "decode", "reject", "send",
                            "sendNil"}
               /\ batch \subseteq Reactions /\ current \in Reactions \union {None}
               /\ queued \in BOOLEAN /\ full \in BOOLEAN
WorkTypeOK  == /\ wpc \in [Workers -> {"off", "new", "idle", "run", "ok", "err",
                                       "finish", "exited"}]
               /\ job \in [Workers -> Job \union {None}]

\* Every variable has its type; jobs and counters stay within their bounds.
TypeOK == /\ StoreTypeOK /\ ProcTypeOK /\ CtxTypeOK /\ ChanTypeOK
          /\ FlightTypeOK /\ CallerTypeOK /\ ScanTypeOK /\ WorkTypeOK

\* Who works on reaction r: the scanner that enqueues it, a slot of the
\* channel, a worker.
Busy        == {"run", "ok", "err", "finish"}
QueuedAt(r) == {i \in 1..Len(jobs) : jobs[i].r = r}
RunBy(r)    == {w \in Workers : wpc[w] \in Busy /\ job[w].r = r}

\* No reaction is worked on twice at the same time: two workers never run the
\* same reaction, and none runs one that is queued or enqueued once more
\* (markInFlight and ClaimReaction between the poller and the Drains).
WorkedOnOnce ==
  \A r \in Reactions :
    /\ \A v, w \in RunBy(r) : v = w
    /\ \A i, j \in QueuedAt(r) : i = j
    /\ RunBy(r) # {} => QueuedAt(r) = {}
    /\ current = r => RunBy(r) = {} /\ QueuedAt(r) = {}

\* A process calls the handler of a reaction at most once, however many
\* listings, drains, failed store operations and cancelled contexts it sees.
OncePerProcess == \A r \in Reactions : calls[r] <= 1

\* What the WaitGroup counts is what is in flight: Drain waits for exactly the
\* reactions that are enqueued, queued or running.
PendingCountsFlight == pending = Cardinality(inFlight)

\* A row is final only on account of an attempt that ended that way.
SettledOnEvidence ==
  \A r \in Reactions :
    /\ row[r] = "succeeded" => "ok" \in outcomes[r]
    /\ row[r] = "failed" => outcomes[r] \intersect {"err", "undecodable"} # {}

\* A row left running with nobody working on it waits for the next Start.  It
\* takes an ended context or a failed store operation to leave one behind.
Stranded(r) == row[r] = "running" /\ r \notin inFlight
NoneStrandedInService ==
  proc = "up" /\ dead = {} /\ faults = 0 =>
    \A r \in Reactions : Stranded(r) => step = "reject" /\ current = r

\* A settled row never changes again: MarkReaction does not look at the status
\* it overwrites, so this rests on nobody else holding the reaction.
SettledForGood ==
  [][\A r \in Reactions : Settled(r) => row'[r] = row[r]]_row

\* A claimed row goes back to pending only when a process starts.
OnlyStartGivesBack ==
  [][(\E r \in Reactions : row[r] = "running" /\ row'[r] = "pending")
       => proc # "up" /\ proc' = "up"]_vars

\* Drain that returns nil within its deadline, when no store operation failed,
\* leaves nothing in flight or waiting that it was called for and whose handler is
\* registered.
DrainLeavesNothing ==
  [][\A d \in Drainers :
       pc[d] = "wait" /\ pc'[d] = "drained" /\ d \notin dead /\ faults = 0 =>
         \A r \in owed[d] \intersect live : r \notin inFlight /\ row[r] # "pending"]_vars

\* No goroutine sends on the jobs channel while Shutdown closes it.
NoSendPanic == proc # "panicSend"

\* No Drain ends the process.
NoWaitPanic == proc # "panicWait"

\* Bus.go says of Drain that it waits until all queued and running handlers
\* finish: when it ends within its deadline, everything it was called for has had
\* its handler return.
DrainMeansHandled ==
  [][\A d \in Drainers :
       pc[d] = "wait" /\ pc'[d] = "drained" /\ d \notin dead =>
         \A r \in owed[d] : outcomes[r] # {}]_vars

\* The rows, with the outcomes of the attempts, keep the promise of AtLeastOnce:
\* recorded before handled, handled before settled, never handled once settled,
\* across crashes, restarts, failed store operations and cancelled contexts.
Promise == INSTANCE AtLeastOnce
             WITH recorded <- {r \in Reactions : row[r] # "none"},
                  handled  <- {r \in Reactions : outcomes[r] # {}},
                  settled  <- {r \in Reactions : Settled(r)}
KeepsPromise == Promise!Spec

(***************************************************************************)
(* The inductive invariant that carries the safety properties.             *)
(***************************************************************************)

\* Without a process nothing is left of the last one but the rows.
NoProcess ==
  /\ \A s \in Scanners : pc[s] = "off"
  /\ \A d \in Drainers : waiter[d] = "none"
  /\ \A w \in Workers : wpc[w] = "off"
  /\ \A r \in Reactions : calls[r] = 0
  /\ holder = None /\ step = "list" /\ shutdown = "none"
  /\ jobs = <<>> /\ inFlight = {} /\ pending = 0

WellFormed ==
  /\ holder = None => step = "list"
  /\ step \in {"list", "next"} => current = None
  /\ step \notin {"list", "next"} => current \in Reactions
  /\ \A w \in Workers : wpc[w] \in Busy => job[w] \in Job

Shape == (proc # "up" => NoProcess) /\ WellFormed

\* Whoever works on a reaction has it in d.inFlight; a reaction rejected as
\* undecodable has left it before its row is marked.
HeldInFlight ==
  /\ step \in {"claim", "decode", "send", "sendNil"} => current \in inFlight
  /\ \A i \in 1..Len(jobs) : jobs[i].r \in inFlight
  /\ \A w \in Workers : wpc[w] \in Busy => job[w].r \in inFlight

\* From the claim until its attempt is marked, the row is running.
ClaimedIsRunning ==
  /\ step \in {"decode", "reject", "send", "sendNil"} => row[current] = "running"
  /\ \A i \in 1..Len(jobs) : row[jobs[i].r] = "running"
  /\ \A w \in Workers : wpc[w] \in {"run", "ok", "err"} => row[job[w].r] = "running"

\* A reaction that may still be handed to a worker was not called before.
NotCalledYet ==
  /\ \A r \in Reactions : row[r] \in {"none", "pending"} => calls[r] = 0
  /\ step \in {"decode", "reject", "send", "sendNil"} => calls[current] = 0
  /\ \A i \in 1..Len(jobs) : calls[jobs[i].r] = 0

\* What a worker or a scanner is about to write on a row did happen.
EvidenceAtHand ==
  /\ \A w \in Workers : wpc[w] \in {"ok", "err"} => wpc[w] \in outcomes[job[w].r]
  /\ step = "reject" => "undecodable" \in outcomes[current]

\* The holder of drainMu is inside drainPending; with the hooks in order no
\* Drain is under way once Shutdown is called.
CallersInOrder ==
  /\ \A s \in Scanners : pc[s] = "scan" <=> holder = s
  /\ HooksInOrder /\ shutdown # "none" =>
       \A d \in Drainers : pc[d] \notin {"lock", "scan", "wait"}
  /\ HooksInOrder => proc # "panicSend"

\* In service every claim is given up by a mark: NoneStrandedInService, with what
\* its holder knows of the row before the claim and after the mark.
ClaimsHeld ==
  proc = "up" /\ dead = {} /\ faults = 0 =>
    /\ \A r \in Reactions : Stranded(r) => step = "reject" /\ current = r
    /\ step = "claim" => row[current] # "running"
    /\ \A w \in Workers : wpc[w] = "finish" => row[job[w].r] # "running"

\* Inductive: each reaction has one holder, which has it in flight, and the row
\* and the call count say how far that holder has come.
IInv == /\ TypeOK /\ Shape /\ WorkedOnOnce /\ HeldInFlight /\ ClaimedIsRunning
        /\ NotCalledYet /\ OncePerProcess /\ EvidenceAtHand /\ SettledOnEvidence
        /\ PendingCountsFlight /\ CallersInOrder /\ ClaimsHeld

\* A process that serves: nothing told it to stop, and no Drain is under way.
InService == /\ proc = "up" /\ dead = {} /\ shutdown = "none"
             /\ \A d \in Drainers : pc[d] = "off"

\* Once a process stays in service, every recorded reaction whose handler it
\* registered is settled, also those that earlier processes left behind.  At
\* worst a store operation that failed leaves the row running.
EventuallySettled ==
  <>[]InService =>
    \A r \in Reactions :
      (row[r] # "none" /\ r \in live) ~>
        (r \in live => Settled(r) \/ (faults > 0 /\ Stranded(r)))

\* Shutdown needs no deadline: poller and workers end by themselves when
\* handlers return, whatever is still queued.
ShutdownEnds == shutdown # "none" ~> proc # "up"

\* Drain returns without a deadline when the process is not shut down under it.
DrainEnds ==
  \A d \in Drainers :
    pc[d] = "lock" ~> pc[d] \notin {"lock", "scan", "wait"}

=============================================================================
