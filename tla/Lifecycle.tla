----------------------------- MODULE Lifecycle -----------------------------
(***************************************************************************)
(* One run of the program: Runtime.Start (internal/app/runtime.go) opens   *)
(* the database and calls Supervisor.Run (pkg/supervisor/supervisor.go),   *)
(* which initialises the modules, runs the hook bus.start, runs every      *)
(* module in a goroutine, waits for the first terminal condition, and then *)
(* drains the bus, stops the modules and shuts the bus down.  Integrations *)
(* are modules by way of a host (integrations/host.go).                    *)
(*                                                                         *)
(* Run waits for no module goroutine: modules, what they have spawned and  *)
(* the bus workers go on during the shutdown.                              *)
(***************************************************************************)
EXTENDS Naturals, Sequences, FiniteSets

CONSTANTS
  N,          \* number of modules; 1..N is the order of registration
  Hosts,      \* modules that host an event source: Start may end by itself
  Recorders,  \* modules whose goroutines record events (eventLoop, inputLoop)
  Worker      \* the bus workers, whose handlers record events

Modules == 1..N

ASSUME LifecycleAssumption ==
  /\ N \in Nat \ {0}
  /\ Hosts \subseteq Modules
  /\ Recorders \subseteq Modules
  /\ Worker \notin Modules

VARIABLES
  stage,      \* where Runtime.Start and Supervisor.Run are
  next,       \* module whose Init or Stop comes next
  ctx,        \* the context of main: "live", or cancelled by a "signal"
  cancelled,  \* cancelRun was called
  status,     \* how far the goroutine of each module is
  events,     \* the channel events
  stops,      \* history: the calls of Module.Stop
  hookErrs,   \* hooks that failed or missed their deadline
  stopErrs,   \* modules whose Stop failed or missed its deadline
  failed,     \* Runtime.Start returns an error
  cause,      \* history: what came first, a signal while serving or a failure
  bus,        \* b.started and b.closed
  writers,    \* who is inside Record and holds stateMu for reading
  workers,    \* the bus workers, as one: "busy" while their handlers run
  drainMu,    \* of the dispatcher: "free", or held by the "poller"
  db          \* the database handle

errs     == <<hookErrs, stopErrs>>
mainVars == <<stage, next, cancelled, stops, errs, failed>>
modVars  == <<status, events>>
busVars  == <<bus, writers, workers, drainMu>>
vars == <<mainVars, modVars, busVars, ctx, cause, db>>

Event == [mod : Modules, reason : {"stopped", "error", "panic"}]

RunDead == cancelled \/ ctx # "live"

Init ==
  /\ stage = "boot" /\ next = 1 /\ cancelled = FALSE /\ stops = <<>>
  /\ hookErrs = {} /\ stopErrs = {} /\ failed = FALSE
  /\ status = [m \in Modules |-> "new"] /\ events = <<>>
  /\ bus = "new" /\ writers = {} /\ workers = "off" /\ drainMu = "free"
  /\ ctx = "live" /\ cause = "none" /\ db = "none"

(***************************************************************************)
(* Start.                                                                  *)
(***************************************************************************)

\* Runtime.Start returns: what it opened is closed.
GiveUp == failed' = TRUE /\ stage' = "close"

\* Runtime.init: the database is opened first; anything after it may fail.
Boot ==
  /\ stage = "boot"
  /\ \/ db' = "open" /\ stage' = "init" /\ UNCHANGED failed
     \/ db' \in {"none", "open"} /\ GiveUp
  /\ UNCHANGED <<next, cancelled, stops, errs, modVars, busVars, ctx, cause>>

\* initAll: an error ends Run at once, no module is stopped.
InitModule ==
  /\ stage = "init"
  /\ \/ /\ status' = [status EXCEPT ![next] = "ready"]
        /\ IF next < N THEN next' = next + 1 /\ UNCHANGED stage
                       ELSE stage' = "postInit" /\ UNCHANGED next
        /\ UNCHANGED failed
     \/ GiveUp /\ UNCHANGED <<status, next>>
  /\ UNCHANGED <<cancelled, stops, errs, events, busVars, ctx, cause, db>>

\* The post-init hook bus.start, with the context of main, then one goroutine for
\* each module.
BusStart ==
  /\ stage = "postInit"
  /\ \/ /\ ctx = "live"
        /\ bus' = "open" /\ workers' = "idle"
        /\ status' = [m \in Modules |-> "run"]
        /\ stage' = "serve" /\ UNCHANGED failed
     \/ GiveUp /\ UNCHANGED <<bus, workers, status>>
  /\ UNCHANGED <<next, cancelled, stops, errs, events, writers, drainMu, ctx, cause,
                 db>>

\* NotifyContext: a signal cancels the context of main.
Signal ==
  /\ stage # "exit" /\ ctx = "live"
  /\ ctx' = "signal"
  /\ cause' = IF cause = "none" /\ stage = "serve" THEN "signal" ELSE cause
  /\ UNCHANGED <<mainVars, modVars, busVars, db>>

(***************************************************************************)
(* The goroutines of the modules.                                          *)
(***************************************************************************)

Alive == stage # "exit"

\* runModule reports how Start ended; the channel has room for every module.
Report(m, how, reason) ==
  /\ status' = [status EXCEPT ![m] = how]
  /\ events' = Append(events, [mod |-> m, reason |-> reason])

\* Start returns nil when the run context ends.
ModuleReturns(m) ==
  /\ Alive /\ status[m] = "run" /\ RunDead
  /\ Report(m, "nil", "stopped")
  /\ UNCHANGED <<mainVars, busVars, ctx, cause, db>>

\* The event source of a host returns an error; without a cancelled context
\* eventLoop and Run return nothing else.
SourceFails(m) ==
  /\ Alive /\ m \in Hosts /\ status[m] = "run"
  /\ status' = [status EXCEPT ![m] = "failing"]
  /\ cause' = IF cause = "none" THEN "module" ELSE cause
  /\ UNCHANGED <<mainVars, events, busVars, ctx, db>>

\* Host.Start drops the error when the context has ended; before it, never and
\* always.
HostTellsNothing(m) ==
  /\ Alive /\ status[m] = "failing"
  /\ Report(m, "nil", "stopped")
  /\ UNCHANGED <<mainVars, busVars, ctx, cause, db>>
HostTellsAll(m) ==
  /\ Alive /\ status[m] = "failing"
  /\ Report(m, "err", "error")
  /\ UNCHANGED <<mainVars, busVars, ctx, cause, db>>
HostReturns(m) ==
  /\ Alive /\ status[m] = "failing"
  /\ IF RunDead THEN Report(m, "nil", "stopped") ELSE Report(m, "err", "error")
  /\ UNCHANGED <<mainVars, busVars, ctx, cause, db>>

\* A panic of Start is recovered and reported; before it, recovered in silence.
PanicSwallowed(m) ==
  /\ Alive /\ m \in Hosts /\ status[m] = "run"
  /\ status' = [status EXCEPT ![m] = "panic"]
  /\ cause' = IF cause = "none" THEN "module" ELSE cause
  /\ UNCHANGED <<mainVars, events, busVars, ctx, db>>
HostPanics(m) ==
  /\ Alive /\ m \in Hosts /\ status[m] = "run"
  /\ Report(m, "panic", "panic")
  /\ cause' = IF cause = "none" THEN "module" ELSE cause
  /\ UNCHANGED <<mainVars, busVars, ctx, db>>

(***************************************************************************)
(* The bus: Record holds stateMu for reading while it writes to the        *)
(* database.  What a module has spawned outlives its Start.                *)
(***************************************************************************)

Started == status[1] \notin {"new", "ready"}

\* A caller of Record that is let in: Lock waiting in Shutdown keeps readers out,
\* a closed bus refuses.
RecordBegins(x) ==
  /\ Alive /\ bus = "open" /\ stage # "lock"
  /\ \/ x \in Recorders /\ Started
     \/ x = Worker /\ workers = "busy"
  /\ x \notin writers
  /\ writers' = writers \union {x}
  /\ UNCHANGED <<mainVars, modVars, bus, workers, drainMu, ctx, cause, db>>

RecordEnds(x) ==
  /\ Alive /\ x \in writers
  /\ writers' = writers \ {x}
  /\ UNCHANGED <<mainVars, modVars, bus, workers, drainMu, ctx, cause, db>>

HandlerBegins ==
  /\ Alive /\ workers = "idle"
  /\ workers' = "busy"
  /\ UNCHANGED <<mainVars, modVars, bus, writers, drainMu, ctx, cause, db>>

HandlerReturns ==
  /\ Alive /\ workers = "busy" /\ Worker \notin writers
  /\ workers' = "idle"
  /\ UNCHANGED <<mainVars, modVars, bus, writers, drainMu, ctx, cause, db>>

\* The poller is in drainPending with drainMu, for a listing and the sends on the
\* bounded channel: there it waits for a worker, or for its context, which is that
\* of main.
PollerLocks ==
  /\ Alive /\ bus = "open" /\ drainMu = "free"
  /\ drainMu' = "poller"
  /\ UNCHANGED <<mainVars, modVars, bus, writers, workers, ctx, cause, db>>

PollerUnlocks ==
  /\ Alive /\ drainMu = "poller"
  /\ drainMu' = "free"
  /\ UNCHANGED <<mainVars, modVars, bus, writers, workers, ctx, cause, db>>

(***************************************************************************)
(* Shutdown.                                                               *)
(***************************************************************************)

\* waitFirstTerminal, then cancelRun: a select, so of a signal and a module that
\* ended either may be taken.  Before it, cancelRun left to the deferred call.
NotCancelled ==
  /\ stage = "serve"
  /\ \/ ctx = "signal" /\ UNCHANGED <<failed, events>>
     \/ /\ events # <<>>
        /\ events' = Tail(events)
        /\ failed' = (Head(events).reason # "stopped")
  /\ stage' = "drain"
  /\ UNCHANGED <<next, cancelled, stops, errs, status, busVars, ctx, cause, db>>
FirstTerminal ==
  /\ stage = "serve"
  /\ \/ ctx = "signal" /\ UNCHANGED <<failed, events>>
     \/ /\ events # <<>>
        /\ events' = Tail(events)
        /\ failed' = (Head(events).reason # "stopped")
  /\ cancelled' = TRUE
  /\ stage' = "drain"
  /\ UNCHANGED <<next, stops, errs, status, busVars, ctx, cause, db>>

\* The pre-stop hook bus.drain.  Drain takes drainMu without looking at its
\* deadline, and what follows ends with the deadline at the latest.  Whatever it
\* comes to, the modules are stopped.
DrainHook ==
  /\ stage = "drain" /\ drainMu = "free"
  /\ \/ UNCHANGED errs
     \/ hookErrs' = {"drain"} /\ UNCHANGED stopErrs
  /\ stage' = "stop" /\ next' = N
  /\ UNCHANGED <<cancelled, stops, failed, modVars, busVars, ctx, cause, db>>

\* stopAll, in reverse order, past errors and timeouts; before it, the same that
\* returns at the first error.  Stop of other modules than hosts is empty.
StopUntilError ==
  /\ stage = "stop"
  /\ stops' = Append(stops, next)
  /\ \/ /\ UNCHANGED errs
        /\ IF next > 1 THEN next' = next - 1 /\ UNCHANGED stage
                       ELSE stage' = "lock" /\ UNCHANGED next
     \/ /\ next \in Hosts /\ stopErrs' = stopErrs \union {next} /\ UNCHANGED hookErrs
        /\ stage' = "lock" /\ UNCHANGED next
  /\ UNCHANGED <<cancelled, failed, modVars, busVars, ctx, cause, db>>
StopModule ==
  /\ stage = "stop"
  /\ stops' = Append(stops, next)
  /\ \/ UNCHANGED stopErrs
     \/ next \in Hosts /\ stopErrs' = stopErrs \union {next}
  /\ IF next > 1 THEN next' = next - 1 /\ UNCHANGED stage
                 ELSE stage' = "lock" /\ UNCHANGED next
  /\ UNCHANGED <<cancelled, hookErrs, failed, modVars, busVars, ctx, cause, db>>

\* stateMu.Lock of EventBus.Shutdown waits for every Record, without a deadline;
\* before it, closed is set without the lock.
CloseUnlocked ==
  /\ stage = "lock"
  /\ bus' = "closed" /\ stage' = "join"
  /\ UNCHANGED <<next, cancelled, stops, errs, failed, modVars, writers, workers,
                 drainMu, ctx, cause, db>>
CloseBus ==
  /\ stage = "lock" /\ writers = {}
  /\ bus' = "closed" /\ stage' = "join"
  /\ UNCHANGED <<next, cancelled, stops, errs, failed, modVars, writers, workers,
                 drainMu, ctx, cause, db>>

\* Poller and workers have returned once the one is out of drainPending and the
\* others out of their handlers.
Joinable == workers = "idle" /\ drainMu = "free"

\* The rest of the post-stop hook bus.shutdown: the workers are gone, or its
\* deadline passed.  Before it, a hook that does not tell of the deadline.
ExpiryUntold ==
  /\ stage = "join"
  /\ workers' \in {workers} \union (IF Joinable THEN {"gone"} ELSE {})
  /\ stage' = "close"
  /\ UNCHANGED <<next, cancelled, stops, errs, failed, modVars, bus, writers,
                 drainMu, ctx, cause, db>>
JoinWorkers ==
  /\ stage = "join"
  /\ workers' \in {workers} \union (IF Joinable THEN {"gone"} ELSE {})
  /\ hookErrs' \in {hookErrs, hookErrs \union {"shutdown"}}
  /\ workers' # "gone" => "shutdown" \in hookErrs'
  /\ stage' = "close"
  /\ UNCHANGED <<next, cancelled, stops, stopErrs, failed, modVars, bus, writers,
                 drainMu, ctx, cause, db>>

\* Report.Err, the deferred Runtime.close, and the program ends.
Close ==
  /\ stage = "close"
  /\ failed' = (failed \/ hookErrs # {} \/ stopErrs # {})
  /\ db' = IF db = "open" THEN "closed" ELSE db
  /\ stage' = "exit"
  /\ UNCHANGED <<next, cancelled, stops, errs, modVars, busVars, ctx, cause>>

\* The process is gone.
Gone == stage = "exit" /\ UNCHANGED vars

Main == \/ Boot \/ InitModule \/ BusStart \/ FirstTerminal \/ DrainHook
        \/ StopModule \/ CloseBus \/ JoinWorkers \/ Close

ModuleStep(m) == ModuleReturns(m) \/ HostReturns(m)

Next ==
  \/ Main \/ Signal
  \/ \E m \in Modules : ModuleStep(m) \/ SourceFails(m) \/ HostPanics(m)
  \/ \E x \in Recorders \union {Worker} : RecordBegins(x) \/ RecordEnds(x)
  \/ HandlerBegins \/ HandlerReturns \/ PollerLocks \/ PollerUnlocks
  \/ Gone

Spec == Init /\ [][Next]_vars

\* The goroutines run: main, modules whose context ended, writes to the database.
\* The poller ends a listing, and events do not come faster for ever than it lists
\* them; but while handlers run and its context lives, the channel may be full and
\* the poller stay in the send.  drainMu goes to the one who has waited longest.
\* Nothing obliges a handler to return, a source to fail or a signal to come.
PollerMoves == (workers # "busy" \/ ctx # "live") /\ PollerUnlocks

Fairness ==
  /\ WF_vars(Main) /\ SF_vars(DrainHook)
  /\ \A m \in Modules : WF_vars(ModuleStep(m))
  /\ \A x \in Recorders \union {Worker} : WF_vars(RecordEnds(x))
  /\ SF_vars(PollerMoves)

FairSpec == Spec /\ Fairness

(***************************************************************************)
(* Properties.                                                             *)
(***************************************************************************)

Stages == {"boot", "init", "postInit", "serve", "drain", "stop", "lock", "join",
           "close", "exit"}

\* Every variable has its type.
TypeOK ==
  /\ stage \in Stages /\ next \in Modules
  /\ ctx \in {"live", "signal"} /\ cancelled \in BOOLEAN
  /\ status \in [Modules -> {"new", "ready", "run", "failing", "nil", "err", "panic"}]
  /\ events \in Seq(Event) /\ stops \in Seq(Modules)
  /\ hookErrs \subseteq {"drain", "shutdown"} /\ stopErrs \subseteq Modules
  /\ failed \in BOOLEAN /\ cause \in {"none", "signal", "module"}
  /\ bus \in {"new", "open", "closed"}
  /\ writers \subseteq Recorders \union {Worker}
  /\ workers \in {"off", "idle", "busy", "gone"} /\ drainMu \in {"free", "poller"}
  /\ db \in {"none", "open", "closed"}

\* Nobody is inside Record when the database is closed, although Run waits for no
\* goroutine of a module: Shutdown takes stateMu before Runtime.close runs.
RecordsReachDatabase == writers # {} => db = "open"

\* The database is closed under running bus workers only when bus.shutdown missed
\* its deadline, and then the program ends with an error.
QuietOrReported ==
  db = "closed" /\ workers \in {"idle", "busy"} => failed

\* Once modules were started, each is stopped once, in reverse order, before the
\* bus is shut down, and whatever the hooks and the other stops come to.
EveryModuleStopped ==
  Started /\ stage \in {"lock", "join", "close", "exit"} =>
    stops = [i \in 1..N |-> N + 1 - i]

\* A signal while the program serves ends it without an error, unless a step of
\* the shutdown fails or a module panics: which of signal and returning modules
\* the supervisor sees first makes no difference.
SignalIsClean ==
  stage = "exit" /\ cause = "signal" /\ hookErrs = {} /\ stopErrs = {}
    /\ (\A m \in Modules : status[m] # "panic")
    => ~failed

\* The program never ends well by itself: an exit without an error means that a
\* signal came, also when a failing module ends together with others.
CleanOnlyOnSignal == stage = "exit" /\ ~failed => ctx = "signal"

\* Stop runs after the run context was cancelled and bus.drain returned, and the
\* bus takes events until the last Stop returned.
StopsBetweenHooks ==
  [][stops' # stops => cancelled /\ stage = "stop" /\ bus = "open"]_vars

\* A signal ends the program, whatever the handlers do.  So does the end of any
\* module, unless the handlers on the workers stay busy for ever: the poller, whose
\* context lives on, may then be in a send with drainMu, for which bus.drain waits.
Terminates ==
  /\ ctx # "live" ~> stage = "exit"
  /\ (\E m \in Modules : status[m] \in {"nil", "err", "panic"})
       ~> (stage = "exit" \/ [](workers = "busy"))

(***************************************************************************)
(* The inductive invariant that carries the safety properties.             *)
(***************************************************************************)

\* What the stage says about bus, workers and database.
StageSays ==
  /\ stage \in {"boot", "init", "postInit"} =>
       bus = "new" /\ workers = "off" /\ ~Started /\ ~cancelled
  /\ stage \in {"serve", "drain", "stop", "lock"} =>
       bus = "open" /\ workers \in {"idle", "busy"} /\ Started
  /\ stage = "serve" => ~cancelled
  /\ stage \in {"boot", "init", "postInit", "serve"} => ~failed
  /\ stage \in {"drain", "stop", "lock"} => cancelled
  /\ stage = "join" => bus = "closed" /\ workers \in {"idle", "busy"} /\ Started
  /\ stage \in {"init", "postInit", "serve", "drain", "stop", "lock", "join"} =>
       db = "open"
  /\ stage \in {"close", "exit"} => bus # "open"
  /\ db = "closed" => stage = "exit"

\* Who writes does so on an open bus; workers that are left are told of.
LeftOvers ==
  /\ writers # {} => bus = "open"
  /\ stage \in {"close", "exit"} /\ workers \in {"idle", "busy"} =>
       "shutdown" \in hookErrs
  /\ stage = "exit" /\ hookErrs # {} => failed

\* How many modules stopAll has stopped.
Stopped(n) == stops = [i \in 1..n |-> N + 1 - i]
StopsSoFar ==
  /\ stage \in {"boot", "init", "postInit", "serve", "drain"} => Stopped(0)
  /\ stage = "stop" => Stopped(N - next)
  /\ Started /\ stage \in {"lock", "join", "close", "exit"} => Stopped(N)

\* Before a signal, and before cancelRun, no module returns nil; the shutdown is
\* for a signal or a failure.
WhyItEnds ==
  /\ ~RunDead => \A i \in 1..Len(events) : events[i].reason # "stopped"
  /\ stage \in {"drain", "stop", "lock", "join", "close", "exit"} =>
       failed \/ ctx = "signal"

\* After a signal that came first only a panic can be told as a failure.
SignalFirst ==
  /\ cause = "none" => \A m \in Modules : status[m] \notin {"failing", "err", "panic"}
  /\ cause # "module" /\ (\A m \in Modules : status[m] # "panic") =>
       /\ \A m \in Modules : status[m] # "err"
       /\ \A i \in 1..Len(events) : events[i].reason = "stopped"
  /\ cause = "signal" => ctx = "signal" /\ Started
  /\ cause = "signal" /\ failed =>
       \/ \E m \in Modules : status[m] = "panic"
       \/ hookErrs # {} \/ stopErrs # {}

\* Inductive.
LInv == TypeOK /\ StageSays /\ LeftOvers /\ StopsSoFar /\ WhyItEnds /\ SignalFirst

=============================================================================
