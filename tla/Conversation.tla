---------------------------- MODULE Conversation ----------------------------
(***************************************************************************)
(* Turns of the agent on the transcripts of their sessions: the processor, *)
(* the loop and the session context of modules/agent, the session store    *)
(* (pkg/session/sqlite), the tools a turn runs (pkg/tools, pkg/comms) and  *)
(* the extraction of facts when a turn has ended (modules/memory).         *)
(*                                                                         *)
(* Every incoming message is a durable reaction of the agent, and every    *)
(* recorded end of a turn one of the memory module; ReactionDispatcher     *)
(* says what the workers may do with them: run several at once, settle     *)
(* each by the handler's result, and after a crash run again those that    *)
(* were not settled.  A step is one access to the store, one call of the   *)
(* model with the record that follows it, or one tool call.                *)
(***************************************************************************)
EXTENDS ModelClient, FiniteSets

CONSTANTS
  Incoming,     \* the incoming messages
  SessionOf,    \* [Incoming -> session]: the source URI of each
  Worlds,       \* what a run may meet: the completer, how many handlers run at
                \* once (2 in runtime.go), and bounds: tool calls in one reply,
                \* process ends and failing store operations
  Perception,   \* agent.perception.enabled
  ReplyTool,    \* the loop has tools, the reply tool among them
  MaxRounds,    \* bound: replies of one attempt that go on with tools
  MaxFacts      \* bound: facts extracted from one turn

ASSUME ConversationAssumption ==
  /\ Worlds \subseteq [provider : {"openai", "anthropic", "echo"}, workers : Nat,
                       calls : Nat, crashes : Nat, faults : Nat]
  /\ Perception \in BOOLEAN /\ ReplyTool \in BOOLEAN
  /\ {MaxRounds, MaxFacts} \subseteq Nat

VARIABLES
  world,     \* the world of this run
  log,       \* durable: the transcript of each session, in order of seq
  ends,      \* durable: the recorded turn ends, each with the state of its
             \* reaction and the facts stored for it
  pc,        \* where the handler of each message is
  phase,     \* why it reads the transcript: "assess", "offset" or "run"
  tries,     \* deliveries of each message so far
  injected,  \* synthetic results it has still to record
  view,      \* messages of the next request
  fresh,     \* how many of them were on record: newMessagesStart
  todo,      \* tool calls of the last reply still to run
  rounds,    \* replies of this attempt so far
  offset,    \* turnOffset
  effects,   \* history: tool calls that were run
  crashes,   \* process ends so far
  faults,    \* failed store operations so far
  disturbed  \* history: sessions on which two turns overlapped or a store
             \* operation failed

handlerVars == <<pc, phase, injected, view, fresh, todo, rounds, offset>>
vars == <<world, log, ends, tries, handlerVars, effects, crashes, faults, disturbed>>

Sessions == {SessionOf[m] : m \in Incoming}
Nobody   == <<>>     \* the attempt a synthetic result belongs to

\* This attempt: a delivery of a message.
Attempt(m) == <<m, tries[m]>>

\* A handler that returned holds its worker until the reaction is settled.
Settled == [nil |-> "succeeded", error |-> "failed"]
Resting == {"waiting", "succeeded", "failed"}
Active  == {m \in Incoming : pc[m] \notin Resting}
Ingesting == {e \in DOMAIN ends : ends[e].state = "nil"}
Idle == Cardinality(Active) + Cardinality(Ingesting) < world.workers

Init ==
  /\ log = [s \in Sessions |-> <<>>]
  /\ world \in Worlds
  /\ ends = <<>>
  /\ pc = [m \in Incoming |-> "waiting"]
  /\ phase = [m \in Incoming |-> "run"]
  /\ tries = [m \in Incoming |-> 0]
  /\ injected = [m \in Incoming |-> <<>>]
  /\ view = [m \in Incoming |-> <<>>]
  /\ fresh = [m \in Incoming |-> 0]
  /\ todo = [m \in Incoming |-> <<>>]
  /\ rounds = [m \in Incoming |-> 0]
  /\ offset = [m \in Incoming |-> 0]
  /\ effects = {} /\ crashes = 0 /\ faults = 0 /\ disturbed = {}

-----------------------------------------------------------------------------
(* The session store.  Each operation is one transaction or fails.          *)

StoreWorks    == UNCHANGED <<faults, disturbed>>
StoreFails(s) ==
  /\ faults < world.faults
  /\ faults' = faults + 1
  /\ disturbed' = disturbed \union {s}

\* Messages gives the transcript in the order it was appended.
Transcript(s) == log[s]

\* Record appends messages; an empty record does not touch the store.
AppendToLog(s, messages) ==
  \/ log' = [log EXCEPT ![s] = @ \o messages] /\ StoreWorks
  \/ messages # <<>> /\ StoreFails(s) /\ UNCHANGED log

-----------------------------------------------------------------------------
(* repairHistory: a call without a result anywhere after it gets a synthetic  *)
(* one right after its message.                                               *)

\* A plausible bug: the result directly after the message is overlooked.
SatisfiedLater(messages, i, id) ==
  \E j \in (i + 2)..Len(messages) :
     messages[j].role = "tool" /\ messages[j].callID = id

Satisfied(messages, i, id) ==
  \E j \in (i + 1)..Len(messages) :
     messages[j].role = "tool" /\ messages[j].callID = id

Missing(messages, i) ==
  LET calls == messages[i].calls
  IN  FlattenSeq([k \in DOMAIN calls |->
        IF Satisfied(messages, i, calls[k]) THEN <<>>
        ELSE <<ToolResultMessage(calls[k], Nobody)>>])

\* A plausible bug: the history is returned as it was read.
Unrepaired(messages) == messages

Repaired(messages) ==
  FlattenSeq([i \in DOMAIN messages |-> <<messages[i]>> \o Missing(messages, i)])

Injected(messages) ==
  FlattenSeq([i \in DOMAIN messages |-> Missing(messages, i)])

-----------------------------------------------------------------------------
(* Processor.Handle and Loop.Run.                                             *)

\* A worker takes the reaction: the listener renders the message, and Handle
\* assesses it or goes on to the turn.
Deliver(m) ==
  /\ pc[m] = "waiting" /\ Idle
  /\ pc' = [pc EXCEPT ![m] = "read"]
  /\ phase' = [phase EXCEPT ![m] = IF Perception THEN "assess" ELSE "offset"]
  /\ tries' = [tries EXCEPT ![m] = @ + 1]
  /\ injected' = [injected EXCEPT ![m] = <<>>]
  /\ view' = [view EXCEPT ![m] = <<>>]
  /\ fresh' = [fresh EXCEPT ![m] = 0]
  /\ todo' = [todo EXCEPT ![m] = <<>>]
  /\ rounds' = [rounds EXCEPT ![m] = 0]
  /\ offset' = [offset EXCEPT ![m] = 0]
  /\ disturbed' = disturbed \union
       {s \in {SessionOf[m]} : \E o \in Active : SessionOf[o] = s}
  /\ UNCHANGED <<log, ends, effects, world, crashes, faults>>

\* A plausible bug: the incoming message is counted as history.
CountsMessage(h) == Len(h) + 1

\* turnOffset and newMessagesStart for the history h.
TurnOffset(h) == Len(h)
StartOfNew(h) == Len(h)

\* What follows when the transcript was read as h (<<>> when that failed, which
\* only the assessment does not tolerate).
AfterRead(m, h, ok) ==
  CASE phase[m] = "assess" ->
         /\ pc' = [pc EXCEPT ![m] = IF ok THEN "perceive" ELSE "error"]
         /\ UNCHANGED <<phase, view, fresh, offset>>
    [] phase[m] = "offset" ->
         /\ offset' = [offset EXCEPT ![m] = TurnOffset(h)]
         /\ pc' = [pc EXCEPT ![m] = "read"]
         /\ phase' = [phase EXCEPT ![m] = "run"]
         /\ UNCHANGED <<view, fresh>>
    [] OTHER ->
         /\ view' = [view EXCEPT ![m] = Append(h, UserMessage(Attempt(m)))]
         /\ fresh' = [fresh EXCEPT ![m] = StartOfNew(h)]
         /\ pc' = [pc EXCEPT ![m] = "ask"]
         /\ UNCHANGED <<phase, offset>>

\* SessionContext.Messages: read and repair.
Read(m) ==
  LET s == SessionOf[m] IN
  /\ pc[m] = "read"
  /\ \/ /\ Injected(Transcript(s)) = <<>>
        /\ AfterRead(m, Transcript(s), TRUE)
        /\ StoreWorks /\ UNCHANGED injected
     \/ /\ Injected(Transcript(s)) # <<>>
        /\ injected' = [injected EXCEPT ![m] = Injected(Transcript(s))]
        /\ view' = [view EXCEPT ![m] = Repaired(Transcript(s))]
        /\ pc' = [pc EXCEPT ![m] = "repair"]
        /\ StoreWorks /\ UNCHANGED <<phase, fresh, offset>>
     \/ /\ StoreFails(s)
        /\ AfterRead(m, <<>>, FALSE)
        /\ UNCHANGED injected
  /\ UNCHANGED <<log, tries, ends, todo, rounds, effects, world, crashes>>

\* The synthetic results are recorded at the end of the transcript; that this
\* may fail changes nothing for the turn.
Repair(m) ==
  /\ pc[m] = "repair"
  /\ AppendToLog(SessionOf[m], injected[m])
  /\ injected' = [injected EXCEPT ![m] = <<>>]
  /\ AfterRead(m, view[m], TRUE)
  /\ UNCHANGED <<tries, ends, todo, rounds, effects, world, crashes>>

\* What the perceiver makes of an extraction: an action other than queue and
\* ignore, and one without a reason, are errors like a failed extraction.
Judgements == [action : {"queue", "ignore", "other"}, reason : BOOLEAN]

Assess(x) ==
  IF x = Nothing \/ x[1].action = "other" \/ ~x[1].reason THEN "error"
  ELSE x[1].action

\* assess: a queued message goes on to its turn, an ignored one is done.
Perceive(m) ==
  /\ pc[m] = "perceive"
  /\ \E x \in Extractions(Judgements) :
       \/ /\ Assess(x) = "queue"
          /\ pc' = [pc EXCEPT ![m] = "read"]
          /\ phase' = [phase EXCEPT ![m] = "offset"]
       \/ Assess(x) = "ignore" /\ pc' = [pc EXCEPT ![m] = "nil"] /\ UNCHANGED phase
       \/ Assess(x) = "error" /\ pc' = [pc EXCEPT ![m] = "error"] /\ UNCHANGED phase
  /\ UNCHANGED <<log, tries, injected, view, fresh, todo, rounds, offset, ends,
                 effects, world, crashes, faults, disturbed>>

CallIDs(m, n) == [i \in 1..n |-> <<m, tries[m], rounds[m], i>>]

\* A plausible bug: only a reply with text is put on record.
ExchangeOfText(m, reply) ==
  SubSeq(view[m], fresh[m] + 1, Len(view[m])) \o (IF reply.text THEN <<reply>> ELSE <<>>)

\* What is put on record for a reply: what is new of the request, and the reply
\* if it has text or calls.
Exchange(m, reply) ==
  SubSeq(view[m], fresh[m] + 1, Len(view[m]))
    \o (IF reply.text \/ reply.calls # <<>> THEN <<reply>> ELSE <<>>)

\* A plausible bug: newMessagesStart is taken before the reply is appended.
NextStartEarly(m) == Len(view[m])

\* newMessagesStart once the reply is appended.
NextStart(m) == Len(view[m]) + 1

\* The reply r came: what is new of the request and the reply are recorded
\* together, an error of that is dropped, and the finish reason decides.
Answered(m, r) ==
  LET reply == AssistantMessage(r.text, CallIDs(m, r.calls), Attempt(m))
  IN  /\ AppendToLog(SessionOf[m], Exchange(m, reply))
      /\ rounds' = [rounds EXCEPT ![m] = @ + 1]
      /\ \/ /\ r.finish = "stop"
            /\ pc' = [pc EXCEPT ![m] = "end"]
            /\ UNCHANGED <<view, fresh, todo>>
         \/ /\ r.finish = "tool_calls"
            /\ view' = [view EXCEPT ![m] = Append(@, reply)]
            /\ fresh' = [fresh EXCEPT ![m] = NextStart(m)]
            /\ todo' = [todo EXCEPT ![m] = reply.calls]
            /\ pc' = [pc EXCEPT ![m] = IF r.calls = 0 THEN "ask"
                                       ELSE IF ReplyTool THEN "tool" ELSE "error"]
         \/ /\ r.finish \notin {"stop", "tool_calls"}
            /\ pc' = [pc EXCEPT ![m] = "error"]
            /\ UNCHANGED <<view, fresh, todo>>

Ask(m) ==
  /\ pc[m] = "ask"
  /\ \E r \in Replies(world.provider, view[m], ReplyTool, world.calls) :
        /\ r.finish = "tool_calls" /\ world.provider # "echo" => rounds[m] < MaxRounds
        /\ Answered(m, r)
  /\ UNCHANGED <<tries, phase, injected, offset, ends, effects, world, crashes>>

\* The model gives an error, or no reply: the turn fails and records nothing.
AskFails(m) ==
  /\ pc[m] = "ask" /\ world.provider # "echo"
  /\ pc' = [pc EXCEPT ![m] = "error"]
  /\ UNCHANGED <<log, tries, phase, injected, view, fresh, todo, rounds, offset,
                 ends, effects, world, crashes, faults, disturbed>>

\* The tools run one after the other; output or error, each gives a result.
RunTool(m) ==
  /\ pc[m] = "tool"
  /\ effects' = effects \union {Head(todo[m])}
  /\ view' = [view EXCEPT ![m] = Append(@, ToolResultMessage(Head(todo[m]), Attempt(m)))]
  /\ todo' = [todo EXCEPT ![m] = Tail(@)]
  /\ pc' = [pc EXCEPT ![m] = IF Len(todo[m]) = 1 THEN "ask" ELSE "tool"]
  /\ UNCHANGED <<log, tries, phase, injected, fresh, rounds, offset, ends, world,
                 crashes, faults, disturbed>>

\* Handle records the end of the turn; that this may fail is only logged.
EndTurn(m) ==
  /\ pc[m] = "end"
  /\ \/ /\ ends' = Append(ends, [attempt |-> Attempt(m), session |-> SessionOf[m],
                                 offset |-> offset[m], state |-> "pending",
                                 facts |-> <<>>])
        /\ StoreWorks
     \/ StoreFails(SessionOf[m]) /\ UNCHANGED ends
  /\ pc' = [pc EXCEPT ![m] = "nil"]
  /\ UNCHANGED <<log, tries, phase, injected, view, fresh, todo, rounds, offset,
                 effects, world, crashes>>

\* The worker settles the reaction by what the handler returned (external here;
\* ReactionDispatcher has the whole of it).
Settle(m) ==
  /\ pc[m] \in DOMAIN Settled
  /\ pc' = [pc EXCEPT ![m] = Settled[pc[m]]]
  /\ UNCHANGED <<log, tries, phase, injected, view, fresh, todo, rounds, offset,
                 ends, effects, world, crashes, faults, disturbed>>

-----------------------------------------------------------------------------
(* memory.onTurnEnd.                                                          *)

\* A plausible bug: the slice starts one late.
TurnOfLate(messages, off) ==
  IF off > 0 /\ off < Len(messages) THEN SubSeq(messages, off + 2, Len(messages))
  ELSE messages

\* The messages from the offset on, if it lies inside the transcript.
TurnOf(messages, off) ==
  IF off > 0 /\ off < Len(messages) THEN SubSeq(messages, off + 1, Len(messages))
  ELSE messages

\* A worker takes the reaction: it reads the transcript as it is then, extracts
\* facts from the turn and puts each under a new id.  A read, an extraction and a
\* put that fail are only logged: between none and MaxFacts facts are stored.
Ingest(e) ==
  LET s    == ends[e].session
      turn == TurnOf(Transcript(s), ends[e].offset)
  IN
  /\ ends[e].state = "pending" /\ Idle
  /\ \/ /\ \E x \in Extractions(0..MaxFacts) :
             LET stored == IF turn = <<>> \/ x = Nothing THEN 0 ELSE x[1] IN
             ends' = [ends EXCEPT ![e].state = "nil",
                                  ![e].facts = @ \o [i \in 1..stored |-> turn]]
        /\ StoreWorks
     \/ StoreFails(s) /\ ends' = [ends EXCEPT ![e].state = "nil"]
  /\ UNCHANGED <<log, tries, handlerVars, effects, world, crashes>>

SettleEnd(e) ==
  /\ ends[e].state = "nil"
  /\ ends' = [ends EXCEPT ![e].state = "succeeded"]
  /\ UNCHANGED <<log, tries, handlerVars, effects, world, crashes, faults, disturbed>>

\* The process ends.  The next one gives back every reaction that was not
\* settled.
Crash ==
  /\ crashes < world.crashes
  /\ crashes' = crashes + 1
  /\ pc' = [m \in Incoming |-> IF m \in Active THEN "waiting" ELSE pc[m]]
  /\ ends' = [e \in DOMAIN ends |->
                [ends[e] EXCEPT !.state = IF e \in Ingesting THEN "pending" ELSE @]]
  /\ UNCHANGED <<log, world, tries, phase, injected, view, fresh,
                 todo, rounds, offset, effects, faults, disturbed>>

Next ==
  \/ \E m \in Incoming : Deliver(m) \/ Read(m) \/ Repair(m) \/ Perceive(m)
                         \/ Ask(m) \/ AskFails(m) \/ RunTool(m) \/ EndTurn(m)
                         \/ Settle(m)
  \/ \E e \in DOMAIN ends : Ingest(e) \/ SettleEnd(e)
  \/ Crash

Spec == Init /\ [][Next]_vars

-----------------------------------------------------------------------------
(* Properties.                                                                *)

Logged(s) == ToSet(log[s])

\* No request reaches a model with a tool call that nothing after it answers,
\* whatever was interrupted, overlapped or lost before: repairHistory and the
\* loop's own results see to it.
RequestsAnswered ==
  \A m \in Incoming : pc[m] = "ask" => Injected(view[m]) = <<>>

\* As long as turns of the session did not overlap and its store did not fail,
\* crashes and failed turns notwithstanding, both services accept every request:
\* each tool use is directly followed by its results, each once (context.go
\* repairHistory and Messages, loop.go Run, the request mappings).
RequestsAccepted ==
  \A m \in Incoming : pc[m] = "ask" /\ SessionOf[m] \notin disturbed =>
     /\ AnthropicAccepts(AnthropicParams(view[m]))
     /\ OpenAIAccepts(OpenAIParams(view[m]))

\* What the loop takes to be on record is on record (newMessagesStart), and when
\* a turn has ended the model was told exactly what the transcript says.
RequestIsOnRecord ==
  \A m \in Incoming : SessionOf[m] \notin disturbed =>
     /\ pc[m] = "ask" => IsPrefix(SubSeq(view[m], 1, fresh[m]), log[SessionOf[m]])
     /\ rounds[m] > 0 /\ pc[m] \in {"end", "nil", "succeeded"} =>
          IsPrefix(view[m], log[SessionOf[m]])

\* A message of an attempt at a turn is recorded at most once, also when turns
\* overlap, the store fails or a repair comes in between.  (A turn delivered again
\* is another attempt, with messages of its own.)
RecordedOnce ==
  \A s \in Sessions : \A i, j \in DOMAIN log[s] :
     log[s][i].by # Nobody /\ log[s][i] = log[s][j] => i = j

\* A tool runs only for a call that is on record, so that after a crash the model
\* is told of a call that may have had its effect (loop.go records the exchange
\* before it runs the tools).
CallsRecordedBeforeRun ==
  \A id \in effects : SessionOf[id[1]] \notin disturbed =>
     \E x \in Logged(SessionOf[id[1]]) : id \in ToSet(x.calls)

\* TurnOffset is the "index into session history where this turn's new messages
\* start" (modules/agent/events.go) as long as turns do not overlap.
OffsetIsTurnStart ==
  \A e \in DOMAIN ends :
     LET t == ends[e] l == log[t.session] IN
     t.session \notin disturbed =>
       /\ t.offset < Len(l) /\ l[t.offset + 1] = UserMessage(t.attempt)
       /\ \A i \in DOMAIN l : l[i].by = t.attempt => i > t.offset

\* What the memory module extracts facts from contains the whole turn, whenever
\* it gets to read the transcript (memory/module.go onTurnEnd).
FactsSeeWholeTurn ==
  \A e \in DOMAIN ends : \A i \in DOMAIN ends[e].facts :
     ends[e].session \notin disturbed =>
       \A x \in Logged(ends[e].session) :
          x.by = ends[e].attempt => x \in ToSet(ends[e].facts[i])

\* A synthetic result says "interrupted: the process restarted before this tool
\* call completed" (context.go): the process did restart after the call.
InterruptedMeansRestart ==
  \A s \in Sessions : \A x \in Logged(s) :
     x.role = "tool" /\ x.by = Nobody => crashes > 0

=============================================================================
