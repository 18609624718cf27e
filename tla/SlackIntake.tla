---------------------------- MODULE SlackIntake ----------------------------
(***************************************************************************)
(* Messages from Slack until the agent hears them (integrations/slack,     *)
(* integrations/host, the Slack listeners of modules/agent), and the       *)
(* agent's replies, which Slack sends back as messages of the bot.         *)
(*                                                                         *)
(* Slack sends an envelope again until it is acknowledged.  One goroutine  *)
(* runs the socket and one handles its events in order: parse, enrich with *)
(* a pool of API calls, record on the bus, acknowledge.  An error of       *)
(* either ends the source, and with it the process; it is started again.   *)
(***************************************************************************)
EXTENDS Integers, Sequences, FiniteSets, SequencesExt

CONSTANTS
  Bot,         \* botUserID
  NoUser,      \* the user of an event that names none
  Scenarios    \* the inputs of a run: the events users cause; the users the
               \* allowlist names ({}: there is none); whether Slack unfurls links
               \* of replies; and bounds: replies, and mishaps of the environment

(* An event of Slack: whether its envelope carries an event callback, another *)
(* event or nothing known; the kind of the inner event; the outer user and    *)
(* time; and the message it is about.  A time of 0 does not parse, a thread   *)
(* of 0 is none.                                                              *)

VARIABLES
  scenario,   \* the inputs of this run
  events,     \* Slack: all events so far, those of the bot's posts included
  acked,      \* Slack: the events it takes as acknowledged
  mishaps,    \* mishaps so far
  ctx,        \* the context of the source was cancelled
  run,        \* Run: "waiting", "nil", "error" returned, or "down"
  client,     \* the socket goroutine: "up" or "ended"
  queue,      \* client.Events
  loop,       \* where the event loop is
  work,       \* the event it handles, its data so far and the open API calls
  errCh,      \* what the two goroutines returned
  recorded,   \* durable: the events on the bus
  heard       \* how many of them the agent has taken

process == <<ctx, run, client, queue, loop, work, errCh>>
slackVars == <<scenario, events, acked, mishaps, process, recorded, heard>>

NoWork == [event |-> 0, data |-> <<>>, calls |-> {}, forward |-> 0]

SlackInit ==
  /\ scenario \in Scenarios
  /\ events = scenario.events
  /\ acked = {} /\ mishaps = 0
  /\ ctx = FALSE /\ run = "waiting" /\ client = "up"
  /\ queue = <<>> /\ loop = "select" /\ work = NoWork /\ errCh = <<>>
  /\ recorded = <<>> /\ heard = 0

\* Something outside goes wrong.
Mishap == mishaps < scenario.mishaps /\ mishaps' = mishaps + 1

\* Run has returned, or the context ended: calls that take it fail.
Cancelled == ctx \/ run # "waiting"

-----------------------------------------------------------------------------
(* Slack (external).                                                          *)

InFlight == {x.event : x \in ToSet(queue)} \union {work.event}

\* Slack sends an event that is not acknowledged; out of impatience, one that is
\* on its way as well.
SlackSends(n) ==
  /\ client = "up" /\ run = "waiting" /\ n \notin acked
  /\ IF n \in InFlight THEN Mishap ELSE UNCHANGED mishaps
  /\ queue' = Append(queue, [notice |-> "", event |-> n])
  /\ UNCHANGED <<scenario, events, acked, ctx, run, client, loop, work, errCh,
                 recorded, heard>>

\* Something other than an event arrives on the socket.
Notices == {"connecting", "connection error", "connection error without cause",
            "invalid auth", "incoming error", "bad message", "write failed", "closed"}

SocketReports ==
  /\ client = "up" /\ run = "waiting" /\ Mishap
  /\ \E x \in Notices : queue' = Append(queue, [notice |-> x, event |-> 0])
  /\ UNCHANGED <<scenario, events, acked, ctx, run, client, loop, work, errCh,
                 recorded, heard>>

\* The socket goroutine returns: its context ended, or it gives up.
ClientEnds ==
  /\ client = "up" /\ run # "down"
  /\ IF Cancelled THEN errCh' = Append(errCh, "canceled") /\ UNCHANGED mishaps
                  ELSE errCh' = Append(errCh, "error") /\ Mishap
  /\ client' = "ended"
  /\ UNCHANGED <<scenario, events, acked, ctx, run, queue, loop, work, recorded, heard>>

-----------------------------------------------------------------------------
(* Parsing.                                                                   *)

\* ThreadTS: the root of the thread, or the message itself.
ThreadTS(thread, ts) == IF thread = 0 THEN ts ELSE thread

\* What the attachments of a message forward.
DetectForwards(message) ==
  LET usable(a) == a.author # NoUser /\ a.ts # 0
      known == SelectSeq(message.attachments, usable)
  IN  [i \in DOMAIN known |->
         [channel |-> known[i].channel, ts |-> known[i].ts,
          sender |-> known[i].author, reactions |-> ""]]

\* A plausible bug: a changed message is filed under the time of the change.
ParsedByOuterTime(e, changed) ==
  [updated |-> changed, channel |-> e.channel,
   ts |-> e.ts, thread |-> ThreadTS(e.message.thread, e.ts),
   sender |-> IF changed THEN e.message.user ELSE e.user,
   reactions |-> "", files |-> <<>>, images |-> <<>>,
   forwards |-> DetectForwards(e.message)]

\* ParseReceivedEvent and ParseChangedEvent.
Parsed(e, changed) ==
  LET ts == IF changed THEN e.message.ts ELSE e.ts
  IN  [updated |-> changed, channel |-> e.channel,
       ts |-> ts, thread |-> ThreadTS(e.message.thread, ts),
       sender |-> IF changed THEN e.message.user ELSE e.user,
       reactions |-> "", files |-> <<>>, images |-> <<>>,
       forwards |-> DetectForwards(e.message)]

Parses(e) == IF e.kind = "message_changed" THEN e.message.ts # 0 ELSE e.ts # 0

\* The event is acknowledged without a record: no callback, no message, a user
\* the allowlist does not name, or a message of the bot.
Dropped(e) ==
  \/ e.envelope = "other"
  \/ e.kind = "other"
  \/ scenario.allow # {} /\ e.user \notin scenario.allow
  \/ e.kind = "message" /\ e.user = Bot

\* Notices that end the source.
Fatal == {"connection error without cause", "invalid auth", "bad message",
          "write failed", "closed"}

MainCalls    == {"sender", "channel", "reactions", "files"}
ForwardCalls == {"sender", "channel", "reactions"}

\* The event loop returns err.
LoopFails(err) ==
  /\ errCh' = Append(errCh, err)
  /\ loop' = "ended" /\ work' = NoWork

\* handleSocketEvent, up to the first call that leaves the process.
Take ==
  LET x == Head(queue) IN
  /\ loop = "select" /\ run # "down" /\ queue # <<>>
  /\ queue' = Tail(queue)
  /\ \/ /\ x.notice \in Notices \ Fatal
        /\ UNCHANGED <<loop, work, errCh>>
     \/ x.notice \in Fatal /\ LoopFails("error")
     \/ /\ x.notice = ""
        /\ LET e == events[x.event] IN
           \/ e.envelope = "unknown" /\ LoopFails("error")
           \/ /\ e.envelope # "unknown" /\ Dropped(e)
              /\ loop' = "ack" /\ work' = [event |-> x.event, data |-> <<>>, calls |-> {}, forward |-> 0]
              /\ UNCHANGED errCh
           \/ /\ e.envelope # "unknown" /\ ~Dropped(e) /\ ~Parses(e)
              /\ LoopFails("error")
           \/ /\ e.envelope # "unknown" /\ ~Dropped(e) /\ Parses(e)
              /\ loop' = "enrich"
              /\ work' = [event |-> x.event, calls |-> MainCalls, forward |-> 0,
                          data |-> Parsed(e, e.kind = "message_changed")]
              /\ UNCHANGED errCh
  /\ UNCHANGED <<scenario, events, acked, mishaps, ctx, run, client, recorded, heard>>

\* The event loop is in its select when its context has ended.
LoopStops ==
  /\ loop = "select" /\ Cancelled /\ run # "down"
  /\ LoopFails("canceled")
  /\ UNCHANGED <<scenario, events, acked, mishaps, ctx, run, client, queue, recorded, heard>>

-----------------------------------------------------------------------------
(* Enrichment.  No failure of it ends the handling of the event.              *)

\* What a file may become: content, or a status that says why there is none.
EnrichFile(f) ==
  [id : {f.id}, status : {""}, content : {TRUE}]
    \union [id : {f.id}, status : {"unavailable", "unsupported"}, content : {FALSE}]

EnrichImage(f) ==
  [id : {f.id}, status : {""}, bytes : {"some", "none"}]
    \union [id : {f.id}, status : {"unavailable"}, bytes : {"none"}]

UnsupportedFile(f) == {[id |-> f.id, status |-> "unsupported", content |-> FALSE]}

Outcomes(f) ==
  CASE f.kind = "text"  -> EnrichFile(f)
    [] f.kind = "image" -> EnrichImage(f)
    [] OTHER            -> UnsupportedFile(f)

\* What becomes of each file.
EachFetched(files) ==
  {s \in [DOMAIN files -> UNION {Outcomes(f) : f \in ToSet(files)}] :
     \A i \in DOMAIN files : s[i] \in Outcomes(files[i])}

\* What would be fetched but has no id.
Skipped(f) == f.id = "" /\ f.kind \in {"text", "image"}

\* The files of the message, each fetched on its own and skipped when it has no id:
\* images and the others in two lists, in which each file keeps its place.
EnrichFiles(d, message) ==
  LET fs     == message.files
      kept   == {i \in DOMAIN fs : ~Skipped(fs[i])}
      images == {i \in kept : fs[i].kind = "image"}
  IN  {[d EXCEPT !.files = Restrict(s, kept \ images), !.images = Restrict(s, images)] :
         s \in EachFetched(fs)}

\* Reactions are asked for if the channel and the time are known; a failure is
\* kept.  (Which reactions there are makes no difference.)
EnrichReactions(d) ==
  IF d.channel = "" \/ d.ts = 0 THEN {d}
  ELSE {[d EXCEPT !.reactions = r] : r \in {"", "unavailable"}}

\* The names of the sender and the channel make no difference, nor that they may
\* stay unknown.
EnrichName(d) == {d}

EnrichCall(d, call, message) ==
  CASE call = "files" -> EnrichFiles(d, message)
    [] call = "reactions" -> EnrichReactions(d)
    [] OTHER -> EnrichName(d)

\* One call of the pool ends.  After the last, the forwards follow one by one.
Enrich(call) ==
  LET message == events[work.event].message
      i       == work.forward
      left    == work.calls \ {call}
      more    == i < Len(work.data.forwards)
  IN
  /\ loop = "enrich" /\ call \in work.calls /\ run # "down"
  /\ \E d \in IF i = 0 THEN EnrichCall(work.data, call, message)
              ELSE {[work.data EXCEPT !.forwards[i] = f] :
                      f \in EnrichCall(work.data.forwards[i], call, message)} :
       /\ work' = [event |-> work.event, data |-> d,
                    calls |-> IF left = {} /\ more THEN ForwardCalls ELSE left,
                    forward |-> IF left = {} /\ more THEN i + 1 ELSE i]
       /\ loop' = IF left = {} /\ ~more THEN "record" ELSE "enrich"
  /\ UNCHANGED <<scenario, events, acked, mishaps, ctx, run, client, queue, errCh,
                 recorded, heard>>

-----------------------------------------------------------------------------
(* Record and acknowledge.                                                    *)

\* A call that takes the context fails, with its error or another one.
CallFails ==
  IF Cancelled THEN UNCHANGED mishaps /\ \E err \in {"canceled", "error"} : LoopFails(err)
  ELSE Mishap /\ LoopFails("error")

\* A plausible bug: an event that cannot be recorded is acknowledged all the same.
RecordFailsQuietly ==
  Mishap /\ loop' = "ack" /\ UNCHANGED <<work, errCh>>

\* The bus refuses the event: it is not acknowledged, and the source ends.
RecordFails == CallFails

\* bus.Record, one transaction (ReactionDispatcher); it fails when the store
\* does or the context has ended.
Record ==
  /\ loop = "record" /\ run # "down"
  /\ \/ /\ ~Cancelled
        /\ recorded' = Append(recorded, [event |-> work.event, data |-> work.data])
        /\ loop' = "ack"
        /\ UNCHANGED <<mishaps, errCh, work>>
     \/ RecordFails /\ UNCHANGED recorded
  /\ UNCHANGED <<scenario, events, acked, ctx, run, client, queue, heard>>

\* ackSocketEvent: it arrives, is lost on the way, or cannot be sent (the event
\* has no envelope id, the write fails, the context has ended).
Ack ==
  /\ loop = "ack" /\ run # "down"
  /\ \/ /\ ~Cancelled
        /\ acked' = acked \union {work.event}
        /\ loop' = "select" /\ work' = NoWork
        /\ UNCHANGED <<mishaps, errCh>>
     \/ /\ ~Cancelled /\ Mishap
        /\ loop' = "select" /\ work' = NoWork
        /\ UNCHANGED <<acked, errCh>>
     \/ CallFails /\ UNCHANGED acked
  /\ UNCHANGED <<scenario, events, ctx, run, client, queue, recorded, heard>>

-----------------------------------------------------------------------------
(* The source and its process.                                                *)

\* The process is told to stop.
Stop ==
  /\ run = "waiting" /\ ~ctx /\ Mishap
  /\ ctx' = TRUE
  /\ UNCHANGED <<scenario, events, acked, run, client, queue, loop, work, errCh,
                 recorded, heard>>

\* A plausible bug: Run waits for both goroutines and cancels neither.
BothEnded == Len(errCh) = 2

\* What Run waits for, besides its context.
OneEnded == errCh # <<>>

\* Run returns with what the first of its goroutines returned; it does not wait
\* for the other one.
RunReturns ==
  /\ run = "waiting" /\ OneEnded
  /\ run' = IF ctx /\ Head(errCh) = "canceled" THEN "nil" ELSE "error"
  /\ errCh' = Tail(errCh)
  /\ UNCHANGED <<scenario, events, acked, mishaps, ctx, client, queue, loop, work,
                 recorded, heard>>

\* The process ends: in order once Run has returned (Host.Start reports an error
\* unless the context has ended, and Lifecycle follows), or by a crash.
ProcessEnds ==
  /\ run # "down"
  /\ IF run = "waiting" THEN Mishap ELSE UNCHANGED mishaps
  /\ run' = "down"
  /\ UNCHANGED <<scenario, events, acked, ctx, client, queue, loop, work, errCh,
                 recorded, heard>>

\* It is started again: New, Init and Run.
Start ==
  /\ run = "down"
  /\ run' = "waiting" /\ ctx' = FALSE /\ client' = "up"
  /\ queue' = <<>> /\ loop' = "select" /\ work' = NoWork /\ errCh' = <<>>
  /\ UNCHANGED <<scenario, events, acked, mishaps, recorded, heard>>

-----------------------------------------------------------------------------
(* The agent.                                                                 *)

\* What the model is told: newUserMessage, and slackUserMessages for the images.
FilesXML(d)  == {[id |-> f.id, status |-> f.status, content |-> f.content] : f \in Range(d.files)}
ImagesXML(d) == {[id |-> x.id, status |-> x.status] : x \in Range(d.images)}

WithBytes(d) == {i \in DOMAIN d.images : d.images[i].bytes = "some"}

\* A plausible bug: only the first image is sent.
FirstImagePart(d) ==
  [i \in {j \in WithBytes(d) : \A k \in DOMAIN d.images : j <= k} |-> d.images[i].id]

ImageParts(d) == [i \in WithBytes(d) |-> d.images[i].id]

ReactionsXML(d) == d.reactions

UserMessage(d) ==
  [sender |-> d.sender, files |-> FilesXML(d), images |-> ImagesXML(d),
   parts |-> ImageParts(d), reactions |-> ReactionsXML(d),
   forwards |-> [i \in DOMAIN d.forwards |-> ReactionsXML(d.forwards[i])]]

\* NewOriginURI and ParseOriginURI: the session, and where a reply goes.
OriginURI(d) == <<d.channel, d.thread>>

Replies == Len(SelectSeq(events, LAMBDA e : e.kind = "message" /\ e.user = Bot))

\* What Slack sends for a reply: the message of the bot, and a change of it when
\* its links unfurl.
Post(uri) ==
  LET ts == Len(events) + 1
      message == [user |-> Bot, ts |-> ts, thread |-> uri[2], files |-> <<>>,
                  attachments |-> <<>>]
      posted == [envelope |-> "callback", kind |-> "message", user |-> Bot,
                 channel |-> uri[1], ts |-> ts, message |-> message]
      changed == [posted EXCEPT !.kind = "message_changed", !.user = NoUser,
                                !.ts = ts + 1]
  IN  IF scenario.unfurls THEN <<posted, changed>> ELSE <<posted>>

\* A worker takes the next event off the bus; the agent stays quiet or replies.
AgentHears ==
  /\ heard < Len(recorded) /\ run # "down"
  /\ heard' = heard + 1
  /\ \/ UNCHANGED events
     \/ /\ Replies < scenario.replies
        /\ events' = events \o Post(OriginURI(recorded[heard + 1].data))
  /\ UNCHANGED <<scenario, acked, mishaps, process, recorded>>

SlackNext ==
  \/ \E n \in DOMAIN events : SlackSends(n)
  \/ SocketReports \/ ClientEnds
  \/ Take \/ LoopStops \/ Record \/ Ack
  \/ \E call \in MainCalls : Enrich(call)
  \/ Stop \/ RunReturns \/ ProcessEnds \/ Start
  \/ AgentHears

\* Goroutines run, Slack goes on sending, and a process that ended is started.
Fairness ==
  /\ WF_slackVars(\E n \in DOMAIN events \ InFlight : SlackSends(n))
  /\ WF_slackVars(ClientEnds) /\ WF_slackVars(Take) /\ WF_slackVars(LoopStops)
  /\ WF_slackVars(\E call \in MainCalls : Enrich(call))
  /\ WF_slackVars(Record) /\ WF_slackVars(Ack)
  /\ WF_slackVars(RunReturns) /\ WF_slackVars(run # "waiting" /\ ProcessEnds) /\ WF_slackVars(Start)

SlackSpec     == SlackInit /\ [][SlackNext]_slackVars
FairSlackSpec == SlackSpec /\ Fairness

-----------------------------------------------------------------------------
(* Properties.                                                                *)

\* What Slack takes as acknowledged is on the bus, or was dropped on purpose:
\* "local persistence errors are not hidden behind a successful Slack ack"
\* (handlers.go handleMessage), whatever fails, ends or restarts in between.
AckedIsKept ==
  \A n \in acked :
     Dropped(events[n]) \/ \E i \in DOMAIN recorded : recorded[i].event = n

\* Nothing of a message is silently missing in what the model is told: each file
\* that has an id is there with its content or a status; each image with bytes is
\* there once as data and is named in the text (enrichment_attachments.go,
\* listeners.go).
NothingSilentlyMissing ==
  \A x \in ToSet(recorded) :
     LET told == UserMessage(x.data)
         sent == ToSet(events[x.event].message.files)
     IN  /\ {f.id : f \in sent} \ {""}
              = ({f.id : f \in told.files} \union {f.id : f \in told.images}) \ {""}
         /\ \A f \in told.files : f.content <=> f.status = ""
         /\ \A f \in Range(x.data.images) :
              Cardinality({i \in DOMAIN told.parts : told.parts[i] = f.id})
                = (IF f.status = "" /\ f.bytes = "some" THEN 1 ELSE 0)

\* A message, its changes, the replies in its thread and the bot's own answers
\* all belong to one session (message.go, reply.go).
ThreadIsOneSession ==
  \A c, d \in ToSet(recorded) :
     LET root(x) == ThreadTS(events[x.event].message.thread, events[x.event].message.ts)
     IN  c.data.channel = d.data.channel /\ root(c) = root(d)
         => OriginURI(c.data) = OriginURI(d.data)

\* The bot's own messages are ignored (handlers.go: "slack message ignored: bot
\* self-message"): the agent does not hear itself.
OwnMessagesIgnored == \A i \in 1..heard : recorded[i].data.sender # Bot

\* An event that ends the source each time it is handled.
Poison(e) == e.envelope = "unknown" \/ (~Dropped(e) /\ ~Parses(e))

\* Unless an event is poison, Slack is in the end rid of all of them: no error,
\* lost acknowledgement or restart leaves one behind or the source stuck.
AllAcknowledged ==
  (\A n \in DOMAIN events : ~Poison(events[n])) ~> (acked = DOMAIN events)

=============================================================================
