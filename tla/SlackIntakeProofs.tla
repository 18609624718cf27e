-------------------------- MODULE SlackIntakeProofs --------------------------
(***************************************************************************)
(* Proofs about Slack for any events, allowlist and number of mishaps.     *)
(*                                                                         *)
(* AckedIsKept: the acknowledgement is two steps behind the record, with   *)
(* failures, a cancelled context, an end of the process and redeliveries   *)
(* at each step; InHand says what the event loop knows of the event it has *)
(* in hand.                                                                *)
(*                                                                         *)
(* ThreadIsOneSession and NothingSilentlyMissing, for events as Slack      *)
(* makes them: what is on the bus is filed under the root of its thread,   *)
(* with an outcome for each file, and so is what the loop has in hand.     *)
(***************************************************************************)
EXTENDS SlackIntake, FiniteSetTheorems, TLAPS

\* The events of a scenario are a list.
InputsAreLists == \A s \in Scenarios : \E S : s.events \in Seq(S)

Lists ==
  /\ \E S : events \in Seq(S)
  /\ \E S : recorded \in Seq(S)
  /\ \E S : queue \in Seq(S)

\* An event is on the bus, or is one that is not to be.
Kept(n) ==
  /\ n \in DOMAIN events
  /\ Dropped(events[n]) \/ \E i \in DOMAIN recorded : recorded[i].event = n

\* Slack sends what there is.
SentEvents ==
  \A i \in DOMAIN queue : queue[i].notice = "" => queue[i].event \in DOMAIN events

\* What the loop handles is an event, and is kept before the acknowledgement.
InHand ==
  /\ loop \in {"enrich", "record"} => work.event \in DOMAIN events
  /\ loop = "ack" => Kept(work.event)

AInv == Lists /\ SentEvents /\ InHand /\ \A n \in acked : Kept(n)

-----------------------------------------------------------------------------
(* Lists that only grow.                                                      *)

\* Nothing of a list changes when another is put behind it.
LEMMA Grows ==
  ASSUME NEW s, NEW t, \E S : s \in Seq(S), \E S : t \in Seq(S)
  PROVE  /\ \E S : s \o t \in Seq(S)
         /\ \A i \in DOMAIN s : i \in DOMAIN (s \o t) /\ (s \o t)[i] = s[i]
         /\ \A i \in DOMAIN (s \o t) :
              (i \in DOMAIN s /\ (s \o t)[i] = s[i]) \/ (\E j \in DOMAIN t : (s \o t)[i] = t[j])
<1>1. PICK S : s \in Seq(S)
  OBVIOUS
<1>2. PICK T : t \in Seq(T)
  OBVIOUS
<1>3. s \in Seq(S \union T) /\ t \in Seq(S \union T)
  BY <1>1, <1>2
<1> DEFINE U == S \union T
<1>4. s \in Seq(U) /\ t \in Seq(U)
  BY <1>3
<1> HIDE DEF U
<1>5. s \o t \in Seq(U)
  BY <1>4
<1>6. QED
  BY <1>4, <1>5

\* What is put behind a list.
LEMMA GrowsByOne ==
  ASSUME NEW s, NEW e, \E S : s \in Seq(S)
  PROVE  /\ \E S : Append(s, e) \in Seq(S)
         /\ \A i \in DOMAIN s : i \in DOMAIN Append(s, e) /\ Append(s, e)[i] = s[i]
         /\ Len(s) + 1 \in DOMAIN Append(s, e) /\ Append(s, e)[Len(s) + 1] = e
         /\ \A i \in DOMAIN Append(s, e) :
              (i \in DOMAIN s /\ Append(s, e)[i] = s[i]) \/ Append(s, e)[i] = e
<1>1. PICK S : s \in Seq(S)
  OBVIOUS
<1> DEFINE U == S \union {e}
<1>2. s \in Seq(U) /\ e \in U
  BY <1>1
<1> HIDE DEF U
<1>3. Append(s, e) \in Seq(U)
  BY <1>2
<1>4. QED
  BY <1>2, <1>3

\* What is taken from the front of a list.
LEMMA Shrinks ==
  ASSUME NEW s, \E S : s \in Seq(S), s # <<>>
  PROVE  /\ \E S : Tail(s) \in Seq(S)
         /\ 1 \in DOMAIN s /\ Head(s) = s[1]
         /\ \A i \in DOMAIN Tail(s) : i + 1 \in DOMAIN s /\ Tail(s)[i] = s[i + 1]
OBVIOUS

-----------------------------------------------------------------------------
(* The steps.                                                                 *)

\* What is kept stays kept, as events and records stay where they are.
LEMMA KeptStays ==
  ASSUME UNCHANGED scenario, NEW n, Kept(n),
         \A i \in DOMAIN events : i \in DOMAIN events' /\ events'[i] = events[i],
         \A i \in DOMAIN recorded : i \in DOMAIN recorded' /\ recorded'[i] = recorded[i]
  PROVE  Kept(n)'
<1>1. n \in DOMAIN events' /\ events'[n] = events[n]
  BY DEF Kept
<1>2. Dropped(events[n]) => Dropped(events[n])'
  BY <1>1 DEF Dropped
<1>3. QED
  BY <1>1, <1>2 DEF Kept

\* Steps that leave events, records and acknowledgements alone keep AInv if the
\* queue and what is in hand are in order afterwards.
LEMMA LoopKeeps ==
  ASSUME AInv, UNCHANGED <<scenario, events, acked, recorded>>,
         (\E S : queue \in Seq(S))', SentEvents', InHand'
  PROVE  AInv'
<1>1. \A n : Kept(n) => Kept(n)'
  BY KeptStays
<1>2. Lists'
  BY DEF AInv, Lists
<1>3. QED
  BY <1>1, <1>2 DEF AInv

\* The loop goes on with what it has, or stops.
LEMMA SameQueue ==
  ASSUME AInv, UNCHANGED <<scenario, events, acked, recorded, queue>>,
         InHand' 
  PROVE  AInv'
<1>1. (\E S : queue \in Seq(S))' /\ SentEvents'
  BY DEF AInv, Lists, SentEvents
<1>2. QED
  BY <1>1, LoopKeeps

\* An event in hand stays so when nothing it depends on changes.
LEMMA HandsUnchanged ==
  ASSUME AInv, UNCHANGED <<scenario, events, recorded, loop, work>>
  PROVE  InHand'
<1>1. \A n : Kept(n) => Kept(n)'
  BY KeptStays
<1>2. QED
  BY <1>1 DEF AInv, InHand

\* A longer queue: Slack sends an event that there is, or a notice.
LEMMA Arrivals ==
  ASSUME AInv, NEW x, queue' = Append(queue, x),
         x.notice = "" => x.event \in DOMAIN events,
         UNCHANGED <<scenario, events, acked, loop, work, recorded>>
  PROVE  AInv'
<1>0. \E S : queue \in Seq(S)
  BY DEF AInv, Lists
<1>1. /\ (\E S : queue \in Seq(S))'
      /\ \A i \in DOMAIN queue' : (i \in DOMAIN queue /\ queue'[i] = queue[i]) \/ queue'[i] = x
  <2>1. /\ \E S : Append(queue, x) \in Seq(S)
        /\ \A i \in DOMAIN Append(queue, x) :
             (i \in DOMAIN queue /\ Append(queue, x)[i] = queue[i]) \/ Append(queue, x)[i] = x
    BY <1>0, GrowsByOne
  <2>2. QED
    BY <2>1
<1>2. SentEvents'
  BY <1>1 DEF AInv, SentEvents
<1>3. QED
  BY <1>1, <1>2, HandsUnchanged, LoopKeeps

\* Taking the next event and parsing it.
LEMMA TakeKeeps ==
  ASSUME AInv, Take
  PROVE  AInv'
<1> PICK x, n : x = Head(queue) /\ n = x.event
  OBVIOUS
<1>1. /\ queue # <<>> /\ queue' = Tail(queue)
      /\ UNCHANGED <<scenario, events, acked, recorded>>
  BY DEF Take
<1>2. /\ (\E S : queue \in Seq(S))'
      /\ 1 \in DOMAIN queue /\ x = queue[1]
      /\ \A i \in DOMAIN queue' : i + 1 \in DOMAIN queue /\ queue'[i] = queue[i + 1]
  BY <1>1, Shrinks DEF AInv, Lists
<1>3. SentEvents'
  BY <1>1, <1>2 DEF AInv, SentEvents
<1>4. x.notice = "" => n \in DOMAIN events
  BY <1>2 DEF AInv, SentEvents
<1>5. \/ loop' = loop /\ loop = "select"
      \/ loop' = "ended"
      \/ x.notice = "" /\ Dropped(events[n]) /\ loop' = "ack" /\ work'.event = n
      \/ x.notice = "" /\ loop' = "enrich" /\ work'.event = n
  <2> DEFINE e == events[Head(queue).event]
  <2>1. \/ loop = "select" /\ loop' = loop
        \/ LoopFails("error")
        \/ /\ Head(queue).notice = "" /\ Dropped(e) /\ loop' = "ack"
           /\ work' = [event |-> Head(queue).event, data |-> <<>>, calls |-> {}, forward |-> 0]
        \/ /\ Head(queue).notice = "" /\ loop' = "enrich"
           /\ work' = [event |-> Head(queue).event, calls |-> MainCalls, forward |-> 0,
                       data |-> Parsed(e, e.kind = "message_changed")]
    BY DEF Take
  <2>2. LoopFails("error") => loop' = "ended"
    BY DEF LoopFails
  <2>3. Head(queue).notice = x.notice /\ Head(queue).event = n
    OBVIOUS
  <2>4. e = events[n]
    BY <2>3
  <2> HIDE DEF e
  <2>5. CASE /\ Head(queue).notice = "" /\ Dropped(e) /\ loop' = "ack"
             /\ work' = [event |-> Head(queue).event, data |-> <<>>, calls |-> {}, forward |-> 0]
    <3>1. work'.event = Head(queue).event
      BY <2>5
    <3>2. x.notice = "" /\ Dropped(events[n]) /\ loop' = "ack" /\ work'.event = n
      BY <2>3, <2>4, <2>5, <3>1
    <3>3. QED
      BY <3>2
  <2>6. CASE /\ Head(queue).notice = "" /\ loop' = "enrich"
             /\ work' = [event |-> Head(queue).event, calls |-> MainCalls, forward |-> 0,
                         data |-> Parsed(e, e.kind = "message_changed")]
    <3>1. work'.event = Head(queue).event
      BY <2>6
    <3>2. QED
      BY <2>3, <2>6, <3>1
  <2>7. QED
    BY <2>1, <2>2, <2>5, <2>6
<1>6. InHand'
  <2>1. CASE (loop' = loop /\ loop = "select") \/ loop' = "ended"
    BY <2>1 DEF InHand
  <2>2. CASE x.notice = "" /\ Dropped(events[n]) /\ loop' = "ack" /\ work'.event = n
    <3>1. Kept(n)
      BY <1>4, <2>2 DEF Kept
    <3>2. Kept(n)'
      BY <1>1, <2>2, <3>1, KeptStays
    <3>3. work'.event = n /\ loop' = "ack"
      BY <2>2
    <3>4. QED
      BY <3>2, <3>3 DEF InHand, Kept
  <2>3. CASE x.notice = "" /\ loop' = "enrich" /\ work'.event = n
    BY <1>1, <1>4, <2>3 DEF InHand
  <2>4. QED
    BY <1>5, <2>1, <2>2, <2>3
<1>7. QED
  BY <1>1, <1>2, <1>3, <1>6, LoopKeeps

\* The end of one call of the enrichment.
LEMMA EnrichKeeps ==
  ASSUME AInv, NEW call, Enrich(call)
  PROVE  AInv'
<1>1. /\ UNCHANGED <<scenario, events, acked, queue, recorded>>
      /\ loop = "enrich" /\ loop' \in {"enrich", "record"}
      /\ work'.event = work.event
  BY DEF Enrich
<1>2. InHand'
  BY <1>1 DEF AInv, InHand
<1>3. QED
  BY <1>1, <1>2, SameQueue

\* An error of the store, of the socket or of the context ends the loop.
LEMMA FailureKeeps ==
  ASSUME AInv, CallFails, UNCHANGED <<scenario, events, acked, queue, recorded>>
  PROVE  AInv'
<1>1. InHand'
  BY DEF CallFails, LoopFails, InHand
<1>2. QED
  BY <1>1, SameQueue

\* Recording the event that is in hand.
LEMMA RecordKeeps ==
  ASSUME AInv, Record
  PROVE  AInv'
<1>1. CASE RecordFails /\ UNCHANGED recorded
  BY <1>1, FailureKeeps DEF Record, RecordFails
<1>2. CASE /\ recorded' = Append(recorded, [event |-> work.event, data |-> work.data])
           /\ loop' = "ack" /\ UNCHANGED work
  <2> DEFINE r == [event |-> work.event, data |-> work.data]
  <2>1. /\ loop = "record" /\ UNCHANGED <<scenario, events, acked, queue>>
        /\ work.event \in DOMAIN events
    BY DEF Record, AInv, InHand
  <2>2. recorded' = Append(recorded, r) /\ r.event = work.event
    BY <1>2
  <2> HIDE DEF r
  <2>3. /\ (\E S : recorded \in Seq(S))'
        /\ \A i \in DOMAIN recorded : i \in DOMAIN recorded' /\ recorded'[i] = recorded[i]
        /\ \E i \in DOMAIN recorded' : recorded'[i].event = work.event
    <3>1. \E S : recorded \in Seq(S)
      BY DEF AInv, Lists
    <3>2. /\ \E S : Append(recorded, r) \in Seq(S)
          /\ \A i \in DOMAIN recorded :
               i \in DOMAIN Append(recorded, r) /\ Append(recorded, r)[i] = recorded[i]
          /\ \E i \in DOMAIN Append(recorded, r) : Append(recorded, r)[i] = r
      BY <3>1, GrowsByOne
    <3>3. QED
      BY <2>2, <3>2
  <2>4. \A n : Kept(n) => Kept(n)'
    BY <2>1, <2>3, KeptStays
  <2>5. InHand'
    BY <1>2, <2>1, <2>3 DEF InHand, Kept
  <2>6. QED
    BY <2>1, <2>3, <2>4, <2>5 DEF AInv, Lists, SentEvents
<1>3. QED
  BY <1>1, <1>2 DEF Record

\* The acknowledgement.
LEMMA AckKeeps ==
  ASSUME AInv, Ack
  PROVE  AInv'
<1>1. loop = "ack" /\ UNCHANGED <<scenario, events, queue, recorded>> /\ Kept(work.event)
  BY DEF Ack, AInv, InHand
<1>2. CASE CallFails /\ UNCHANGED acked
  BY <1>1, <1>2, FailureKeeps
<1>3. CASE acked' \subseteq acked \union {work.event} /\ loop' = "select"
  <2>1. \A n : Kept(n) => Kept(n)'
    BY <1>1, KeptStays
  <2>2. InHand'
    BY <1>3 DEF InHand
  <2>3. QED
    BY <1>1, <1>3, <2>1, <2>2 DEF AInv, Lists, SentEvents
<1>4. QED
  BY <1>2, <1>3 DEF Ack

\* The agent's replies come back as new events, behind the others.
LEMMA AgentKeeps ==
  ASSUME AInv, AgentHears
  PROVE  AInv'
<1>1. UNCHANGED <<scenario, acked, loop, work, queue, recorded>>
  BY DEF AgentHears, process
<1>2. /\ (\E S : events \in Seq(S))'
      /\ \A i \in DOMAIN events : i \in DOMAIN events' /\ events'[i] = events[i]
  <2>1. CASE UNCHANGED events
    BY <2>1 DEF AInv, Lists
  <2>2. CASE events' = events \o Post(OriginURI(recorded[heard + 1].data))
    <3> DEFINE uri == OriginURI(recorded[heard + 1].data)
    <3>1. \E S : Post(uri) \in Seq(S)
      <4>1. \E a, b : Post(uri) = <<a, b>> \/ Post(uri) = <<a>>
        BY DEF Post
      <4>2. PICK a, b : Post(uri) = <<a, b>> \/ Post(uri) = <<a>>
        BY <4>1
      <4>3. <<a, b>> \in Seq({a, b}) /\ <<a>> \in Seq({a, b})
        OBVIOUS
      <4>4. QED
        BY <4>2, <4>3
    <3>2. QED
      BY <2>2, <3>1, Grows DEF AInv, Lists
  <2>3. QED
    BY <2>1, <2>2 DEF AgentHears
<1>3. \A n : Kept(n) => Kept(n)'
  BY <1>1, <1>2, KeptStays
<1>4. QED
  BY <1>1, <1>2, <1>3 DEF AInv, Lists, SentEvents, InHand

-----------------------------------------------------------------------------
(* The theorem.                                                               *)

\* At first nothing is acknowledged.
LEMMA Initially == InputsAreLists /\ SlackInit => AInv
<1> SUFFICES ASSUME InputsAreLists, SlackInit PROVE AInv
  OBVIOUS
<1>1. /\ scenario \in Scenarios /\ events = scenario.events
      /\ acked = {} /\ queue = <<>> /\ recorded = <<>> /\ loop = "select"
  BY DEF SlackInit
<1>2. <<>> \in Seq({})
  OBVIOUS
<1>3. Lists
  BY <1>1, <1>2 DEF InputsAreLists, Lists
<1>4. QED
  BY <1>1, <1>3 DEF AInv, SentEvents, InHand

\* Every step keeps the invariant.
LEMMA Inductive == AInv /\ [SlackNext]_slackVars => AInv'
<1> SUFFICES ASSUME AInv, [SlackNext]_slackVars PROVE AInv'
  OBVIOUS
<1>1. CASE \E n \in DOMAIN events : SlackSends(n)
  <2>1. PICK n \in DOMAIN events : SlackSends(n)
    BY <1>1
  <2>2. /\ queue' = Append(queue, [notice |-> "", event |-> n])
        /\ UNCHANGED <<scenario, events, acked, loop, work, recorded>>
    BY <2>1 DEF SlackSends
  <2>3. QED
    BY <2>2, Arrivals
<1>2. CASE SocketReports
  <2>1. PICK x \in Notices : queue' = Append(queue, [notice |-> x, event |-> 0])
    BY <1>2 DEF SocketReports
  <2>2. UNCHANGED <<scenario, events, acked, loop, work, recorded>> /\ x # ""
    BY <1>2 DEF SocketReports, Notices
  <2>3. QED
    BY <2>1, <2>2, Arrivals
<1>3. CASE Take
  BY <1>3, TakeKeeps
<1>4. CASE LoopStops
  BY <1>4, SameQueue DEF LoopStops, LoopFails, InHand
<1>5. CASE Record
  BY <1>5, RecordKeeps
<1>6. CASE Ack
  BY <1>6, AckKeeps
<1>7. CASE \E call \in MainCalls : Enrich(call)
  BY <1>7, EnrichKeeps
<1>8. CASE ClientEnds \/ Stop \/ RunReturns \/ ProcessEnds
  <2>1. UNCHANGED <<scenario, events, acked, recorded, queue, loop, work>>
    BY <1>8 DEF ClientEnds, Stop, RunReturns, ProcessEnds
  <2>2. QED
    BY <2>1, HandsUnchanged, SameQueue
<1>9. CASE Start
  <2>1. /\ UNCHANGED <<scenario, events, acked, recorded>>
        /\ queue' = <<>> /\ loop' = "select"
    BY <1>9 DEF Start
  <2>2. queue' \in Seq({}) /\ SentEvents' /\ InHand'
    BY <2>1 DEF SentEvents, InHand
  <2>3. QED
    BY <2>1, <2>2, LoopKeeps
<1>10. CASE AgentHears
  BY <1>10, AgentKeeps
<1>11. CASE UNCHANGED slackVars
  BY <1>11, HandsUnchanged, SameQueue DEF slackVars, process
<1>12. QED
  BY <1>1, <1>2, <1>3, <1>4, <1>5, <1>6, <1>7, <1>8, <1>9, <1>10, <1>11 DEF SlackNext

\* Whatever fails, ends, restarts or is sent again: an acknowledged event is on the
\* bus or was dropped on purpose (handlers.go handleMessage, ackSocketEvent).
THEOREM NothingAckedIsLost == InputsAreLists => (SlackSpec => []AckedIsKept)
<1> SUFFICES ASSUME InputsAreLists PROVE SlackSpec => []AckedIsKept
  OBVIOUS
<1>1. SlackInit => AInv
  BY Initially
<1>2. AInv /\ [SlackNext]_slackVars => AInv'
  BY Inductive
<1>3. AInv => AckedIsKept
  BY DEF AInv, Kept, AckedIsKept
<1>4. QED
  BY <1>1, <1>2, <1>3, PTL DEF SlackSpec

-----------------------------------------------------------------------------
(* What is on the bus: where it belongs, and what became of its files.        *)

\* Slack gives a message the time of its event, and no two of its files one id.
WellMade(e) ==
  /\ e.kind \in {"message_changed", "other"} \/ e.ts = e.message.ts
  /\ \A i, j \in DOMAIN e.message.files :
       e.message.files[i].id = e.message.files[j].id /\ e.message.files[i].id # "" => i = j

InputsAreWellMade ==
  InputsAreLists /\ \A s \in Scenarios : \A n \in DOMAIN s.events : WellMade(s.events[n])

\* The thread of a message: its root, or the message itself.
Root(message) == ThreadTS(message.thread, message.ts)

\* Data d of event e belongs to the channel and the thread of its message.
Filed(e, d) ==
  /\ {"channel", "thread", "files", "images"} \subseteq DOMAIN d
  /\ d.channel = e.channel /\ d.thread = Root(e.message)

NotSkipped(fs) == {i \in DOMAIN fs : ~Skipped(fs[i])}
Images(fs) == {i \in NotSkipped(fs) : fs[i].kind = "image"}

\* Each file that is not skipped has become an image, with bytes or a reason, or a
\* file, with content or a reason.
Fetched(e, d) ==
  LET fs == e.message.files IN
  /\ DOMAIN d.images = Images(fs) /\ DOMAIN d.files = NotSkipped(fs) \ Images(fs)
  /\ \A i \in DOMAIN d.images :
       d.images[i].id = fs[i].id /\ (d.images[i].bytes = "some" => d.images[i].status = "")
  /\ \A i \in DOMAIN d.files :
       /\ d.files[i].id = fs[i].id /\ d.files[i].content \in BOOLEAN
       /\ d.files[i].content = TRUE <=> d.files[i].status = ""

\* The event that is in hand is filed, and its files are fetched or yet to be.
InHandFiled ==
  loop \in {"enrich", "record"} =>
    /\ Filed(events[work.event], work.data)
    /\ \/ Fetched(events[work.event], work.data)
       \/ loop = "enrich" /\ "files" \in work.calls /\ work.forward = 0

RecordedFiled ==
  \A i \in DOMAIN recorded :
    /\ recorded[i].event \in DOMAIN events
    /\ Filed(events[recorded[i].event], recorded[i].data)
    /\ Fetched(events[recorded[i].event], recorded[i].data)

EventsWellMade == \A n \in DOMAIN events : WellMade(events[n])

BInv == EventsWellMade /\ InHandFiled /\ RecordedFiled

\* What EnrichFiles makes of the files.
LEMMA FilesAreFetched ==
  ASSUME NEW e, NEW c, Filed(e, c), NEW d \in EnrichFiles(c, e.message)
  PROVE  Filed(e, d) /\ Fetched(e, d)
<1> DEFINE fs == e.message.files
<1>1. PICK s \in EachFetched(fs) :
        d = [c EXCEPT !.files = Restrict(s, NotSkipped(fs) \ Images(fs)),
                      !.images = Restrict(s, Images(fs))]
  BY DEF EnrichFiles, Images, NotSkipped
<1> DEFINE x == Restrict(s, NotSkipped(fs) \ Images(fs))
           y == Restrict(s, Images(fs))
<1>2. /\ DOMAIN x = NotSkipped(fs) \ Images(fs)
      /\ \A i \in DOMAIN x : x[i] \in EnrichFile(fs[i]) \union UnsupportedFile(fs[i])
  BY <1>1 DEF EachFetched, Outcomes, Images, NotSkipped, Restrict
<1>3. DOMAIN y = Images(fs) /\ \A i \in DOMAIN y : y[i] \in EnrichImage(fs[i])
  BY <1>1 DEF EachFetched, Outcomes, Images, NotSkipped, Restrict
<1> HIDE DEF x, y
<1> HIDE DEF fs
<1>4. /\ DOMAIN d = DOMAIN c /\ d.channel = c.channel /\ d.thread = c.thread
      /\ d.files = x /\ d.images = y
  BY <1>1 DEF Filed, x, y, fs
<1>5. \A i \in DOMAIN x :
        /\ x[i].id = fs[i].id /\ x[i].content \in BOOLEAN
        /\ x[i].content = TRUE <=> x[i].status = ""
  <2> TAKE i \in DOMAIN x
  <2>1. \/ x[i] \in [id : {fs[i].id}, status : {""}, content : {TRUE}]
        \/ x[i] \in [id : {fs[i].id}, status : {"unavailable", "unsupported"},
                     content : {FALSE}]
        \/ x[i] = [id |-> fs[i].id, status |-> "unsupported", content |-> FALSE]
    BY <1>2 DEF EnrichFile, UnsupportedFile
  <2>2. CASE x[i] \in [id : {fs[i].id}, status : {""}, content : {TRUE}]
    <3>1. x[i].id = fs[i].id /\ x[i].status = "" /\ x[i].content = TRUE
      BY <2>2
    <3> QED
      BY <3>1
  <2>3. CASE x[i] \in [id : {fs[i].id}, status : {"unavailable", "unsupported"},
                       content : {FALSE}]
    <3>1. x[i].id = fs[i].id /\ x[i].status # "" /\ x[i].content = FALSE
      BY <2>3
    <3> QED
      BY <3>1
  <2>4. CASE x[i] = [id |-> fs[i].id, status |-> "unsupported", content |-> FALSE]
    <3>1. x[i].id = fs[i].id /\ x[i].status # "" /\ x[i].content = FALSE
      BY <2>4
    <3> QED
      BY <3>1
  <2> QED
    BY <2>1, <2>2, <2>3, <2>4
<1>6. \A i \in DOMAIN y : y[i].id = fs[i].id /\ (y[i].bytes = "some" => y[i].status = "")
  BY <1>3 DEF EnrichImage
<1> QED
  BY <1>2, <1>3, <1>4, <1>5, <1>6 DEF Filed, Fetched, fs

\* The other calls leave alone where the message belongs and what became of files.
LEMMA OtherCalls ==
  ASSUME NEW e, NEW c, NEW d, NEW i, NEW f, Filed(e, c),
         d \in EnrichReactions(c) \union EnrichName(c) \/ d = [c EXCEPT !.forwards[i] = f]
  PROVE  Filed(e, d) /\ (Fetched(e, c) => Fetched(e, d))
<1>1. /\ DOMAIN d = DOMAIN c /\ d.channel = c.channel /\ d.thread = c.thread
      /\ d.files = c.files /\ d.images = c.images
  <2>1. CASE d = c
    BY <2>1
  <2>2. CASE \E r : d = [c EXCEPT !.reactions = r]
    BY <2>2 DEF Filed
  <2>3. CASE d = [c EXCEPT !.forwards[i] = f]
    BY <2>3 DEF Filed
  <2> QED
    BY <2>1, <2>2, <2>3 DEF EnrichReactions, EnrichName
<1> QED
  BY <1>1, ZenonT(40) DEF Filed, Fetched

\* What parsing makes of an event that is not dropped.
LEMMA ParsedIsFiled ==
  ASSUME NEW e, WellMade(e), ~Dropped(e)
  PROVE  Filed(e, Parsed(e, e.kind = "message_changed"))
<1>1. e.kind = "message_changed" \/ e.ts = e.message.ts
  BY DEF WellMade, Dropped
<1> QED
  BY <1>1 DEF Filed, Parsed, Root

-----------------------------------------------------------------------------
(* The steps.                                                                 *)

\* Steps that leave the events, the loop and the bus alone, or stop the loop.
LEMMA FiledStays ==
  ASSUME BInv, UNCHANGED <<events, recorded>>, InHandFiled'
  PROVE  BInv'
<1>1. EventsWellMade' /\ RecordedFiled'
  BY DEF BInv, EventsWellMade, RecordedFiled
<1> QED
  BY <1>1 DEF BInv

\* The parsed event is filed before its files are fetched.
LEMMA TakeFiles ==
  ASSUME AInv, BInv, Take
  PROVE  BInv'
<1> PICK n : n = Head(queue).event
  OBVIOUS
<1>1. queue # <<>> /\ UNCHANGED <<events, recorded>>
  BY DEF Take
<1>2. Head(queue).notice = "" => n \in DOMAIN events
  <2>1. 1 \in DOMAIN queue /\ Head(queue) = queue[1]
    BY <1>1, Shrinks DEF AInv, Lists
  <2> QED
    BY <2>1 DEF AInv, SentEvents
<1>3. \/ loop' = loop /\ loop = "select"
      \/ loop' \in {"ack", "ended"}
      \/ /\ Head(queue).notice = "" /\ ~Dropped(events[n]) /\ loop' = "enrich"
         /\ work' = [event |-> n, calls |-> MainCalls, forward |-> 0,
                     data |-> Parsed(events[n], events[n].kind = "message_changed")]
  BY DEF Take, LoopFails
<1>4. InHandFiled'
  <2>1. CASE (loop' = loop /\ loop = "select") \/ loop' \in {"ack", "ended"}
    BY <2>1 DEF InHandFiled
  <2>2. CASE /\ Head(queue).notice = "" /\ ~Dropped(events[n]) /\ loop' = "enrich"
             /\ work' = [event |-> n, calls |-> MainCalls, forward |-> 0,
                         data |-> Parsed(events[n], events[n].kind = "message_changed")]
    <3>1. WellMade(events[n])
      BY <1>2, <2>2 DEF BInv, EventsWellMade
    <3>2. Filed(events[n], Parsed(events[n], events[n].kind = "message_changed"))
      BY <2>2, <3>1, ParsedIsFiled
    <3>3. /\ work'.event = n /\ work'.forward = 0 /\ "files" \in work'.calls
          /\ work'.data = Parsed(events[n], events[n].kind = "message_changed")
      BY <2>2 DEF MainCalls
    <3>4. Filed(events'[work'.event], work'.data)
      BY <1>1, <3>2, <3>3
    <3> QED
      BY <2>2, <3>3, <3>4 DEF InHandFiled
  <2> QED
    BY <1>3, <2>1, <2>2
<1> QED
  BY <1>1, <1>4, FiledStays

\* The call for files fetches them, the others leave them alone.
LEMMA EnrichFiled ==
  ASSUME AInv, BInv, NEW call, Enrich(call)
  PROVE  BInv'
<1> PICK e, c : e = events[work.event] /\ c = work.data
  OBVIOUS
<1>1. /\ UNCHANGED <<events, recorded>> /\ loop = "enrich" /\ call \in work.calls
      /\ Filed(e, c) /\ (Fetched(e, c) \/ ("files" \in work.calls /\ work.forward = 0))
  BY DEF Enrich, BInv, InHandFiled
<1>2. /\ work'.event = work.event
      /\ work'.data \in (IF work.forward = 0 THEN EnrichCall(c, call, e.message)
           ELSE {[c EXCEPT !.forwards[work.forward] = f] :
                   f \in EnrichCall(c.forwards[work.forward], call, e.message)})
      /\ \/ work'.forward = work.forward /\ work'.calls = work.calls \ {call}
         \/ work.calls \ {call} = {}
      /\ loop' = "record" => work.calls \ {call} = {}
  BY DEF Enrich
<1>3. Filed(e, work'.data) /\ (Fetched(e, work'.data) \/ (~Fetched(e, c) /\ call # "files"))
  <2>1. CASE work.forward # 0
    <3>1. Fetched(e, c) /\ \E f : work'.data = [c EXCEPT !.forwards[work.forward] = f]
      BY <1>1, <1>2, <2>1
    <3> QED
      BY <1>1, <3>1, OtherCalls
  <2>2. CASE work.forward = 0 /\ call = "files"
    <3>1. work'.data \in EnrichFiles(c, e.message)
      BY <1>2, <2>2 DEF EnrichCall
    <3> QED
      BY <1>1, <3>1, FilesAreFetched
  <2>3. CASE work.forward = 0 /\ call # "files"
    <3>1. work'.data \in EnrichReactions(c) \union EnrichName(c)
      BY <1>2, <2>3 DEF EnrichCall
    <3>2. Filed(e, work'.data) /\ (Fetched(e, c) => Fetched(e, work'.data))
      BY <1>1, <3>1, OtherCalls
    <3> QED
      BY <2>3, <3>2
  <2> QED
    BY <2>1, <2>2, <2>3
<1>4. \/ Fetched(e, work'.data)
      \/ loop' # "record" /\ "files" \in work'.calls /\ work'.forward = 0
  BY <1>1, <1>2, <1>3
<1>5. e = events'[work'.event] /\ loop' \in {"enrich", "record"}
  BY <1>1, <1>2 DEF Enrich
<1>6. InHandFiled'
  BY <1>3, <1>4, <1>5 DEF InHandFiled
<1> QED
  BY <1>1, <1>6, FiledStays

\* What is recorded has no call left.
LEMMA RecordFiled ==
  ASSUME AInv, BInv, Record
  PROVE  BInv'
<1>1. CASE RecordFails /\ UNCHANGED recorded
  <2>1. UNCHANGED <<events, recorded>> /\ loop' = "ended"
    BY <1>1 DEF Record, RecordFails, CallFails, LoopFails
  <2>2. InHandFiled'
    BY <2>1 DEF InHandFiled
  <2> QED
    BY <2>1, <2>2, FiledStays
<1>2. CASE /\ recorded' = Append(recorded, [event |-> work.event, data |-> work.data])
           /\ loop' = "ack"
  <2> DEFINE r == [event |-> work.event, data |-> work.data]
  <2>1. loop = "record" /\ events' = events
    BY DEF Record
  <2>2. /\ r.event \in DOMAIN events
        /\ Filed(events[r.event], r.data) /\ Fetched(events[r.event], r.data)
    BY <2>1 DEF AInv, InHand, BInv, InHandFiled
  <2>3. recorded' = Append(recorded, r)
    BY <1>2
  <2> HIDE DEF r
  <2>4. \A i \in DOMAIN recorded' :
          (i \in DOMAIN recorded /\ recorded'[i] = recorded[i]) \/ recorded'[i] = r
    <3>1. \E S : recorded \in Seq(S)
      BY DEF AInv, Lists
    <3>2. \A i \in DOMAIN Append(recorded, r) :
            \/ i \in DOMAIN recorded /\ Append(recorded, r)[i] = recorded[i]
            \/ Append(recorded, r)[i] = r
      BY <3>1, GrowsByOne
    <3> QED
      BY <2>3, <3>2
  <2>5. RecordedFiled'
    BY <2>1, <2>2, <2>4 DEF BInv, RecordedFiled
  <2>6. EventsWellMade' /\ InHandFiled'
    BY <1>2, <2>1 DEF BInv, EventsWellMade, InHandFiled
  <2> QED
    BY <2>5, <2>6 DEF BInv
<1> QED
  BY <1>1, <1>2 DEF Record

\* What comes back of a reply is well made: it has no files, and its change carries
\* the message.
LEMMA PostsWellMade ==
  ASSUME NEW uri
  PROVE  /\ \E S : Post(uri) \in Seq(S)
         /\ \A i \in DOMAIN Post(uri) : WellMade(Post(uri)[i])
<1> DEFINE ts == Len(events) + 1
           message == [user |-> Bot, ts |-> ts, thread |-> uri[2], files |-> <<>>,
                       attachments |-> <<>>]
           posted == [envelope |-> "callback", kind |-> "message", user |-> Bot,
                      channel |-> uri[1], ts |-> ts, message |-> message]
           changed == [posted EXCEPT !.kind = "message_changed", !.user = NoUser,
                                     !.ts = ts + 1]
<1>0. \A i \in DOMAIN <<>> : FALSE
  OBVIOUS
<1>1. WellMade(posted)
  <2>1. posted.message.files = <<>> /\ posted.ts = posted.message.ts
    OBVIOUS
  <2> QED
    BY <1>0, <2>1 DEF WellMade
<1>2. WellMade(changed)
  <2>1. changed.message.files = <<>> /\ changed.kind = "message_changed"
    OBVIOUS
  <2> QED
    BY <1>0, <2>1 DEF WellMade
<1>3. Post(uri) = <<posted, changed>> \/ Post(uri) = <<posted>>
  BY DEF Post
<1> HIDE DEF posted, changed
<1>4. /\ <<posted, changed>> \in Seq({posted, changed}) /\ <<posted>> \in Seq({posted})
      /\ \A i \in DOMAIN <<posted, changed>> : <<posted, changed>>[i] \in {posted, changed}
      /\ \A i \in DOMAIN <<posted>> : <<posted>>[i] = posted
  OBVIOUS
<1> QED
  BY <1>1, <1>2, <1>3, <1>4

\* The replies that the agent posts are well made.
LEMMA AgentFiled ==
  ASSUME AInv, BInv, AgentHears
  PROVE  BInv'
<1>1. UNCHANGED <<loop, work, recorded>>
  BY DEF AgentHears, process
<1>2. /\ \A n \in DOMAIN events : n \in DOMAIN events' /\ events'[n] = events[n]
      /\ EventsWellMade'
  <2>1. CASE UNCHANGED events
    BY <2>1 DEF BInv, EventsWellMade
  <2>2. CASE events' = events \o Post(OriginURI(recorded[heard + 1].data))
    <3> DEFINE p == Post(OriginURI(recorded[heard + 1].data))
    <3>1. (\E S : p \in Seq(S)) /\ \A i \in DOMAIN p : WellMade(p[i])
      BY PostsWellMade
    <3>2. events' = events \o p /\ \E S : events \in Seq(S)
      BY <2>2 DEF AInv, Lists
    <3> HIDE DEF p
    <3>3. /\ \A i \in DOMAIN events : i \in DOMAIN events' /\ events'[i] = events[i]
          /\ \A i \in DOMAIN events' :
               \/ i \in DOMAIN events /\ events'[i] = events[i]
               \/ \E j \in DOMAIN p : events'[i] = p[j]
      BY <3>1, <3>2, Grows, SMTT(30)
    <3> QED
      BY <3>1, <3>3 DEF BInv, EventsWellMade
  <2> QED
    BY <2>1, <2>2 DEF AgentHears
<1>3. RecordedFiled'
  BY <1>1, <1>2 DEF BInv, RecordedFiled
<1>4. InHandFiled'
  <2>1. loop \in {"enrich", "record"} => events'[work.event] = events[work.event]
    BY <1>2 DEF AInv, InHand
  <2> QED
    BY <1>1, <2>1 DEF BInv, InHandFiled
<1> QED
  BY <1>2, <1>3, <1>4 DEF BInv

\* At first nothing is in hand.
LEMMA InitiallyFiled == InputsAreWellMade /\ SlackInit => BInv
BY DEF InputsAreWellMade, SlackInit, BInv, EventsWellMade, InHandFiled, RecordedFiled

\* Every step keeps what is filed.
LEMMA InductivelyFiled == AInv /\ BInv /\ [SlackNext]_slackVars => BInv'
<1> SUFFICES ASSUME AInv, BInv, [SlackNext]_slackVars PROVE BInv'
  OBVIOUS
<1>1. CASE Take
  BY <1>1, TakeFiles
<1>2. CASE \E call \in MainCalls : Enrich(call)
  BY <1>2, EnrichFiled
<1>3. CASE Record
  BY <1>3, RecordFiled
<1>4. CASE AgentHears
  BY <1>4, AgentFiled
<1>5. CASE Ack \/ LoopStops \/ Start
  <2>1. UNCHANGED <<events, recorded>> /\ loop' \in {"select", "ended"}
    BY <1>5 DEF Ack, CallFails, LoopFails, LoopStops, Start
  <2>2. InHandFiled'
    BY <2>1 DEF InHandFiled
  <2> QED
    BY <2>1, <2>2, FiledStays
<1>6. CASE \/ \E n \in DOMAIN events : SlackSends(n)
           \/ SocketReports \/ ClientEnds \/ Stop \/ RunReturns \/ ProcessEnds
           \/ UNCHANGED slackVars
  <2>1. UNCHANGED <<events, recorded, loop, work>>
    BY <1>6 DEF SlackSends, SocketReports, ClientEnds, Stop, RunReturns, ProcessEnds,
                slackVars, process
  <2>2. InHandFiled'
    BY <2>1 DEF BInv, InHandFiled
  <2> QED
    BY <2>1, <2>2, FiledStays
<1> QED
  BY <1>1, <1>2, <1>3, <1>4, <1>5, <1>6 DEF SlackNext

\* Both invariants hold.
LEMMA FiledAlways == InputsAreWellMade => (SlackSpec => [](AInv /\ BInv))
<1> SUFFICES ASSUME InputsAreWellMade PROVE SlackSpec => [](AInv /\ BInv)
  OBVIOUS
<1>1. SlackInit => AInv /\ BInv
  BY Initially, InitiallyFiled DEF InputsAreWellMade
<1>2. AInv /\ BInv /\ [SlackNext]_slackVars => (AInv /\ BInv)'
  BY Inductive, InductivelyFiled
<1> QED
  BY <1>1, <1>2, PTL DEF SlackSpec

\* A message, its changes, the messages in its thread and the bot's own answers
\* all belong to one session, whenever and however often they come (message.go
\* ParseReceivedEvent and ParseChangedEvent, reply.go NewOriginURI).
THEOREM OneSessionPerThread == InputsAreWellMade => (SlackSpec => []ThreadIsOneSession)
<1> SUFFICES ASSUME InputsAreWellMade PROVE SlackSpec => []ThreadIsOneSession
  OBVIOUS
<1>1. BInv => ThreadIsOneSession
  <2> SUFFICES ASSUME BInv PROVE ThreadIsOneSession
    OBVIOUS
  <2>1. \A x \in ToSet(recorded) : x.data.thread = Root(events[x.event].message)
    BY DEF BInv, RecordedFiled, Filed, ToSet
  <2> QED
    BY <2>1 DEF ThreadIsOneSession, Root, OriginURI
<1> QED
  BY <1>1, FiledAlways, PTL

TimesSent(parts, f) == Cardinality({i \in DOMAIN parts : parts[i] = f.id})

\* An image that has bytes is sent once, another not at all.
LEMMA ImagesSentOnce ==
  ASSUME NEW e, NEW d, WellMade(e), Fetched(e, d), NEW f \in Range(d.images)
  PROVE  TimesSent(ImageParts(d), f)
           = (IF f.status = "" /\ f.bytes = "some" THEN 1 ELSE 0)
<1> DEFINE fs == e.message.files
           sent == {i \in DOMAIN ImageParts(d) : ImageParts(d)[i] = f.id}
<1>1. PICK k \in DOMAIN d.images : f = d.images[k]
  BY DEF Range
<1>2. \A i \in DOMAIN d.images : d.images[i].id = f.id => i = k
  <2>1. \A i \in DOMAIN d.images :
          i \in DOMAIN fs /\ d.images[i].id = fs[i].id /\ fs[i].id # ""
    BY DEF Fetched, Images, NotSkipped, Skipped
  <2> QED
    BY <1>1, <2>1 DEF WellMade
<1>3. sent = {i \in WithBytes(d) : d.images[i].id = f.id}
  BY DEF ImageParts
<1>4. sent = IF f.bytes = "some" THEN {k} ELSE {}
  BY <1>1, <1>2, <1>3 DEF WithBytes
<1>5. f.bytes = "some" => f.status = ""
  BY <1>1 DEF Fetched
<1> QED
  BY <1>4, <1>5, FS_EmptySet, FS_Singleton DEF TimesSent

\* The model is told of every file of a message that has an id, with its content or
\* a status, and gets each image that has bytes once (enrichment_attachments.go,
\* listeners.go).
THEOREM EveryFileIsTold == InputsAreWellMade => (SlackSpec => []NothingSilentlyMissing)
<1> SUFFICES ASSUME InputsAreWellMade PROVE SlackSpec => []NothingSilentlyMissing
  OBVIOUS
<1>1. BInv => NothingSilentlyMissing
  <2> SUFFICES ASSUME BInv PROVE NothingSilentlyMissing
    OBVIOUS
  <2> SUFFICES
        ASSUME NEW x \in ToSet(recorded)
        PROVE  LET told == UserMessage(x.data)
                   sent == ToSet(events[x.event].message.files)
               IN  /\ {f.id : f \in sent} \ {""}
                        = ({f.id : f \in told.files} \union {f.id : f \in told.images}) \ {""}
                   /\ \A f \in told.files : f.content <=> f.status = ""
                   /\ \A f \in Range(x.data.images) :
                        TimesSent(told.parts, f) = (IF f.status = "" /\ f.bytes = "some" THEN 1 ELSE 0)
    BY DEF NothingSilentlyMissing, TimesSent
  <2> PICK e, d : e = events[x.event] /\ d = x.data
    OBVIOUS
  <2> DEFINE fs == e.message.files
  <2>1. WellMade(e) /\ Fetched(e, d)
    BY DEF BInv, RecordedFiled, EventsWellMade, ToSet
  <2>2. /\ UserMessage(d).files = FilesXML(d) /\ UserMessage(d).images = ImagesXML(d)
        /\ UserMessage(d).parts = ImageParts(d)
    BY DEF UserMessage
  <2>3. \A f \in FilesXML(d) : \E i \in DOMAIN d.files :
          f.id = d.files[i].id /\ f.content = d.files[i].content /\ f.status = d.files[i].status
    BY DEF FilesXML, Range
  <2>4. \A i \in DOMAIN d.files : \E f \in FilesXML(d) : f.id = d.files[i].id
    <3> TAKE i \in DOMAIN d.files
    <3> DEFINE f == d.files[i]
               r == [id |-> f.id, status |-> f.status, content |-> f.content]
    <3>1. r.id = f.id /\ f \in Range(d.files)
      BY DEF Range
    <3>2. r \in FilesXML(d)
      BY <3>1 DEF FilesXML
    <3> QED
      BY <3>1, <3>2
  <2>5. \A f \in ImagesXML(d) : \E i \in DOMAIN d.images : f.id = d.images[i].id
    BY DEF ImagesXML, Range
  <2>6. \A i \in DOMAIN d.images : \E f \in ImagesXML(d) : f.id = d.images[i].id
    <3> TAKE i \in DOMAIN d.images
    <3> DEFINE f == d.images[i]
               r == [id |-> f.id, status |-> f.status]
    <3>1. r.id = f.id /\ f \in Range(d.images)
      BY DEF Range
    <3>2. r \in ImagesXML(d)
      BY <3>1 DEF ImagesXML
    <3> QED
      BY <3>1, <3>2
  <2>7. /\ \A i \in DOMAIN fs :
             fs[i].id # "" => i \in DOMAIN d.files \/ i \in DOMAIN d.images
        /\ \A i \in DOMAIN d.files : i \in DOMAIN fs /\ d.files[i].id = fs[i].id
        /\ \A i \in DOMAIN d.images : i \in DOMAIN fs /\ d.images[i].id = fs[i].id
    BY <2>1 DEF Fetched, Images, NotSkipped, Skipped
  <2>8. {f.id : f \in ToSet(fs)} \ {""}
          = ({f.id : f \in FilesXML(d)} \union {f.id : f \in ImagesXML(d)}) \ {""}
    <3> HIDE DEF fs
    <3>1. ASSUME NEW f \in ToSet(fs), f.id # ""
          PROVE  f.id \in {g.id : g \in FilesXML(d)} \union {g.id : g \in ImagesXML(d)}
      <4>1. PICK i \in DOMAIN fs : f = fs[i]
        BY DEF ToSet
      <4>2. CASE i \in DOMAIN d.files
        BY <2>4, <2>7, <4>1, <4>2
      <4>3. CASE i \in DOMAIN d.images
        BY <2>6, <2>7, <4>1, <4>3
      <4> QED
        BY <2>7, <3>1, <4>1, <4>2, <4>3
    <3>2. ASSUME NEW f \in FilesXML(d)
          PROVE  f.id \in {g.id : g \in ToSet(fs)}
      <4>1. PICK i \in DOMAIN d.files : f.id = d.files[i].id
        BY <2>3
      <4>2. i \in DOMAIN fs /\ f.id = fs[i].id
        BY <2>7, <4>1
      <4>3. fs[i] \in ToSet(fs)
        BY <4>2 DEF ToSet
      <4> QED
        BY <4>2, <4>3
    <3>3. ASSUME NEW f \in ImagesXML(d)
          PROVE  f.id \in {g.id : g \in ToSet(fs)}
      <4>1. PICK i \in DOMAIN d.images : f.id = d.images[i].id
        BY <2>5
      <4>2. i \in DOMAIN fs /\ f.id = fs[i].id
        BY <2>7, <4>1
      <4>3. fs[i] \in ToSet(fs)
        BY <4>2 DEF ToSet
      <4> QED
        BY <4>2, <4>3
    <3> QED
      BY <3>1, <3>2, <3>3
  <2>9. \A f \in FilesXML(d) : f.content <=> f.status = ""
    <3>1. \A f \in FilesXML(d) : f.content \in BOOLEAN /\ (f.content = TRUE <=> f.status = "")
      <4>1. \A i \in DOMAIN d.files :
              /\ d.files[i].content \in BOOLEAN
              /\ d.files[i].content = TRUE <=> d.files[i].status = ""
        BY <2>1 DEF Fetched
      <4> TAKE f \in FilesXML(d)
      <4>2. PICK i \in DOMAIN d.files :
              f.content = d.files[i].content /\ f.status = d.files[i].status
        BY <2>3
      <4> QED
        BY <4>1, <4>2
    <3> QED
      BY <3>1, Zenon
  <2>10. ASSUME NEW f \in Range(d.images)
         PROVE  TimesSent(ImageParts(d), f)
                  = (IF f.status = "" /\ f.bytes = "some" THEN 1 ELSE 0)
    BY <2>1, ImagesSentOnce
  <2> QED
    BY <2>2, <2>8, <2>9, <2>10
<1> QED
  BY <1>1, FiledAlways, PTL

=============================================================================
