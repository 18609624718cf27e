----------------------------- MODULE ToolProofs -----------------------------
(***************************************************************************)
(* Proofs about the tools: that a call reaches the tool it means, and that *)
(* the tools of GitHub do what they say.                                   *)
(*                                                                         *)
(* CallsReachTheirTool, for any names of any length.  What counts is that  *)
(* the reply tool is registered before a server's tools can take its name, *)
(* that names in the registry differ, and that names which would be shown  *)
(* alike are refused: how names are normalised makes no difference and     *)
(* stays opaque.                                                           *)
(*                                                                         *)
(* GithubSound, for any calls at once, any writes of others before them,   *)
(* and any loss of requests and replies: what each call has written, has   *)
(* fetched and has read follows from how far in its row of requests it is. *)
(***************************************************************************)
EXTENDS ToolCalls, GithubClient, FiniteSetTheorems, TLAPS

\* The names the program and a server give are lists.
InputsAreLists ==
  \E S : NativeNames \in Seq(S) /\ \A list \in ServerLists : list \in Seq(S)

\* A tool as its constructor left it.
WellMade(t) ==
  /\ t.kind = "reply" => t = Reply
  /\ t.server # <<>> => normalizeMCPToolName(Prefix, t.server) = t.name

\* What waits is a list of such tools, and the reply tool is first of all.
WaitingWellMade ==
  /\ \E S : waiting \in Seq(S)
  /\ \A i \in DOMAIN waiting : WellMade(waiting[i])

ReplyFirst ==
  /\ phase = "init" => Reply \in registry \/ (waiting # <<>> /\ waiting[1] = Reply)
  /\ phase = "serving" => Reply \in registry

RegistryWellMade ==
  /\ \A t \in registry : WellMade(t)
  /\ \A t, u \in registry : t.name = u.name => t = u

\* There are calls only when the registry changes no more.
CalledInService == phase = "serving" \/ (request = NoCall /\ effects = {} /\ answer = "none")

\* A tool that was meant and is there is the one that was found.
MeantIsFound == request # NoCall /\ request.wanted \in Names => request.name = request.wanted

CInv ==
  /\ WaitingWellMade /\ ReplyFirst /\ RegistryWellMade /\ CalledInService /\ MeantIsFound
  /\ CallsReachTheirTool

-----------------------------------------------------------------------------
(* Lemmas about lists and names.                                              *)

\* Two lists one after the other.
LEMMA Joined ==
  ASSUME NEW S, NEW s \in Seq(S), NEW t \in Seq(S)
  PROVE  /\ s \o t \in Seq(S)
         /\ \A i \in DOMAIN (s \o t) :
              (\E j \in DOMAIN s : (s \o t)[i] = s[j]) \/ (\E j \in DOMAIN t : (s \o t)[i] = t[j])
         /\ s # <<>> => s \o t # <<>> /\ (s \o t)[1] = s[1]
OBVIOUS

\* The first of a list, and the rest.
LEMMA Shorter ==
  ASSUME NEW S, NEW s \in Seq(S), s # <<>>
  PROVE  /\ Tail(s) \in Seq(S) /\ Head(s) = s[1] /\ 1 \in DOMAIN s
         /\ \A i \in DOMAIN Tail(s) : \E j \in DOMAIN s : Tail(s)[i] = s[j]
<1>1. \A i \in DOMAIN Tail(s) : i + 1 \in DOMAIN s /\ Tail(s)[i] = s[i + 1]
  OBVIOUS
<1>2. QED
  BY <1>1

\* mapTools and fromOpenAI together: the tool that was meant comes back, if no two
\* are shown alike.
LEMMA FoundAgain ==
  ASSUME NEW names, Distinct(names), NEW wanted \in names
  PROVE  FromOpenAI(names, openAIToolName(wanted)) = wanted
<1> DEFINE of == {n \in names : openAIToolName(n) = openAIToolName(wanted)}
<1>1. wanted \in of
  OBVIOUS
<1>2. (CHOOSE n \in of : TRUE) \in of
  BY <1>1
<1>3. (CHOOSE n \in of : TRUE) = wanted
  BY <1>2 DEF Distinct
<1>4. QED
  BY <1>1, <1>3 DEF FromOpenAI

-----------------------------------------------------------------------------
(* The steps.                                                                 *)

\* Putting together the tools of a service.
LEMMA BuildKeeps ==
  ASSUME InputsAreLists, CInv, Build
  PROVE  CInv'
<1>1. /\ phase = "build" /\ UNCHANGED <<registry, request, effects, answer>>
      /\ request = NoCall /\ effects = {} /\ answer = "none"
  BY DEF Build, CInv, CalledInService
<1>2. /\ phase' \in {"failed", "init"}
      /\ WaitingWellMade'
      /\ phase' = "init" => waiting' # <<>> /\ waiting'[1] = Reply
  <2>1. CASE phase' = "failed" /\ UNCHANGED <<waiting, session>>
    BY <2>1 DEF CInv, WaitingWellMade, WellMade, Reply
  <2>2. CASE \E list \in ServerLists :
               /\ waiting' = <<Reply>> \o [i \in DOMAIN NativeNames |-> Native(NativeNames[i])]
                               \o [i \in DOMAIN list |-> NewMCPTool(list[i])]
               /\ phase' = "init"
    <3>1. PICK list \in ServerLists :
               /\ waiting' = <<Reply>> \o [i \in DOMAIN NativeNames |-> Native(NativeNames[i])]
                               \o [i \in DOMAIN list |-> NewMCPTool(list[i])]
               /\ phase' = "init"
      BY <2>2
    <3>2. PICK S : NativeNames \in Seq(S) /\ list \in Seq(S)
      BY DEF InputsAreLists
    <3> DEFINE own == [i \in DOMAIN NativeNames |-> Native(NativeNames[i])]
               theirs == [i \in DOMAIN list |-> NewMCPTool(list[i])]
               T == {Reply} \union {Native(n) : n \in S} \union {NewMCPTool(n) : n \in S}
    <3>3. <<Reply>> \in Seq(T) /\ own \in Seq(T) /\ theirs \in Seq(T)
      <4>1. <<Reply>> \in Seq(T)
        OBVIOUS
      <4>2. own \in Seq(T)
        <5>1. \A i \in 1..Len(NativeNames) : Native(NativeNames[i]) \in T
          BY <3>2
        <5>2. DOMAIN NativeNames = 1..Len(NativeNames) /\ Len(NativeNames) \in Nat
          BY <3>2
        <5> HIDE DEF T
        <5>3. QED
          BY <5>1, <5>2
      <4>3. theirs \in Seq(T)
        <5>1. \A i \in 1..Len(list) : NewMCPTool(list[i]) \in T
          BY <3>2
        <5>2. DOMAIN list = 1..Len(list) /\ Len(list) \in Nat
          BY <3>2
        <5> HIDE DEF T
        <5>3. QED
          BY <5>1, <5>2
      <4>4. QED
        BY <4>1, <4>2, <4>3
    <3>4. \A t \in T : WellMade(t)
      BY DEF WellMade, Native, NewMCPTool, Reply
    <3> HIDE DEF T, own, theirs
    <3>5. <<Reply>> \o own \in Seq(T) /\ <<Reply>> \o own # <<>> /\ (<<Reply>> \o own)[1] = Reply
      BY <3>3, Joined
    <3>6. waiting' = (<<Reply>> \o own) \o theirs
      BY <3>1 DEF own, theirs
    <3>7. waiting' \in Seq(T) /\ waiting' # <<>> /\ waiting'[1] = Reply
      BY <3>3, <3>5, <3>6, Joined
    <3>8. \A i \in DOMAIN waiting' : waiting'[i] \in T
      BY <3>7
    <3>9. \A i \in DOMAIN waiting' : WellMade(waiting'[i])
      BY <3>4, <3>8
    <3>10. QED
      BY <3>1, <3>7, <3>9 DEF WaitingWellMade, WellMade, Reply
  <2>3. QED
    BY <2>1, <2>2 DEF Build
<1>3. ReplyFirst'
  BY <1>2 DEF ReplyFirst, Reply
<1>4. RegistryWellMade'
  BY <1>1 DEF CInv, RegistryWellMade, WellMade, Reply
<1>5. CalledInService' /\ MeantIsFound' /\ CallsReachTheirTool'
  BY <1>1 DEF CalledInService, MeantIsFound, CallsReachTheirTool, NoCall
<1>6. QED
  BY <1>2, <1>3, <1>4, <1>5 DEF CInv

\* Registration of the next tool, or its refusal.
LEMMA RegisterKeeps ==
  ASSUME CInv, Register
  PROVE  CInv'
<1>1. /\ phase = "init" /\ waiting # <<>> /\ waiting' = Tail(waiting)
      /\ UNCHANGED <<session, request, effects, answer>>
      /\ request = NoCall /\ effects = {} /\ answer = "none"
  BY DEF Register, CInv, CalledInService
<1>2. \/ registry' = registry /\ phase' = "failed"
      \/ /\ registry' = registry \union {Head(waiting)} /\ phase' = phase
         /\ \A t \in registry : t.name # Head(waiting).name
  BY DEF Register
<1>3. PICK S : waiting \in Seq(S)
  BY DEF CInv, WaitingWellMade
<1>4. /\ waiting' \in Seq(S) /\ Head(waiting) = waiting[1] /\ 1 \in DOMAIN waiting
      /\ \A i \in DOMAIN waiting' : \E j \in DOMAIN waiting : waiting'[i] = waiting[j]
  BY <1>1, <1>3, Shorter
<1>5. WaitingWellMade'
  BY <1>4 DEF CInv, WaitingWellMade, WellMade, Reply
<1>6. ReplyFirst'
  BY <1>1, <1>2, <1>4 DEF CInv, ReplyFirst, Reply
<1>7. WellMade(Head(waiting))
  BY <1>4 DEF CInv, WaitingWellMade
<1>8. RegistryWellMade'
  BY <1>2, <1>7 DEF CInv, RegistryWellMade, WellMade, Reply
<1>9. CalledInService' /\ MeantIsFound' /\ CallsReachTheirTool'
  BY <1>1 DEF CalledInService, MeantIsFound, CallsReachTheirTool, NoCall
<1>10. QED
  BY <1>5, <1>6, <1>8, <1>9 DEF CInv

\* The registry and what waits stay as they are, in service.
InService ==
  /\ phase = "serving" /\ UNCHANGED <<waiting, registry, phase>>

\* Steps after registration leave the registry alone.
LEMMA ServiceKeeps ==
  ASSUME CInv, InService, MeantIsFound', CallsReachTheirTool'
  PROVE  CInv'
<1>1. WaitingWellMade' /\ RegistryWellMade'
  BY DEF InService, CInv, WaitingWellMade, RegistryWellMade, WellMade, Reply
<1>2. ReplyFirst' /\ CalledInService'
  BY DEF InService, CInv, ReplyFirst, CalledInService, Reply
<1>3. QED
  BY <1>1, <1>2 DEF CInv

\* A call of a tool by the name the model uses.
LEMMA RunToolKeeps ==
  ASSUME CInv, NEW t \in registry, RunTool(t)
  PROVE  CInv'
<1>1. InService /\ request # NoCall /\ t.name = request.name /\ t.kind # "reply"
  BY DEF RunTool, InService, CInv, CalledInService
<1>2. MeantIsFound'
  BY DEF RunTool, MeantIsFound
<1>3. Names' = Names /\ registry' = registry
  BY <1>1 DEF InService, Names
<1>4. t.name # ReplyName
  BY <1>1 DEF InService, CInv, ReplyFirst, RegistryWellMade, Reply
<1>5. CASE effects' = effects /\ answer' \in {"fail", "panic"}
  <2>1. CallsReachTheirTool'
    BY <1>3, <1>5 DEF CInv, CallsReachTheirTool
  <2>2. QED
    BY <1>1, <1>2, <2>1, ServiceKeeps
<1>6. CASE effects' = {[tool |-> t.name, server |-> t.server, wanted |-> request.wanted,
                        surface |-> "", scheme |-> request.scheme]}
  <2>1. t.name = request.wanted \/ request.wanted \notin Names
    BY <1>1 DEF CInv, MeantIsFound
  <2>2. t.server # <<>> => normalizeMCPToolName(Prefix, t.server) = t.name
    BY DEF CInv, RegistryWellMade, WellMade
  <2>3. \A u \in registry : u.name = t.name => u.server = t.server
    BY DEF CInv, RegistryWellMade
  <2> DEFINE x == [tool |-> t.name, server |-> t.server, wanted |-> request.wanted,
                    surface |-> "", scheme |-> request.scheme]
  <2>4. effects' = {x} /\ x.tool = t.name /\ x.server = t.server /\ x.wanted = request.wanted
    BY <1>6
  <2> HIDE DEF x
  <2>5. ASSUME NEW y \in effects'
        PROVE  /\ y.tool = y.wanted \/ y.wanted \notin Names
               /\ y.tool # ReplyName
               /\ y.server # <<>> => normalizeMCPToolName(Prefix, y.server) = y.tool
               /\ \A u \in registry : u.name = y.tool => u.server = y.server
    <3>1. y.tool = t.name /\ y.server = t.server /\ y.wanted = request.wanted
      BY <2>4
    <3>2. QED
      BY <3>1, <1>4, <2>1, <2>2, <2>3
  <2>6. effects' # {}
    BY <2>4
  <2>7. CallsReachTheirTool'
    BY <1>3, <2>5, <2>6 DEF CallsReachTheirTool
  <2>8. QED
    BY <1>1, <1>2, <2>7, ServiceKeeps
<1>7. QED
  BY <1>5, <1>6 DEF RunTool

\* A call of a tool of the server, before it asks the server.
LEMMA CheckSessionKeeps ==
  ASSUME CInv, NEW t \in registry, CheckSession(t)
  PROVE  CInv'
<1>1. /\ InService /\ request # NoCall /\ UNCHANGED <<effects, answer>>
      /\ request' = [request EXCEPT !.checked = TRUE]
  BY DEF CheckSession, InService, CInv, CalledInService
<1>2. request'.name = request.name /\ request'.wanted = request.wanted /\ Names' = Names
  BY <1>1 DEF InService, Names
<1>3. MeantIsFound'
  BY <1>1, <1>2 DEF CInv, MeantIsFound
<1>4. CallsReachTheirTool'
  BY <1>1, <1>2 DEF InService, CInv, CallsReachTheirTool
<1>5. QED
  BY <1>1, <1>3, <1>4, ServiceKeeps

\* A reply.
LEMMA RunReplyKeeps ==
  ASSUME CInv, RunReply
  PROVE  CInv'
<1>1. InService /\ request # NoCall /\ request.name = ReplyName
  BY DEF RunReply, InService, CInv, CalledInService
<1>2. MeantIsFound'
  BY DEF RunReply, MeantIsFound
<1>3. Names' = Names /\ registry' = registry
  BY <1>1 DEF InService, Names
<1>4. CallsReachTheirTool'
  <2>1. CASE effects' = effects /\ answer' = "fail"
    BY <1>3, <2>1 DEF CInv, CallsReachTheirTool
  <2>2. CASE \E h \in HandlerOf(request.scheme) :
               /\ effects' = {[tool |-> ReplyName, server |-> <<>>, wanted |-> request.wanted,
                               surface |-> h, scheme |-> request.scheme]}
               /\ answer' = "ok"
    <3>1. /\ effects' = {[tool |-> ReplyName, server |-> <<>>, wanted |-> request.wanted,
                          surface |-> request.scheme, scheme |-> request.scheme]}
          /\ answer' = "ok"
      BY <2>2 DEF HandlerOf
    <3>2. ReplyName = request.wanted \/ request.wanted \notin Names
      BY <1>1 DEF CInv, MeantIsFound
    <3>3. \A u \in registry : u.name = ReplyName => u.server = <<>>
      BY <1>1 DEF InService, CInv, ReplyFirst, RegistryWellMade, Reply
    <3>4. QED
      BY <1>3, <3>1, <3>2, <3>3 DEF CallsReachTheirTool
  <2>3. QED
    BY <2>1, <2>2 DEF RunReply
<1>5. QED
  BY <1>1, <1>2, <1>4, ServiceKeeps

-----------------------------------------------------------------------------
(* The theorem.                                                               *)

\* At first nothing is registered.
LEMMA Initially == ToolsInit => CInv
<1> SUFFICES ASSUME ToolsInit PROVE CInv
  OBVIOUS
<1>1. waiting \in Seq({})
  BY DEF ToolsInit
<1>2. WaitingWellMade
  BY <1>1 DEF ToolsInit, WaitingWellMade
<1>3. ReplyFirst /\ RegistryWellMade /\ CalledInService /\ MeantIsFound
  BY DEF ToolsInit, ReplyFirst, RegistryWellMade, CalledInService, MeantIsFound
<1>4. CallsReachTheirTool
  BY DEF ToolsInit, CallsReachTheirTool
<1>5. QED
  BY <1>2, <1>3, <1>4 DEF CInv

\* Every step keeps the invariant.
LEMMA Inductive == InputsAreLists /\ CInv /\ [ToolsNext]_toolVars => CInv'
<1> SUFFICES ASSUME InputsAreLists, CInv, [ToolsNext]_toolVars PROVE CInv'
  OBVIOUS
<1>1. CASE Build
  BY <1>1, BuildKeeps
<1>2. CASE Register
  BY <1>2, RegisterKeeps
<1>3. CASE Serve
  <2>1. /\ phase = "init" /\ waiting = <<>> /\ phase' = "serving"
        /\ UNCHANGED <<waiting, registry, session, request, effects, answer>>
        /\ request = NoCall /\ effects = {} /\ answer = "none"
    BY <1>3 DEF Serve, CInv, CalledInService
  <2>2. WaitingWellMade' /\ RegistryWellMade' /\ ReplyFirst'
    BY <2>1 DEF CInv, WaitingWellMade, RegistryWellMade, ReplyFirst, WellMade, Reply
  <2>3. CalledInService' /\ MeantIsFound' /\ CallsReachTheirTool'
    BY <2>1 DEF CalledInService, MeantIsFound, CallsReachTheirTool, NoCall
  <2>4. QED
    BY <2>2, <2>3 DEF CInv
<1>4. CASE Close
  <2>1. InService /\ UNCHANGED <<request, effects, answer>>
    BY <1>4 DEF Close, InService
  <2>2. MeantIsFound' /\ CallsReachTheirTool'
    BY <2>1 DEF InService, CInv, MeantIsFound, CallsReachTheirTool, Names, NoCall
  <2>3. QED
    BY <2>1, <2>2, ServiceKeeps
<1>5. CASE \E s \in Schemes, w \in Names \union {<<"b", "b", "b">>} : ModelCalls(s, w)
  <2>1. PICK s \in Schemes, w \in Names \union {<<"b", "b", "b">>} : ModelCalls(s, w)
    BY <1>5
  <2>2. /\ InService /\ Distinct(Names) /\ effects' = {} /\ answer' = "none"
        /\ request' = [scheme |-> s, wanted |-> w,
                       name |-> FromOpenAI(Names, openAIToolName(w)), checked |-> FALSE]
    BY <2>1 DEF ModelCalls, InService
  <2>3. MeantIsFound'
    <3>1. Names' = Names
      BY <2>2 DEF InService, Names
    <3>2. QED
      BY <2>2, <3>1, FoundAgain DEF MeantIsFound
  <2>4. CallsReachTheirTool'
    BY <2>2 DEF CallsReachTheirTool
  <2>5. QED
    BY <2>2, <2>3, <2>4, ServiceKeeps
<1>6. CASE UnknownTool
  <2>1. InService /\ effects' = effects /\ answer' = "error" /\ request' = NoCall
    BY <1>6 DEF UnknownTool, InService, CInv, CalledInService
  <2>2. MeantIsFound' /\ CallsReachTheirTool'
    BY <2>1 DEF InService, CInv, MeantIsFound, CallsReachTheirTool, Names
  <2>3. QED
    BY <2>1, <2>2, ServiceKeeps
<1>7. CASE RunReply
  BY <1>7, RunReplyKeeps
<1>8. CASE \E t \in registry : CheckSession(t) \/ RunTool(t)
  BY <1>8, CheckSessionKeeps, RunToolKeeps
<1>9. CASE UNCHANGED toolVars
  <2>1. UNCHANGED <<waiting, registry, phase, session, request, effects, answer>>
    BY <1>9 DEF toolVars
  <2>2. WaitingWellMade' /\ RegistryWellMade' /\ ReplyFirst' /\ CalledInService'
    BY <2>1 DEF CInv, WaitingWellMade, RegistryWellMade, ReplyFirst, CalledInService,
                WellMade, Reply, NoCall
  <2>3. MeantIsFound' /\ CallsReachTheirTool'
    BY <2>1 DEF CInv, MeantIsFound, CallsReachTheirTool, Names, NoCall
  <2>4. QED
    BY <2>2, <2>3 DEF CInv
<1>10. QED
  BY <1>1, <1>2, <1>3, <1>4, <1>5, <1>6, <1>7, <1>8, <1>9 DEF ToolsNext

\* Whatever names a server gives its tools and however long names may be: what runs
\* for a call is the tool that was meant, under its server's name, or nothing; a
\* reply goes where its session came from (registry.go, openai client.go, reply.go).
THEOREM RightTool == InputsAreLists => (ToolsSpec => []CallsReachTheirTool)
<1> SUFFICES ASSUME InputsAreLists PROVE ToolsSpec => []CallsReachTheirTool
  OBVIOUS
<1>1. ToolsInit => CInv
  BY Initially
<1>2. CInv /\ [ToolsNext]_toolVars => CInv'
  BY Inductive
<1>3. CInv => CallsReachTheirTool
  BY DEF CInv
<1>4. QED
  BY <1>1, <1>2, <1>3, PTL DEF ToolsSpec

-----------------------------------------------------------------------------
(* GitHub: what a call has asked for, and what it knows.                      *)

\* The request of a tool that writes.
WritePlace(in) ==
  CASE in.tool \in {"add", "remove"} -> 2
    [] in.tool \in {"create_milestone", "update_milestone"} -> 1
    [] OTHER -> 0

UnderWay == {"token", "mint", "send", "reply"}

\* The request at which t is has been answered.
Past(t, at) == t.pc \in UnderWay /\ (t.at > at \/ (t.at = at /\ t.pc = "reply"))

Tasks ==
  [pc : {"idle", "done"} \union UnderWay, in : Inputs \union {NoOne}, at : 1..5, token : Int,
   id : {0} \union {IdOf[m] : m \in Issues}, blockedBy : SUBSET Issues, seen : Nat,
   answer : {"none", "ok", "error"}]

GithubTypes ==
  /\ clock \in Int /\ expires \in Int /\ task \in [Calls -> Tasks]
  /\ \E S : log \in Seq(S)

\* Who asks for a token holds the mutex.
MintHolds == \A c \in Calls : task[c].pc = "mint" => holder = c /\ ~Good

\* Where call c is, with t what is known of it.
InPlace(t) ==
  /\ t.pc # "idle" => t.in \in Inputs
  /\ t.pc \in UnderWay => t.at <= Len(Requests(t.in)) /\ t.answer = "none"
  /\ t.pc = "idle" => t.answer = "none"

\* It has written when it is past its write, once, and what it was asked to, of
\* an issue that there is.
WrittenOnce(c, t) ==
  /\ t.pc = "idle" => WritesOf(c) = {}
  /\ t.pc \in UnderWay => (WritesOf(c) # {} <=> WritePlace(t.in) > 0 /\ Past(t, WritePlace(t.in)))
  /\ t.answer = "ok" /\ WritePlace(t.in) > 0 => WritesOf(c) # {}
  /\ \A i, j \in WritesOf(c) : i = j
  /\ \A i \in WritesOf(c) : [kind |-> log[i].kind, about |-> log[i].about] \in Wanted(t.in)
  /\ WritesOf(c) # {} /\ WritePlace(t.in) = 2 => t.in.x \in Issues

\* The id it sends is that of the issue which is to block.
IdIsOfIssue(t) ==
  t.pc # "idle" /\ WritePlace(t.in) = 2 /\ Past(t, 1) /\ t.at <= 2 =>
    t.in.x \in Issues /\ t.id = IdOf[t.in.x]

\* What it read of the dependencies it read after its write.
ReadBehindWrite(c, t) ==
  t.pc # "idle" /\ WritePlace(t.in) = 2 /\ (Past(t, 4) \/ t.answer = "ok") =>
    /\ t.seen <= Len(log) /\ WritesOf(c) \subseteq 1..t.seen
    /\ t.blockedBy \in Pages({m \in Issues : <<t.in.y, m>> \in Edges(t.seen)})

CallInOrder(c, t) ==
  InPlace(t) /\ WrittenOnce(c, t) /\ IdIsOfIssue(t) /\ ReadBehindWrite(c, t)

CallsInOrder == \A c \in Calls : CallInOrder(c, task[c])

GInv == GithubTypes /\ MintHolds /\ CallsInOrder

-----------------------------------------------------------------------------
(* The requests of a tool.                                                    *)

\* The row of a dependency: the blocker, the write, and the three of GetIssueWithBlocking.
LEMMA DependencyRequests ==
  ASSUME NEW in, in.tool \in {"add", "remove"}
  PROVE  /\ Len(Requests(in)) = 5
         /\ Requests(in)[1] = Get(in.x) /\ Requests(in)[3] = Get(in.y)
         /\ Requests(in)[2] = [kind |-> in.tool, n |-> in.y]
         /\ Requests(in)[4] = List(in.y, "blocked_by") /\ Requests(in)[5] = List(in.y, "blocking")
<1> PICK x, y, z : x = Get(in.y) /\ y = List(in.y, "blocked_by") /\ z = List(in.y, "blocking")
  OBVIOUS
<1>1. PICK a, b : a = Get(in.x) /\ b = [kind |-> in.tool, n |-> in.y]
  OBVIOUS
<1>2. PICK s, t : s = <<a, b>> /\ t = <<x, y, z>>
  OBVIOUS
<1> DEFINE S == {a, b, x, y, z}
<1>3. /\ s \in Seq(S) /\ Len(s) = 2 /\ s[1] = a /\ s[2] = b
      /\ t \in Seq(S) /\ Len(t) = 3 /\ t[1] = x /\ t[2] = y /\ t[3] = z
  BY <1>2
<1> HIDE DEF S
<1>4. /\ Len(s \o t) = 5 /\ (s \o t)[1] = a /\ (s \o t)[2] = b
      /\ (s \o t)[3] = x /\ (s \o t)[4] = y /\ (s \o t)[5] = z
  <2>1. /\ Len(s \o t) = Len(s) + Len(t)
        /\ \A i \in 1..Len(s) : (s \o t)[i] = s[i]
        /\ \A i \in 1..Len(t) : (s \o t)[Len(s) + i] = t[i]
    <3>1. s \in Seq(S) /\ t \in Seq(S)
      BY <1>3
    <3> QED
      BY ONLY <3>1
  <2>2. PICK p : p = s \o t
    OBVIOUS
  <2>3. /\ Len(p) = Len(s) + Len(t)
        /\ \A i \in 1..Len(s) : p[i] = s[i]
        /\ \A i \in 1..Len(t) : p[Len(s) + i] = t[i]
    BY ONLY <2>1, <2>2
  <2>4. Len(p) = 5 /\ p[1] = a /\ p[2] = b /\ p[3] = x /\ p[4] = y /\ p[5] = z
    BY ONLY <1>3, <2>3
  <2> QED
    BY ONLY <2>2, <2>4
<1>5. Requests(in) = s \o t
  BY <1>1, <1>2 DEF Requests, AddBlockedBy, RemoveBlockedBy, Blocking
<1> QED
  BY <1>1, <1>4, <1>5

\* Each tool has a row of requests.
LEMMA InputsHaveRequests ==
  ASSUME NEW in \in Inputs
  PROVE  /\ Len(Requests(in)) \in 1..5 /\ WritePlace(in) \in 0..2
         /\ WritePlace(in) <= Len(Requests(in))
         /\ WritePlace(in) = 2 => in.tool \in {"add", "remove"} /\ Len(Requests(in)) = 5
<1>1. in.tool \in Tools
  BY GithubAssumption
<1>2. CASE in.tool \in {"add", "remove"}
  <2>1. /\ Len(Requests(in)) = 5
        /\ Requests(in)[1] = Get(in.x) /\ Requests(in)[3] = Get(in.y)
        /\ Requests(in)[2] = [kind |-> in.tool, n |-> in.y]
        /\ Requests(in)[4] = List(in.y, "blocked_by") /\ Requests(in)[5] = List(in.y, "blocking")
    BY <1>2, DependencyRequests
  <2>2. WritePlace(in) = 2
    BY <1>2 DEF WritePlace
  <2> QED
    BY <1>2, <2>1, <2>2
<1>3. CASE in.tool \in Tools \ {"add", "remove"}
  <2>1. Len(Requests(in)) \in {1, 3}
    BY <1>3 DEF Tools, Requests, GetIssue, Blocking, ListMilestones, CreateMilestone, UpdateMilestone
  <2> QED
    BY <1>3, <2>1, SMTT(30) DEF Tools, WritePlace
<1> QED
  BY <1>1, <1>2, <1>3

\* Which request of a tool is its write, and what it says.
LEMMA RequestsOf ==
  ASSUME NEW in \in Inputs, NEW at \in 1..Len(Requests(in)), NEW r, r = Requests(in)[at]
  PROVE  /\ WritePlace(in) = at <=> r.kind \in {"add", "remove", "create", "update"}
         /\ r.kind \in {"issue", "blocked_by", "blocking", "milestones",
                        "add", "remove", "create", "update"}
         /\ WritePlace(in) = 2 =>
              /\ at = 1 => r = Get(in.x)
              /\ at = 2 => r = [kind |-> in.tool, n |-> in.y]
              /\ r.kind = "blocked_by" <=> at = 4
              /\ at = 4 => r.n = in.y
         /\ r.kind \in {"add", "remove"} => WritePlace(in) = 2
         /\ r.kind = "create" => in.tool = "create_milestone"
         /\ r.kind = "update" => in.tool = "update_milestone" /\ r.n = in.x
<1>1. in.tool \in Tools
  BY GithubAssumption
<1>2. CASE in.tool \in {"add", "remove"}
  <2>1. WritePlace(in) = 2
    BY <1>2 DEF WritePlace
  <2>2. /\ Len(Requests(in)) = 5
        /\ Requests(in)[1] = Get(in.x) /\ Requests(in)[3] = Get(in.y)
        /\ Requests(in)[2] = [kind |-> in.tool, n |-> in.y]
        /\ Requests(in)[4] = List(in.y, "blocked_by") /\ Requests(in)[5] = List(in.y, "blocking")
    BY <1>2, DependencyRequests
  <2> QED
    BY <1>2, <2>1, <2>2 DEF Get, List
<1>3. CASE in.tool = "get_issue"
  <2>1. Requests(in) = <<Get(in.x), List(in.x, "blocked_by"), List(in.x, "blocking")>>
    BY <1>3 DEF Requests, GetIssue, Blocking
  <2>2. WritePlace(in) = 0
    BY <1>3 DEF WritePlace
  <2> QED
    BY <1>3, <2>1, <2>2 DEF Get, List
<1>4. CASE in.tool \in {"list_milestones", "create_milestone", "update_milestone"}
  <2>1. /\ Len(Requests(in)) = 1
        /\ Requests(in)[1].kind = (CASE in.tool = "list_milestones" -> "milestones"
                                     [] in.tool = "create_milestone" -> "create"
                                     [] in.tool = "update_milestone" -> "update")
        /\ in.tool = "update_milestone" => Requests(in)[1].n = in.x
    BY <1>4 DEF Requests, ListMilestones, CreateMilestone, UpdateMilestone
  <2>2. WritePlace(in) = IF in.tool = "list_milestones" THEN 0 ELSE 1
    BY <1>4 DEF WritePlace
  <2> QED
    BY <1>4, <2>1, <2>2
<1> QED
  BY <1>1, <1>2, <1>3, <1>4 DEF Tools

-----------------------------------------------------------------------------
(* What a write adds to the log.                                              *)

\* The writes of the others stay, and what is read of the first n stays too.
LEMMA Written ==
  ASSUME \E S : log \in Seq(S), NEW w, log' = Append(log, w)
  PROVE  /\ \E S : log' \in Seq(S)
         /\ Len(log) \in Nat /\ Len(log') = Len(log) + 1
         /\ DOMAIN log = 1..Len(log) /\ DOMAIN log' = 1..(Len(log) + 1)
         /\ \A i \in 1..Len(log) : log'[i] = log[i]
         /\ log'[Len(log) + 1] = w
<1> PICK l : l = log
  OBVIOUS
<1>1. PICK S : l \in Seq(S)
  OBVIOUS
<1> DEFINE U == S \union {w}
<1>2. l \in Seq(U) /\ w \in U
  BY <1>1
<1> HIDE DEF U
<1>3. /\ Append(l, w) \in Seq(U) /\ Len(l) \in Nat /\ Len(Append(l, w)) = Len(l) + 1
      /\ DOMAIN l = 1..Len(l) /\ DOMAIN Append(l, w) = 1..(Len(l) + 1)
      /\ \A i \in 1..Len(l) : Append(l, w)[i] = l[i]
      /\ Append(l, w)[Len(l) + 1] = w
  BY <1>2
<1> QED
  BY <1>3

\* What was read of the first n writes is still so.
LEMMA EdgesStay ==
  ASSUME \E S : log \in Seq(S), NEW w, log' = Append(log, w), NEW n \in Nat, n <= Len(log)
  PROVE  Edges(n)' = Edges(n)
<1>1. \A i \in 1..n : log'[i] = log[i]
  BY Written
<1>2. Standing(n, "add") \subseteq Standing(n, "add")'
  BY <1>1 DEF Standing
<1>3. Standing(n, "add")' \subseteq Standing(n, "add")
  BY <1>1 DEF Standing
<1> QED
  BY <1>2, <1>3 DEF Edges

\* The writes of a call are those it had, and this one if it is its own.
LEMMA WritesAdd ==
  ASSUME \E S : log \in Seq(S), NEW w, log' = Append(log, w), NEW d
  PROVE  WritesOf(d)' = IF w.by = d THEN WritesOf(d) \union {Len(log) + 1} ELSE WritesOf(d)
BY Written DEF WritesOf

\* What was wanted is still.
LEMMA WantedStays ==
  ASSUME \E S : log \in Seq(S), NEW w, log' = Append(log, w), NEW in
  PROVE  Wanted(in) \subseteq Wanted(in)'
<1>1. MilestonesNow \subseteq MilestonesNow'
  BY Written DEF MilestonesNow
<1> QED
  BY <1>1 DEF Wanted

-----------------------------------------------------------------------------
(* What the steps leave in order.                                             *)

\* Nothing is written.
LEMMA NothingWritten ==
  ASSUME UNCHANGED log, NEW c, NEW t
  PROVE  CallInOrder(c, t)' <=> CallInOrder(c, t)
<1>1. WritesOf(c)' = WritesOf(c)
  BY DEF WritesOf
<1>2. Wanted(t.in)' = Wanted(t.in)
  BY DEF Wanted, MilestonesNow
<1>3. Edges(t.seen)' = Edges(t.seen)
  BY DEF Edges, Standing
<1> QED
  BY <1>1, <1>2, <1>3 DEF CallInOrder, InPlace, WrittenOnce, IdIsOfIssue, ReadBehindWrite

\* Another call writes.
LEMMA OtherWrites ==
  ASSUME \E S : log \in Seq(S), NEW w, log' = Append(log, w), NEW c, w.by # c,
         NEW t, t.seen \in Nat, CallInOrder(c, t)
  PROVE  CallInOrder(c, t)'
<1>1. WritesOf(c)' = WritesOf(c)
  BY WritesAdd
<1>2. Wanted(t.in) \subseteq Wanted(t.in)'
  BY WantedStays
<1>3. t.seen <= Len(log) => Edges(t.seen)' = Edges(t.seen)
  BY EdgesStay
<1>4. Len(log) \in Nat /\ Len(log') = Len(log) + 1 /\ \A i \in WritesOf(c) : log'[i] = log[i]
  BY Written DEF WritesOf
<1>5. IdIsOfIssue(t)' /\ InPlace(t)'
  BY DEF CallInOrder, IdIsOfIssue, InPlace
<1>6. WrittenOnce(c, t)'
  BY <1>1, <1>2, <1>4 DEF CallInOrder, WrittenOnce
<1>7. ReadBehindWrite(c, t)'
  <2> SUFFICES ASSUME t.pc # "idle", WritePlace(t.in) = 2, Past(t, 4) \/ t.answer = "ok"
               PROVE  (/\ t.seen <= Len(log) /\ WritesOf(c) \subseteq 1..t.seen
                       /\ t.blockedBy \in Pages({m \in Issues : <<t.in.y, m>> \in Edges(t.seen)}))'
    BY DEF ReadBehindWrite
  <2>1. /\ t.seen <= Len(log) /\ WritesOf(c) \subseteq 1..t.seen
        /\ t.blockedBy \in Pages({m \in Issues : <<t.in.y, m>> \in Edges(t.seen)})
    BY DEF CallInOrder, ReadBehindWrite
  <2>2. Edges(t.seen)' = Edges(t.seen)
    BY <1>3, <2>1
  <2>3. t.blockedBy \in Pages({m \in Issues : <<t.in.y, m>> \in Edges(t.seen)'})
    BY <2>1, <2>2
  <2>4. t.seen <= Len(log')
    BY <1>4, <2>1
  <2> QED
    BY <1>1, <2>1, <2>3, <2>4 DEF Pages
<1> QED
  BY <1>5, <1>6, <1>7 DEF CallInOrder

\* The input is taken or refused.
LEMMA Started ==
  ASSUME NEW c \in Calls, NEW t \in Tasks, CallInOrder(c, t), t.pc = "idle",
         NEW in \in Inputs, NEW u,
         u \in {[Idle EXCEPT !.in = in, !.pc = "done", !.answer = "error"],
                [Idle EXCEPT !.in = in, !.pc = "token"]}
  PROVE  u \in Tasks /\ CallInOrder(c, u)
<1>2. Len(Requests(in)) \in 1..5 /\ WritePlace(in) \in 0..2
  BY InputsHaveRequests
<1>3. /\ u.in = in /\ u.at = 1 /\ u.pc \in {"done", "token"}
      /\ u.answer = (IF u.pc = "done" THEN "error" ELSE "none") /\ u \in Tasks
  <2>1. u \in [pc : {"done", "token"}, in : Inputs, at : {1}, token : {0}, id : {0},
               blockedBy : {{}}, seen : {0}, answer : {"none", "error"}]
    BY DEF Idle
  <2>2. u \in Tasks
    BY <2>1 DEF Tasks, UnderWay
  <2> QED
    BY <2>1, <2>2 DEF Idle
<1>4. WritesOf(c) = {}
  BY DEF CallInOrder, WrittenOnce
<1>5. ~Past(u, 1) /\ ~Past(u, 2) /\ ~Past(u, 4)
  BY <1>3 DEF Past, UnderWay
<1>6. InPlace(u)
  <2>1. PICK n \in 1..5 : n = Len(Requests(in))
    BY <1>2
  <2>2. u.at <= n
    BY <1>3
  <2> QED
    BY <1>3, <2>1, <2>2 DEF InPlace, UnderWay
<1>7. WrittenOnce(c, u)
  BY <1>2, <1>3, <1>4, <1>5 DEF WrittenOnce, UnderWay
<1>8. IdIsOfIssue(u) /\ ReadBehindWrite(c, u)
  BY <1>3, <1>5 DEF IdIsOfIssue, ReadBehindWrite
<1> QED
  BY <1>3, <1>6, <1>7, <1>8 DEF CallInOrder

\* A token is waited for, or there.
LEMMA TokenSteps ==
  ASSUME NEW c \in Calls, NEW t \in Tasks, CallInOrder(c, t), t.pc \in {"token", "mint"},
         NEW u \in Tasks, u.pc \in {"mint", "send"},
         u.in = t.in, u.at = t.at, u.id = t.id, u.blockedBy = t.blockedBy, u.seen = t.seen,
         u.answer = t.answer
  PROVE  CallInOrder(c, u)
BY DEF CallInOrder, InPlace, WrittenOnce, IdIsOfIssue, ReadBehindWrite, Past, UnderWay

\* The call ends with an error.
LEMMA EndsInError ==
  ASSUME NEW c \in Calls, NEW t \in Tasks, CallInOrder(c, t), t.pc \in UnderWay,
         NEW u, u = [t EXCEPT !.pc = "done", !.answer = "error"]
  PROVE  u \in Tasks /\ CallInOrder(c, u)
<1>1. /\ u \in Tasks /\ u.pc = "done" /\ u.answer = "error" /\ u.in = t.in
  BY DEF Tasks
<1> QED
  BY <1>1 DEF CallInOrder, InPlace, WrittenOnce, IdIsOfIssue, ReadBehindWrite, Past, UnderWay

\* The answer of a request has arrived, and the tool is done or goes on.
LEMMA Answered ==
  ASSUME NEW c \in Calls, NEW t \in Tasks, CallInOrder(c, t), t.pc = "reply", NEW u,
         IF t.at = Len(Requests(t.in))
           THEN u = [t EXCEPT !.pc = "done", !.answer = "ok"]
           ELSE u = [t EXCEPT !.pc = "token", !.at = @ + 1]
  PROVE  u \in Tasks /\ CallInOrder(c, u)
<1>1. /\ t.in \in Inputs /\ t.at \in 1..5 /\ t.at <= Len(Requests(t.in)) /\ t.answer = "none"
  BY DEF CallInOrder, InPlace, Tasks, UnderWay
<1>2. Len(Requests(t.in)) \in 1..5 /\ WritePlace(t.in) \in 0..2
      /\ WritePlace(t.in) <= Len(Requests(t.in))
      /\ (WritePlace(t.in) = 2 => Len(Requests(t.in)) = 5)
  BY <1>1, InputsHaveRequests
<1>3. CASE t.at = Len(Requests(t.in))
  <2>1. /\ u \in Tasks /\ u.pc = "done" /\ u.answer = "ok" /\ u.in = t.in /\ u.seen = t.seen
        /\ u.blockedBy = t.blockedBy
    BY <1>3, ZenonT(40) DEF Tasks
  <2>2. Past(t, WritePlace(t.in)) /\ (WritePlace(t.in) = 2 => Past(t, 4))
    <3>1. PICK n \in 1..5, w \in 0..2 : n = Len(Requests(t.in)) /\ w = WritePlace(t.in)
      BY <1>2
    <3>2. t.at = n /\ w <= n /\ (w = 2 => n = 5)
      BY <1>2, <1>3, <3>1
    <3>3. Past(t, w) /\ (w = 2 => Past(t, 4))
      BY <1>1, <3>2 DEF Past, UnderWay
    <3> QED
      BY <3>1, <3>3
  <2> QED
    BY <2>1, <2>2 DEF CallInOrder, InPlace, WrittenOnce, IdIsOfIssue, ReadBehindWrite, Past, UnderWay
<1>4. CASE t.at # Len(Requests(t.in))
  <2>1. /\ u \in Tasks /\ u.pc = "token" /\ u.answer = "none" /\ u.in = t.in /\ u.seen = t.seen
        /\ u.blockedBy = t.blockedBy /\ u.id = t.id /\ u.at = t.at + 1
        /\ u.at <= Len(Requests(t.in))
    <3>1. PICK n \in 1..5 : n = Len(Requests(t.in))
      BY <1>2
    <3>2. u = [t EXCEPT !.pc = "token", !.at = @ + 1]
      BY <1>4
    <3>3. t.at <= n /\ t.at # n /\ t.at + 1 \in 1..5
      <4>1. t.at \in 1..5 /\ t.at <= n /\ t.at # n
        BY <1>1, <1>4, <3>1
      <4> QED
        BY <4>1
    <3>4. u \in Tasks
      BY <3>2, <3>3 DEF Tasks, UnderWay
    <3> QED
      BY <1>1, <3>1, <3>2, <3>3, <3>4 DEF Tasks
  <2>2. \A at \in 0..4 : Past(u, at) <=> Past(t, at)
    BY <1>1, <2>1 DEF Past, UnderWay
  <2>3. u.at <= 2 => t.at <= 2
    BY <1>1, <2>1
  <2>4. InPlace(u) /\ WrittenOnce(c, u)
    BY <1>1, <1>2, <2>1, <2>2 DEF CallInOrder, InPlace, WrittenOnce, UnderWay
  <2>5. IdIsOfIssue(u) /\ ReadBehindWrite(c, u)
    BY <1>1, <1>2, <2>1, <2>2, <2>3 DEF CallInOrder, IdIsOfIssue, ReadBehindWrite, UnderWay
  <2> QED
    BY <2>1, <2>4, <2>5 DEF CallInOrder
<1> QED
  BY <1>3, <1>4

\* A request that reads has been answered.
LEMMA ReadKeeps ==
  ASSUME NEW c \in Calls, NEW t \in Tasks, CallInOrder(c, t), t.pc = "send",
         \E S : log \in Seq(S),
         NEW r, r = Requests(t.in)[t.at], r.kind \notin {"add", "remove", "create", "update"},
         NEW u \in Tasks, u.pc = "reply", u.in = t.in, u.at = t.at, u.answer = t.answer,
         r.kind = "issue" => r.n \in Issues /\ u.id = IdOf[r.n],
         IF r.kind = "blocked_by"
           THEN /\ u.seen = Len(log)
                /\ u.blockedBy \in Pages({m \in Issues : <<r.n, m>> \in Edges(Len(log))})
           ELSE u.seen = t.seen /\ u.blockedBy = t.blockedBy
  PROVE  CallInOrder(c, u)
<1>1. PICK in \in Inputs, at \in 1..5, n \in 1..5, w \in 0..2 :
        in = t.in /\ at = t.at /\ n = Len(Requests(in)) /\ w = WritePlace(in) /\ at <= n
  <2>1. t.in \in Inputs /\ t.at \in 1..5 /\ t.at <= Len(Requests(t.in))
    BY DEF CallInOrder, InPlace, UnderWay, Tasks
  <2> QED
    BY <2>1, InputsHaveRequests
<1>2. /\ at # w
      /\ w = 2 => /\ at # 2
                  /\ at = 1 => r.kind = "issue" /\ r.n = in.x
                  /\ r.kind = "blocked_by" <=> at = 4
                  /\ at = 4 => r.n = in.y
  <2>1. at \in 1..Len(Requests(in)) /\ r = Requests(in)[at]
    BY <1>1
  <2>2. /\ WritePlace(in) = at <=> r.kind \in {"add", "remove", "create", "update"}
        /\ WritePlace(in) = 2 =>
              /\ at = 1 => r = Get(in.x)
              /\ at = 2 => r = [kind |-> in.tool, n |-> in.y]
              /\ r.kind = "blocked_by" <=> at = 4
              /\ at = 4 => r.n = in.y
    BY <2>1, RequestsOf
  <2> QED
    BY <1>1, <2>2 DEF Get
<1>3. \A k \in 0..5 : k # at => (Past(u, k) <=> Past(t, k))
  BY <1>1 DEF Past, UnderWay
<1>4. ~Past(t, at) /\ Past(u, at) /\ t.answer = "none" /\ t.pc \in UnderWay /\ u.pc \in UnderWay
  BY <1>1 DEF Past, UnderWay, CallInOrder, InPlace
<1>5. InPlace(u) /\ WrittenOnce(c, u)
  <2>1. Past(u, w) <=> Past(t, w)
    BY <1>1, <1>2, <1>3
  <2>2. InPlace(u)
    BY <1>1, <1>4 DEF CallInOrder, InPlace
  <2>3. /\ (WritesOf(c) # {} <=> w > 0 /\ Past(t, w))
        /\ \A i, j \in WritesOf(c) : i = j
        /\ \A i \in WritesOf(c) : [kind |-> log[i].kind, about |-> log[i].about] \in Wanted(in)
        /\ WritesOf(c) # {} /\ w = 2 => in.x \in Issues
    BY <1>1, <1>4 DEF CallInOrder, WrittenOnce
  <2>4. u.pc # "idle" /\ u.answer # "ok"
    BY <1>4 DEF UnderWay
  <2> QED
    BY <1>1, <2>1, <2>2, <2>3, <2>4 DEF WrittenOnce
<1>6. IdIsOfIssue(u)
  <2> SUFFICES ASSUME w = 2, Past(u, 1), at <= 2 PROVE in.x \in Issues /\ u.id = IdOf[in.x]
    BY <1>1 DEF IdIsOfIssue
  <2>1. at = 1
    BY <1>1, <1>2
  <2> QED
    BY <1>2, <2>1
<1>7. ReadBehindWrite(c, u)
  <2> SUFFICES ASSUME w = 2, Past(u, 4)
               PROVE  /\ u.seen <= Len(log) /\ WritesOf(c) \subseteq 1..u.seen
                      /\ u.blockedBy \in Pages({m \in Issues : <<in.y, m>> \in Edges(u.seen)})
    BY <1>1, <1>4 DEF ReadBehindWrite
  <2>1. CASE at = 4
    <3>1. Len(log) \in Nat /\ DOMAIN log = 1..Len(log)
      OBVIOUS
    <3>2. /\ u.seen = Len(log) /\ r.n = in.y
          /\ u.blockedBy \in Pages({m \in Issues : <<r.n, m>> \in Edges(Len(log))})
      BY <1>2, <2>1
    <3>3. WritesOf(c) \subseteq 1..Len(log)
      BY <3>1 DEF WritesOf
    <3> QED
      BY <3>1, <3>2, <3>3
  <2>2. CASE at # 4
    <3>1. Past(t, 4) /\ u.seen = t.seen /\ u.blockedBy = t.blockedBy
      BY <1>1, <1>2, <1>3, <2>2
    <3> QED
      BY <1>1, <1>4, <3>1 DEF CallInOrder, ReadBehindWrite, UnderWay
  <2> QED
    BY <2>1, <2>2
<1> QED
  BY <1>5, <1>6, <1>7 DEF CallInOrder

\* A request that writes has been answered.
LEMMA WriteKeeps ==
  ASSUME NEW c \in Calls, NEW t \in Tasks, CallInOrder(c, t), t.pc = "send",
         \E S : log \in Seq(S), t.at = WritePlace(t.in),
         NEW w, log' = Append(log, w), w.by = c,
         [kind |-> w.kind, about |-> w.about] \in Wanted(t.in)',
         NEW u \in Tasks, u.pc = "reply", u.in = t.in, u.at = t.at, u.answer = t.answer,
         u.id = t.id
  PROVE  CallInOrder(c, u)'
<1>1. PICK in \in Inputs, at \in 1..5, n \in 1..5 :
        in = t.in /\ at = t.at /\ n = Len(Requests(in)) /\ at = WritePlace(in) /\ at <= n /\ at <= 2
  <2>1. t.in \in Inputs /\ t.at \in 1..5 /\ t.at <= Len(Requests(t.in))
    BY DEF CallInOrder, InPlace, UnderWay, Tasks
  <2> QED
    BY <2>1, InputsHaveRequests
<1>2. ~Past(t, at) /\ Past(u, at) /\ ~Past(u, 4) /\ t.answer = "none" /\ u.pc \in UnderWay
      /\ t.pc \in UnderWay
  BY <1>1 DEF Past, UnderWay, CallInOrder, InPlace
<1>3. WritesOf(c) = {}
  BY <1>1, <1>2 DEF CallInOrder, WrittenOnce
<1>4. WritesOf(c)' = {Len(log) + 1} /\ log'[Len(log) + 1] = w
  BY <1>3, WritesAdd, Written
<1>5. InPlace(u)'
  BY <1>1, <1>2 DEF CallInOrder, InPlace
<1>6. WrittenOnce(c, u)'
  <2>1. at = 2 => Past(t, 1)
    BY <1>1 DEF Past, UnderWay
  <2>2. at = 2 => in.x \in Issues
    BY <1>1, <1>2, <2>1 DEF CallInOrder, IdIsOfIssue, UnderWay
  <2> QED
    BY <1>1, <1>2, <1>4, <2>2 DEF WrittenOnce, UnderWay
<1>7. IdIsOfIssue(u)'
  <2>1. at = 2 => Past(t, 1)
    BY <1>1 DEF Past, UnderWay
  <2> QED
    BY <1>1, <2>1 DEF CallInOrder, IdIsOfIssue
<1>8. ReadBehindWrite(c, u)'
  BY <1>2 DEF ReadBehindWrite
<1> QED
  BY <1>5, <1>6, <1>7, <1>8 DEF CallInOrder

-----------------------------------------------------------------------------
(* The steps.                                                                 *)

\* A call goes on and nothing is written.
LEMMA CallMoves ==
  ASSUME GithubTypes, CallsInOrder, NEW c \in Calls, NEW u \in Tasks,
         task' = [task EXCEPT ![c] = u], CallInOrder(c, u),
         UNCHANGED log, clock' \in Int, expires' \in Int
  PROVE  GithubTypes' /\ CallsInOrder'
<1>1. task' \in [Calls -> Tasks] /\ task'[c] = u /\ \A d \in Calls \ {c} : task'[d] = task[d]
  BY DEF GithubTypes
<1>2. GithubTypes'
  BY <1>1 DEF GithubTypes, Tasks
<1>3. ASSUME NEW d \in Calls PROVE CallInOrder(d, task[d])'
  <2>1. CallInOrder(d, task'[d])
    BY <1>1 DEF CallsInOrder
  <2> PICK v : v = task'[d]
    OBVIOUS
  <2>2. CallInOrder(d, v)'
    BY <2>1, NothingWritten
  <2> QED
    BY <2>2 DEF CallInOrder, InPlace, WrittenOnce, IdIsOfIssue, ReadBehindWrite
<1> QED
  BY <1>2, <1>3 DEF CallsInOrder

\* A call goes on and its request has written.
LEMMA CallWrites ==
  ASSUME GithubTypes, CallsInOrder, NEW c \in Calls, NEW u \in Tasks,
         task' = [task EXCEPT ![c] = u],
         NEW w, log' = Append(log, w), w.by = c, CallInOrder(c, u)',
         clock' \in Int, expires' \in Int
  PROVE  GithubTypes' /\ CallsInOrder'
<1>1. task' \in [Calls -> Tasks] /\ task'[c] = u /\ \A d \in Calls \ {c} : task'[d] = task[d]
  BY DEF GithubTypes
<1>2. \E S : log' \in Seq(S)
  BY Written DEF GithubTypes
<1>3. GithubTypes'
  BY <1>1, <1>2 DEF GithubTypes, Tasks
<1>4. ASSUME NEW d \in Calls PROVE CallInOrder(d, task[d])'
  <2> PICK v : v = task'[d]
    OBVIOUS
  <2>1. CASE d = c
    BY <1>1, <2>1 DEF CallInOrder, InPlace, WrittenOnce, IdIsOfIssue, ReadBehindWrite
  <2>2. CASE d # c
    <3>1. v = task[d] /\ CallInOrder(d, v) /\ v.seen \in Nat
      BY <1>1, <2>2 DEF CallsInOrder, GithubTypes, Tasks
    <3>2. \E S : log \in Seq(S)
      BY DEF GithubTypes
    <3>3. CallInOrder(d, v)'
      BY <2>2, <3>1, <3>2, OtherWrites
    <3> QED
      BY <3>3 DEF CallInOrder, InPlace, WrittenOnce, IdIsOfIssue, ReadBehindWrite
  <2> QED
    BY <2>1, <2>2
<1> QED
  BY <1>3, <1>4 DEF CallsInOrder

\* A request arrives.
LEMMA ArrivesKeeps ==
  ASSUME GithubTypes, CallsInOrder, NEW c \in Calls, Arrives(c)
  PROVE  GithubTypes' /\ CallsInOrder'
<1> PICK t, r : t = task[c] /\ r = Requests(t.in)[t.at]
  OBVIOUS
<1>1. /\ t \in Tasks /\ CallInOrder(c, t) /\ t.pc = "send" /\ t.in \in Inputs
      /\ \E S : log \in Seq(S)
      /\ clock' \in Int /\ expires' \in Int
  BY DEF Arrives, GithubTypes, CallsInOrder, CallInOrder, InPlace
<1>2. Effect(c, r)
  BY DEF Arrives
<1>3. t.at \in 1..Len(Requests(t.in))
  <2>1. t.at \in 1..5 /\ t.at <= Len(Requests(t.in))
    BY <1>1 DEF CallInOrder, InPlace, UnderWay, Tasks
  <2>2. Len(Requests(t.in)) \in 1..5
    BY <1>1, InputsHaveRequests
  <2> QED
    BY <2>1, <2>2
<1>4. /\ WritePlace(t.in) = t.at <=> r.kind \in {"add", "remove", "create", "update"}
      /\ WritePlace(t.in) = 2 /\ t.at = 2 => r = [kind |-> t.in.tool, n |-> t.in.y]
      /\ r.kind \in {"add", "remove"} => WritePlace(t.in) = 2
      /\ r.kind = "create" => t.in.tool = "create_milestone"
      /\ r.kind = "update" => t.in.tool = "update_milestone" /\ r.n = t.in.x
  BY <1>1, <1>3, RequestsOf
<1>5. ASSUME NEW u \in Tasks, task' = [task EXCEPT ![c] = u], UNCHANGED log,
             u.pc = "reply", u.in = t.in, u.at = t.at, u.answer = t.answer,
             r.kind \notin {"add", "remove", "create", "update"},
             r.kind = "issue" => r.n \in Issues /\ u.id = IdOf[r.n],
             IF r.kind = "blocked_by"
               THEN /\ u.seen = Len(log)
                    /\ u.blockedBy \in Pages({m \in Issues : <<r.n, m>> \in Edges(Len(log))})
               ELSE u.seen = t.seen /\ u.blockedBy = t.blockedBy
      PROVE  GithubTypes' /\ CallsInOrder'
  <2>1. CallInOrder(c, u)
    BY <1>1, <1>5, ReadKeeps
  <2> QED
    BY <1>1, <1>5, <2>1, CallMoves
<1>6. ASSUME NEW u, u = [t EXCEPT !.pc = "reply"], task' = [task EXCEPT ![c] = u],
             NEW w, log' = Append(log, w), w.by = c, WritePlace(t.in) = t.at,
             [kind |-> w.kind, about |-> w.about] \in Wanted(t.in)'
      PROVE  GithubTypes' /\ CallsInOrder'
  <2>1. /\ u \in Tasks /\ u.pc = "reply" /\ u.in = t.in /\ u.at = t.at /\ u.answer = t.answer
        /\ u.id = t.id
    BY <1>1, <1>6 DEF Tasks, UnderWay
  <2>2. CallInOrder(c, u)'
    BY <1>1, <1>6, <2>1, WriteKeeps
  <2> QED
    BY <1>1, <1>6, <2>1, <2>2, CallWrites
<1>7. CASE r.kind = "issue" /\ r.n \in Issues /\ UNCHANGED log
           /\ task' = [task EXCEPT ![c] = [task[c] EXCEPT !.pc = "reply", !.id = IdOf[r.n]]]
  <2> PICK u : u = [t EXCEPT !.pc = "reply", !.id = IdOf[r.n]]
    OBVIOUS
  <2>1. /\ u \in Tasks /\ u.pc = "reply" /\ u.in = t.in /\ u.at = t.at /\ u.answer = t.answer
        /\ u.id = IdOf[r.n] /\ u.seen = t.seen /\ u.blockedBy = t.blockedBy
    BY <1>1, <1>7 DEF Tasks, UnderWay
  <2> QED
    BY <1>5, <1>7, <2>1
<1>8. CASE /\ r.kind = "blocked_by" /\ UNCHANGED log
           /\ \E page \in Pages({m \in Issues : <<r.n, m>> \in Edges(Len(log))}) :
                task' = [task EXCEPT ![c] = [task[c] EXCEPT !.pc = "reply", !.blockedBy = page,
                                                            !.seen = Len(log)]]
  <2>1. PICK page \in Pages({m \in Issues : <<r.n, m>> \in Edges(Len(log))}) :
          task' = [task EXCEPT ![c] = [task[c] EXCEPT !.pc = "reply", !.blockedBy = page,
                                                      !.seen = Len(log)]]
    BY <1>8
  <2> PICK u : u = [t EXCEPT !.pc = "reply", !.blockedBy = page, !.seen = Len(log)]
    OBVIOUS
  <2>2. page \in SUBSET Issues /\ Len(log) \in Nat
    <3>1. page \in SUBSET Issues
      BY <2>1 DEF Pages
    <3>2. PICK S : log \in Seq(S)
      BY <1>1
    <3> QED
      BY <3>1, <3>2
  <2>3. /\ u \in Tasks /\ u.pc = "reply" /\ u.in = t.in /\ u.at = t.at /\ u.answer = t.answer
        /\ u.seen = Len(log) /\ u.blockedBy = page
    BY <1>1, <2>2 DEF Tasks, UnderWay
  <2> QED
    BY <1>5, <1>8, <2>1, <2>3
<1>9. CASE r.kind \in {"milestones", "blocking"} /\ UNCHANGED log
           /\ task' = [task EXCEPT ![c] = [task[c] EXCEPT !.pc = "reply"]]
  <2> PICK u : u = [t EXCEPT !.pc = "reply"]
    OBVIOUS
  <2>1. /\ u \in Tasks /\ u.pc = "reply" /\ u.in = t.in /\ u.at = t.at /\ u.answer = t.answer
        /\ u.seen = t.seen /\ u.blockedBy = t.blockedBy
    BY <1>1 DEF Tasks, UnderWay
  <2> QED
    BY <1>5, <1>9, <2>1
<1>10. CASE /\ r.kind \in {"add", "remove"}
            /\ \E m \in Named(SentID(c)) : Write(c, r.kind, <<r.n, m>>, {})
            /\ task' = [task EXCEPT ![c] = [task[c] EXCEPT !.pc = "reply"]]
  <2>1. PICK m \in Named(SentID(c)) : Write(c, r.kind, <<r.n, m>>, {})
    BY <1>10
  <2>2. WritePlace(t.in) = 2 /\ t.at = 2 /\ r = [kind |-> t.in.tool, n |-> t.in.y]
    BY <1>4, <1>10
  <2>3. t.in.x \in Issues /\ t.id = IdOf[t.in.x]
    BY <1>1, <2>2 DEF CallInOrder, IdIsOfIssue, Past, UnderWay
  <2>4. m = t.in.x
    BY <2>1, <2>3, GithubAssumption DEF Named, SentID
  <2> PICK w : w = [by |-> c, kind |-> r.kind, about |-> <<r.n, m>>, fields |-> {}]
    OBVIOUS
  <2>5. w.by = c /\ w.kind = t.in.tool /\ w.about = <<t.in.y, t.in.x>> /\ log' = Append(log, w)
    BY <2>1, <2>2, <2>4 DEF Write
  <2>6. [kind |-> w.kind, about |-> w.about] \in Wanted(t.in)'
    BY <1>10, <2>2, <2>5 DEF Wanted
  <2> QED
    BY <1>6, <1>10, <2>2, <2>5, <2>6
<1>11. CASE /\ r.kind = "create"
            /\ \E n, fs : Write(c, "create", <<n>>, fs)
            /\ task' = [task EXCEPT ![c] = [task[c] EXCEPT !.pc = "reply"]]
  <2>1. PICK n, fs : Write(c, "create", <<n>>, fs)
    BY <1>11
  <2> PICK w : w = [by |-> c, kind |-> "create", about |-> <<n>>, fields |-> fs]
    OBVIOUS
  <2>2. w.by = c /\ w.kind = "create" /\ w.about = <<n>> /\ w.about[1] = n /\ log' = Append(log, w)
    BY <2>1 DEF Write
  <2>3. n \in MilestonesNow'
    <3>1. Len(log) + 1 \in DOMAIN log' /\ log'[Len(log) + 1] = w
      BY <1>1, <2>2, Written
    <3> QED
      BY <2>2, <3>1 DEF MilestonesNow
  <2>4. t.in.tool = "create_milestone" /\ WritePlace(t.in) = t.at
    BY <1>4, <1>11
  <2>5. [kind |-> w.kind, about |-> w.about] \in Wanted(t.in)'
    BY <2>2, <2>3, <2>4 DEF Wanted
  <2> QED
    BY <1>6, <1>11, <2>2, <2>4, <2>5
<1>12. CASE /\ r.kind = "update"
            /\ \E fs : Write(c, "update", <<r.n>>, fs)
            /\ task' = [task EXCEPT ![c] = [task[c] EXCEPT !.pc = "reply"]]
  <2>1. PICK fs : Write(c, "update", <<r.n>>, fs)
    BY <1>12
  <2> PICK w : w = [by |-> c, kind |-> "update", about |-> <<r.n>>, fields |-> fs]
    OBVIOUS
  <2>2. w.by = c /\ w.kind = "update" /\ w.about = <<r.n>> /\ log' = Append(log, w)
    BY <2>1 DEF Write
  <2>3. t.in.tool = "update_milestone" /\ r.n = t.in.x /\ WritePlace(t.in) = t.at
    BY <1>4, <1>12
  <2>4. [kind |-> w.kind, about |-> w.about] \in Wanted(t.in)'
    BY <2>2, <2>3 DEF Wanted
  <2> QED
    BY <1>6, <1>12, <2>2, <2>3, <2>4
<1> QED
  BY <1>2, <1>7, <1>8, <1>9, <1>10, <1>11, <1>12 DEF Effect

\* The steps of a call keep what is known of the calls.
LEMMA CallKeepsOrder ==
  ASSUME GithubTypes, CallsInOrder, NEW c \in Calls,
         \/ \E in \in Inputs : Run(c, in)
         \/ TakeCached(c) \/ AskForToken(c) \/ TokenArrives(c)
         \/ RequestFails(c) \/ Arrives(c) \/ ReplyArrives(c) \/ ReplyLost(c)
  PROVE  GithubTypes' /\ CallsInOrder'
<1> PICK t : t = task[c]
  OBVIOUS
<1>1. /\ t \in Tasks /\ CallInOrder(c, t) /\ task \in [Calls -> Tasks]
      /\ clock \in Int /\ expires \in Int
  BY DEF GithubTypes, CallsInOrder
<1>2. CASE \E in \in Inputs : Run(c, in)
  <2>1. PICK in \in Inputs : Run(c, in)
    BY <1>2
  <2> PICK u : u = IF Refused(in) THEN [Idle EXCEPT !.in = in, !.pc = "done", !.answer = "error"]
                                  ELSE [Idle EXCEPT !.in = in, !.pc = "token"]
    OBVIOUS
  <2>2. t.pc = "idle" /\ task' = [task EXCEPT ![c] = u] /\ UNCHANGED <<clock, expires, log>>
    BY <2>1 DEF Run
  <2>3. u \in Tasks /\ CallInOrder(c, u)
    BY <1>1, <2>2, Started
  <2> QED
    BY <1>1, <2>2, <2>3, CallMoves
<1>3. CASE TakeCached(c)
  <2> PICK u : u = [t EXCEPT !.pc = "send", !.token = expires]
    OBVIOUS
  <2>1. /\ t.pc = "token" /\ task' = [task EXCEPT ![c] = u] /\ UNCHANGED <<clock, expires, log>>
    BY <1>1, <1>3 DEF TakeCached
  <2>2. /\ u \in Tasks /\ u.pc = "send" /\ u.in = t.in /\ u.at = t.at /\ u.id = t.id
        /\ u.blockedBy = t.blockedBy /\ u.seen = t.seen /\ u.answer = t.answer
    BY <1>1 DEF Tasks, UnderWay
  <2>3. CallInOrder(c, u)
    BY <1>1, <2>1, <2>2, TokenSteps
  <2> QED
    BY <1>1, <2>1, <2>2, <2>3, CallMoves
<1>4. CASE AskForToken(c)
  <2> PICK u : u = [t EXCEPT !.pc = "mint"]
    OBVIOUS
  <2>1. /\ t.pc = "token" /\ task' = [task EXCEPT ![c] = u] /\ UNCHANGED <<clock, expires, log>>
    BY <1>1, <1>4 DEF AskForToken
  <2>2. /\ u \in Tasks /\ u.pc = "mint" /\ u.in = t.in /\ u.at = t.at /\ u.id = t.id
        /\ u.blockedBy = t.blockedBy /\ u.seen = t.seen /\ u.answer = t.answer
    BY <1>1 DEF Tasks, UnderWay
  <2>3. CallInOrder(c, u)
    BY <1>1, <2>1, <2>2, TokenSteps
  <2> QED
    BY <1>1, <2>1, <2>2, <2>3, CallMoves
<1>5. ASSUME t.pc \in UnderWay, Answers(c, "error"), UNCHANGED <<clock, expires, log>>
      PROVE  GithubTypes' /\ CallsInOrder'
  <2> PICK u : u = [t EXCEPT !.pc = "done", !.answer = "error"]
    OBVIOUS
  <2>1. task' = [task EXCEPT ![c] = u]
    BY <1>1, <1>5 DEF Answers
  <2>2. u \in Tasks /\ CallInOrder(c, u)
    BY <1>1, <1>5, EndsInError
  <2> QED
    BY <1>1, <1>5, <2>1, <2>2, CallMoves
<1>6. CASE TokenArrives(c)
  <2>1. CASE /\ expires' = clock + Life
             /\ task' = [task EXCEPT ![c].pc = "send", ![c].token = expires']
    <3> PICK u : u = [t EXCEPT !.pc = "send", !.token = expires']
      OBVIOUS
    <3>1. /\ t.pc = "mint" /\ task' = [task EXCEPT ![c] = u] /\ UNCHANGED <<clock, log>>
      BY <1>1, <1>6, <2>1 DEF TokenArrives
    <3>2. expires' \in Int
      BY <1>1, <2>1, GithubAssumption
    <3>3. /\ u \in Tasks /\ u.pc = "send" /\ u.in = t.in /\ u.at = t.at /\ u.id = t.id
          /\ u.blockedBy = t.blockedBy /\ u.seen = t.seen /\ u.answer = t.answer
      BY <1>1, <3>2 DEF Tasks, UnderWay
    <3>4. CallInOrder(c, u)
      BY <1>1, <3>1, <3>3, TokenSteps
    <3> QED
      BY <1>1, <3>1, <3>2, <3>3, <3>4, CallMoves
  <2>2. CASE Answers(c, "error") /\ UNCHANGED expires
    BY <1>5, <1>6, <2>2 DEF TokenArrives, UnderWay
  <2> QED
    BY <1>6, <2>1, <2>2 DEF TokenArrives
<1>7. CASE RequestFails(c) \/ ReplyLost(c)
  BY <1>5, <1>7 DEF RequestFails, ReplyLost, UnderWay
<1>8. CASE Arrives(c)
  BY <1>8, ArrivesKeeps
<1>9. CASE ReplyArrives(c)
  <2> PICK u : u = IF t.at = Len(Requests(t.in)) THEN [t EXCEPT !.pc = "done", !.answer = "ok"]
                                                 ELSE [t EXCEPT !.pc = "token", !.at = @ + 1]
    OBVIOUS
  <2>1. t.pc = "reply" /\ task' = [task EXCEPT ![c] = u] /\ UNCHANGED <<clock, expires, log>>
    <3>1. CASE t.at = Len(Requests(t.in))
      BY <1>1, <1>9, <3>1 DEF ReplyArrives, Answers
    <3>2. CASE t.at # Len(Requests(t.in))
      BY <1>1, <1>9, <3>2 DEF ReplyArrives
    <3> QED
      BY <3>1, <3>2
  <2>2. u \in Tasks /\ CallInOrder(c, u)
    BY <1>1, <2>1, Answered
  <2> QED
    BY <1>1, <2>1, <2>2, CallMoves
<1> QED
  BY <1>2, <1>3, <1>4, <1>6, <1>7, <1>8, <1>9

\* Who asks for a token holds the mutex, and nothing makes the cached one good again
\* but the token it gets.
LEMMA MintKept ==
  ASSUME GithubTypes, MintHolds, NEW c \in Calls,
         \/ \E in \in Inputs : Run(c, in)
         \/ TakeCached(c) \/ AskForToken(c) \/ TokenArrives(c)
         \/ RequestFails(c) \/ Arrives(c) \/ ReplyArrives(c) \/ ReplyLost(c)
  PROVE  MintHolds'
<1>1. CASE AskForToken(c)
  <2>1. \A d \in Calls : task[d].pc # "mint"
    BY <1>1, GithubAssumption DEF AskForToken, MintHolds
  <2> QED
    BY <1>1, <2>1 DEF AskForToken, MintHolds, Good, GithubTypes
<1>2. CASE TokenArrives(c)
  <2>1. \A d \in Calls \ {c} : task[d].pc # "mint"
    BY <1>2 DEF TokenArrives, MintHolds
  <2>2. task'[c].pc # "mint" /\ \A d \in Calls \ {c} : task'[d] = task[d]
    BY <1>2 DEF TokenArrives, Answers, GithubTypes, Tasks
  <2> QED
    BY <2>1, <2>2 DEF MintHolds
<1>3. ASSUME UNCHANGED <<clock, expires, holder>>,
             \A d \in Calls : task'[d].pc = "mint" => task[d].pc = "mint"
      PROVE  MintHolds'
  BY <1>3 DEF MintHolds, Good
<1>4. CASE \E in \in Inputs : Run(c, in)
  BY <1>3, <1>4, ZenonT(40) DEF Run, GithubTypes, Tasks, Idle
<1>5. CASE TakeCached(c)
  BY <1>3, <1>5 DEF TakeCached, GithubTypes, Tasks
<1>6. CASE RequestFails(c) \/ ReplyLost(c)
  BY <1>3, <1>6 DEF RequestFails, ReplyLost, Answers, GithubTypes, Tasks
<1>7. CASE Arrives(c)
  <2>1. \A d \in Calls : task'[d].pc = "mint" => task[d].pc = "mint"
    BY <1>7, ZenonT(40) DEF Arrives, Effect, GithubTypes, Tasks
  <2> QED
    BY <1>3, <1>7, <2>1 DEF Arrives
<1>8. CASE ReplyArrives(c)
  BY <1>3, <1>8, ZenonT(40) DEF ReplyArrives, Answers, GithubTypes, Tasks
<1> QED
  BY <1>1, <1>2, <1>4, <1>5, <1>6, <1>7, <1>8

\* At first no call has asked for anything, and the writes are those of others.
LEMMA GithubStart ==
  ASSUME GithubInit
  PROVE  GInv
<1>1. clock = 0 /\ expires = 0 /\ log = Before /\ task = [c \in Calls |-> Idle]
  BY DEF GithubInit
<1>2. /\ Idle \in Tasks /\ Idle.pc = "idle" /\ Idle.answer = "none"
  <2>1. Idle \in [pc : {"idle"}, in : {NoOne}, at : {1}, token : {0}, id : {0},
                  blockedBy : {{}}, seen : {0}, answer : {"none"}]
    BY DEF Idle
  <2> QED
    BY <2>1 DEF Tasks, Idle
<1>3. GithubTypes
  <2>1. \E S : log \in Seq(S)
    BY <1>1, GithubAssumption
  <2>2. task \in [Calls -> Tasks]
    BY <1>1, <1>2
  <2> QED
    BY <1>1, <2>1, <2>2 DEF GithubTypes
<1>4. MintHolds
  BY <1>1, <1>2 DEF MintHolds
<1>5. ASSUME NEW c \in Calls PROVE CallInOrder(c, Idle)
  <2>1. \A i \in DOMAIN Before : Before[i].by = NoOne
    <3> DEFINE S == [by : {NoOne}, kind : {"add", "remove", "create", "update"},
                     about : Seq(Int), fields : SUBSET {"title", "description"}]
    <3>1. Before \in Seq(S) /\ \A w \in S : w.by = NoOne
      BY GithubAssumption
    <3> HIDE DEF S
    <3> QED
      BY <3>1
  <2>2. WritesOf(c) = {}
    BY <1>1, <2>1, GithubAssumption DEF WritesOf
  <2> QED
    BY <1>2, <2>2 DEF CallInOrder, InPlace, WrittenOnce, IdIsOfIssue, ReadBehindWrite, Past,
                      UnderWay
<1>6. CallsInOrder
  BY <1>1, <1>5 DEF CallsInOrder
<1> QED
  BY <1>3, <1>4, <1>6 DEF GInv

\* Every step keeps the invariant.
LEMMA GithubSteps ==
  ASSUME GInv, [GithubNext]_ghVars
  PROVE  GInv'
<1>1. ASSUME NEW c \in Calls,
             \/ \E in \in Inputs : Run(c, in)
             \/ TakeCached(c) \/ AskForToken(c) \/ TokenArrives(c)
             \/ RequestFails(c) \/ Arrives(c) \/ ReplyArrives(c) \/ ReplyLost(c)
      PROVE  GInv'
  BY <1>1, CallKeepsOrder, MintKept DEF GInv
<1>2. ASSUME UNCHANGED <<expires, holder, task, log>>, clock' \in Int, clock' >= clock
      PROVE  GInv'
  <2>1. GithubTypes'
    BY <1>2 DEF GInv, GithubTypes, Tasks
  <2>2. MintHolds'
    <3> PICK a, b, m : a = clock /\ b = clock' /\ m = Margin
      OBVIOUS
    <3>1. a \in Int /\ b \in Int /\ b >= a /\ m \in Int /\ expires \in Int
      BY <1>2, GithubAssumption DEF GInv, GithubTypes
    <3>2. ~(a + m < expires) => ~(b + m < expires)
      BY ONLY <3>1
    <3>3. ~Good => ~Good'
      BY <1>2, <3>2 DEF Good
    <3> QED
      BY <1>2, <3>3 DEF GInv, MintHolds
  <2>3. ASSUME NEW c \in Calls PROVE CallInOrder(c, task[c])'
    <3> PICK v : v = task[c]
      OBVIOUS
    <3>1. CallInOrder(c, v)'
      BY <1>2, NothingWritten DEF GInv, CallsInOrder
    <3> QED
      BY <1>2, <3>1 DEF CallInOrder, InPlace, WrittenOnce, IdIsOfIssue, ReadBehindWrite
  <2> QED
    BY <2>1, <2>2, <2>3 DEF GInv, CallsInOrder
<1>3. CASE Tick
  BY <1>2, <1>3 DEF Tick, GInv, GithubTypes
<1>4. CASE UNCHANGED ghVars
  BY <1>2, <1>4 DEF ghVars, GInv, GithubTypes
<1> QED
  BY <1>1, <1>3, <1>4 DEF GithubNext

\* GithubSound holds of what the invariant says.
LEMMA GithubInvariantIsSound ==
  ASSUME GInv
  PROVE  GithubSound
<1>1. OneTokenAtATime
  BY DEF GInv, MintHolds, OneTokenAtATime
<1>2. ASSUME NEW c \in Calls
      PROVE  /\ InPlace(task[c]) /\ WrittenOnce(c, task[c]) /\ ReadBehindWrite(c, task[c])
             /\ task[c].pc # "idle" => task[c].in \in Inputs /\ task[c].in.tool \in Tools
             /\ task[c].answer = "ok" \/ WritesOf(c) # {} => task[c].pc # "idle"
  BY GithubAssumption DEF GInv, CallsInOrder, CallInOrder, InPlace, WrittenOnce
<1>3. ASSUME NEW in, in.tool \in Tools
      PROVE  Wanted(in) # {} => WritePlace(in) > 0
  BY <1>3 DEF Tools, Wanted, WritePlace
<1>4. WritesAsAsked
  <2> SUFFICES ASSUME NEW c \in Calls
               PROVE  /\ Cardinality(WritesOf(c)) <= 1
                      /\ \A i \in WritesOf(c) :
                           [kind |-> log[i].kind, about |-> log[i].about] \in Wanted(task[c].in)
                      /\ task[c].answer = "ok" /\ Wanted(task[c].in) # {} => WritesOf(c) # {}
    BY DEF WritesAsAsked
  <2>1. Cardinality(WritesOf(c)) <= 1
    <3>1. \A i, j \in WritesOf(c) : i = j
      BY <1>2 DEF WrittenOnce
    <3>2. CASE WritesOf(c) = {}
      BY <3>2, FS_EmptySet
    <3>3. CASE WritesOf(c) # {}
      <4>1. PICK i : WritesOf(c) = {i}
        BY <3>1, <3>3
      <4> QED
        BY <4>1, FS_Singleton
    <3> QED
      BY <3>2, <3>3
  <2>2. \A i \in WritesOf(c) :
           [kind |-> log[i].kind, about |-> log[i].about] \in Wanted(task[c].in)
    BY <1>2 DEF WrittenOnce
  <2>3. ASSUME task[c].answer = "ok", Wanted(task[c].in) # {} PROVE WritesOf(c) # {}
    <3>1. WritePlace(task[c].in) > 0
      BY <1>2, <1>3, <2>3
    <3> QED
      BY <1>2, <2>3, <3>1 DEF WrittenOnce
  <2> QED
    BY <2>1, <2>2, <2>3
<1>5. AnswersAfterWrite
  <2> SUFFICES ASSUME NEW c \in Calls, NEW i \in WritesOf(c), NEW t, t = task[c],
                      t.answer = "ok", t.in.tool \in {"add", "remove"},
                      \A k \in i + 1..t.seen : log[k].about # log[i].about
               PROVE  IF t.in.tool = "add"
                        THEN t.in.x \in t.blockedBy \/ Cardinality(t.blockedBy) = PageSize
                        ELSE t.in.x \notin t.blockedBy
    BY DEF AnswersAfterWrite
  <2>1. WritePlace(t.in) = 2 /\ Wanted(t.in) = {[kind |-> t.in.tool, about |-> <<t.in.y, t.in.x>>]}
    BY DEF WritePlace, Wanted
  <2>2. /\ t.seen <= Len(log) /\ WritesOf(c) \subseteq 1..t.seen
        /\ t.blockedBy \in Pages({m \in Issues : <<t.in.y, m>> \in Edges(t.seen)})
        /\ t.in.x \in Issues
    BY <1>2, <2>1 DEF ReadBehindWrite, WrittenOnce
  <2>3. log[i].kind = t.in.tool /\ log[i].about = <<t.in.y, t.in.x>>
    BY <1>2, <2>1 DEF WrittenOnce
  <2>4. i \in 1..t.seen /\ t.seen \in Nat
    BY <2>2 DEF GInv, GithubTypes, Tasks
  <2>5. CASE t.in.tool = "add"
    <3>1. <<t.in.y, t.in.x>> \in Edges(t.seen)
      BY <2>3, <2>4, <2>5 DEF Edges, Standing
    <3> QED
      BY <2>2, <2>5, <3>1 DEF Pages
  <2>6. CASE t.in.tool = "remove"
    <3> SUFFICES ASSUME t.in.x \in t.blockedBy PROVE FALSE
      BY <2>6
    <3>1. <<t.in.y, t.in.x>> \in Edges(t.seen)
      BY <2>2 DEF Pages
    <3>2. PICK j \in 1..t.seen :
            /\ log[j].kind = "add" /\ log[j].about = <<t.in.y, t.in.x>>
            /\ \A k \in j + 1..t.seen : log[k].about # log[j].about \/ log[k].kind = "add"
      BY <3>1 DEF Edges, Standing
    <3>3. j \notin i + 1..t.seen
      BY <2>3, <3>2
    <3>4. j # i
      BY <2>3, <2>6, <3>2
    <3>5. i \in j + 1..t.seen
      BY <2>4, <3>3, <3>4
    <3> QED
      BY <2>3, <2>6, <3>2, <3>5
  <2> QED
    BY <2>5, <2>6
<1> QED
  BY <1>1, <1>4, <1>5 DEF GithubSound

\* GithubSound for any calls, inputs, issues, and writes of others, and any page
\* size (integrations/github auth.go Token, client.go AddBlockedBy, RemoveBlockedBy,
\* do): one token is asked for at a time; a call writes at most once and what it was
\* asked to; and the issue it answers with was read after its write.
THEOREM GithubToolsSound == GithubSpec => []GithubSound
<1>1. GithubInit => GInv
  BY GithubStart
<1>2. GInv /\ [GithubNext]_ghVars => GInv'
  BY GithubSteps
<1>3. GInv => GithubSound
  BY GithubInvariantIsSound
<1> QED
  BY <1>1, <1>2, <1>3, PTL DEF GithubSpec
==============================================================================
