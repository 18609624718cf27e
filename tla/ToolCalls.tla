----------------------------- MODULE ToolCalls -----------------------------
(***************************************************************************)
(* Tools: how they get their names (pkg/tools, the tool names of           *)
(* pkg/llm/providers/openai), how a call of the model finds its tool, and  *)
(* how a reply finds its surface (pkg/comms/reply.go).                     *)
(*                                                                         *)
(* A tool's name is made of characters and changes on its way: a server's  *)
(* name is normalised into the name it is registered under, and that into  *)
(* one the provider takes.  The call comes back by the last name.          *)
(***************************************************************************)
EXTENDS Integers, Sequences, FiniteSets, SequencesExt

CONSTANTS
  NativeNames,   \* the names of the program's own tools, "reply" not among them
  ServerLists,   \* the lists of names the tool server may advertise
  Prefix,        \* the prefix of its tools
  ReplyName,     \* the name of the reply tool
  NameCap,       \* the longest name the provider takes (64)
  Schemes,       \* the schemes of sessions
  Handlers       \* the scheme of each reply handler, in the order of the router

VARIABLES
  waiting,    \* tools that are not registered yet
  registry,   \* registered tools
  phase,      \* "build", "init", "serving", or "failed" to start
  session,    \* the connection to the tool server is open
  request,    \* the call under way: whose session, the tool called for, its name,
              \* and whether it has found the connection open
  effects,    \* what a tool did for it
  answer      \* what the model is told

toolVars == <<waiting, registry, phase, session, request, effects, answer>>

NoCall == [scheme |-> "", wanted |-> <<>>, name |-> <<>>, checked |-> FALSE]

-----------------------------------------------------------------------------
(* Names.                                                                     *)

Letters == {"a", "b", "g", "r"}
Capital == [a |-> "A", b |-> "B", g |-> "G", r |-> "R"]
Lower(c) == IF \E l \in Letters : Capital[l] = c
              THEN CHOOSE l \in Letters : Capital[l] = c ELSE c

\* toolNameSnakeCase.
SnakeCase(name) ==
  /\ name # <<>> /\ name[1] \in Letters
  /\ ToSet(name) \subseteq Letters \union {"_"}

\* Other characters, and runs of them, become one underscore; none at either end.
Squeeze(name) ==
  LET plain(i) == name[i] \in Letters
      kept == {i \in DOMAIN name : plain(i) \/ (i > 1 /\ plain(i - 1))}
      order == SetToSortSeq({i \in kept : plain(i) \/ \E j \in DOMAIN name : j > i /\ plain(j)},
                            LAMBDA i, j : i < j)
  IN  [k \in DOMAIN order |-> IF plain(order[k]) THEN name[order[k]] ELSE "_"]

normalizeMCPToolName(prefix, name) ==
  LET raw == prefix \o <<"_">> \o name
  IN  Squeeze([i \in DOMAIN raw |-> Lower(raw[i])])

\* openAIToolName: what is left of a name of a registered tool.
openAIToolName(name) ==
  LET n == IF Len(name) < NameCap THEN Len(name) ELSE NameCap
  IN  [i \in 1..n |-> IF name[i] \in Letters \union {"_"} THEN name[i] ELSE "_"]

-----------------------------------------------------------------------------
(* Registration: the tools of initTools, then those of the integrations.      *)

Native(name) == [kind |-> "typed", name |-> name, server |-> <<>>]
Reply        == [kind |-> "reply", name |-> ReplyName, server |-> <<>>]
NewMCPTool(name) == [kind |-> "mcp", name |-> normalizeMCPToolName(Prefix, name), server |-> name]

ToolsInit ==
  /\ waiting = <<>> /\ registry = {} /\ phase = "build" /\ session = FALSE
  /\ request = NoCall /\ effects = {} /\ answer = "none"

\* buildIntegrations, startMCP: the token, the connection, or the list of tools
\* fails; or the server advertises its tools.  Without a server there is no list.
Build ==
  /\ phase = "build"
  /\ \/ phase' = "failed" /\ UNCHANGED <<waiting, session>>
     \/ \E list \in ServerLists :
          /\ waiting' = <<Reply>> \o [i \in DOMAIN NativeNames |-> Native(NativeNames[i])]
                          \o [i \in DOMAIN list |-> NewMCPTool(list[i])]
          /\ phase' = "init" /\ session' = (list # <<>>)
  /\ UNCHANGED <<registry, request, effects, answer>>

\* Register: a bad or a duplicate name ends the start of the program.
Register ==
  /\ phase = "init" /\ waiting # <<>>
  /\ LET tool == Head(waiting)
         taken == \E t \in registry : t.name = tool.name
     IN  IF SnakeCase(tool.name) /\ ~taken
           THEN registry' = registry \union {tool} /\ UNCHANGED phase
           ELSE phase' = "failed" /\ UNCHANGED registry
  /\ waiting' = Tail(waiting)
  /\ UNCHANGED <<session, request, effects, answer>>

Serve ==
  /\ phase = "init" /\ waiting = <<>>
  /\ phase' = "serving"
  /\ UNCHANGED <<waiting, registry, session, request, effects, answer>>

-----------------------------------------------------------------------------
(* A request to the model, and the call in its reply.                         *)

\* A plausible bug: the later name silently takes the place of the earlier.
Undisputed(names) == TRUE

\* mapTools: no two names may become one.
Distinct(names) == \A m, n \in names : openAIToolName(m) = openAIToolName(n) => m = n

\* toolNameMaps.fromOpenAI: the last one mapped wins; a name that was never shown
\* stays as it is.
FromOpenAI(names, shown) ==
  LET of == {n \in names : openAIToolName(n) = shown}
  IN  IF of = {} THEN shown ELSE CHOOSE n \in of : TRUE

Names == {t.name : t \in registry}

\* Complete: the model asks for one of the tools, by the name it was shown, or for
\* one there is not.  With two names alike the request is an error.
ModelCalls(scheme, wanted) ==
  /\ phase = "serving" /\ request = NoCall
  /\ Distinct(Names)
  /\ request' = [scheme |-> scheme, wanted |-> wanted,
                 name |-> FromOpenAI(Names, openAIToolName(wanted)), checked |-> FALSE]
  /\ effects' = {} /\ answer' = "none"
  /\ UNCHANGED <<waiting, registry, phase, session>>

\* Registry.Run of a name that is not registered.
UnknownTool ==
  /\ request # NoCall /\ request.name \notin Names
  /\ answer' = "error" /\ request' = NoCall
  /\ UNCHANGED <<waiting, registry, phase, session, effects>>

\* CallTool sees that the connection is open.
CheckSession(t) ==
  /\ request # NoCall /\ t.name = request.name /\ t.kind = "mcp" /\ ~request.checked
  /\ session
  /\ request' = [request EXCEPT !.checked = TRUE]
  /\ UNCHANGED <<waiting, registry, phase, session, effects, answer>>

\* TypedTool.Run and MCPTool.Run: the arguments do not decode, the function or the
\* server fails, and the answer says so; or it is what they return.  The server is
\* asked under its own name, over the connection that CallTool saw open; when it was
\* closed since, the handler panics and the model is told nothing.
RunTool(t) ==
  /\ request # NoCall /\ t.name = request.name /\ t.kind # "reply"
  /\ t.kind = "mcp" => request.checked \/ ~session
  /\ \/ UNCHANGED effects /\ answer' = "fail"
     \/ t.kind = "mcp" /\ request.checked /\ ~session /\ UNCHANGED effects /\ answer' = "panic"
     \/ /\ t.kind = "mcp" => request.checked /\ session
        /\ effects' = {[tool |-> t.name, server |-> t.server, wanted |-> request.wanted,
                        surface |-> "", scheme |-> request.scheme]}
        /\ answer' \in {"ok", "fail"}
  /\ request' = NoCall
  /\ UNCHANGED <<waiting, registry, phase, session>>

\* Host.Stop closes the integration while handlers may still run.
Close ==
  /\ phase = "serving" /\ session
  /\ session' = FALSE
  /\ UNCHANGED <<waiting, registry, phase, request, effects, answer>>

\* A plausible bug: a session without a handler is answered by some other one.
AnyHandler(scheme) == {Handlers[i] : i \in DOMAIN Handlers}

\* The handler of a scheme, the last one given for it.
HandlerOf(scheme) == {Handlers[i] : i \in DOMAIN Handlers} \intersect {scheme}

\* ReplyRouter.Run: bad arguments, no session, or no handler; or the surface takes
\* the text or refuses it.
RunReply ==
  /\ request # NoCall /\ request.name = ReplyName
  /\ \/ UNCHANGED effects /\ answer' = "fail"
     \/ \E h \in HandlerOf(request.scheme) :
          /\ effects' = {[tool |-> ReplyName, server |-> <<>>, wanted |-> request.wanted,
                          surface |-> h, scheme |-> request.scheme]}
          /\ answer' = "ok"
  /\ request' = NoCall
  /\ UNCHANGED <<waiting, registry, phase, session>>

ToolsNext ==
  \/ Build \/ Register \/ Serve \/ Close
  \/ \E s \in Schemes, w \in Names \union {<<"b", "b", "b">>} : ModelCalls(s, w)
  \/ UnknownTool \/ RunReply
  \/ \E t \in registry : CheckSession(t) \/ RunTool(t)

ToolsSpec == ToolsInit /\ [][ToolsNext]_toolVars

-----------------------------------------------------------------------------
(* Properties.                                                                *)

\* Whatever a server calls its tools: what runs for a call is the very tool the
\* model meant, under the name its server knows, or nothing; a reply goes to the
\* surface its session came from; and "ok" is never said when nothing ran
\* (registry.go, mcp.go, openai client.go mapTools, reply.go).
CallsReachTheirTool ==
  /\ \A x \in effects :
       /\ x.tool = x.wanted \/ x.wanted \notin Names
       /\ x.tool = ReplyName => x.surface = x.scheme
       /\ x.server # <<>> => normalizeMCPToolName(Prefix, x.server) = x.tool
       /\ \A t \in registry : t.name = x.tool => t.server = x.server
  /\ answer = "ok" => effects # {}

=============================================================================
