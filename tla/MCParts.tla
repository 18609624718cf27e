------------------------------- MODULE MCParts -------------------------------
(***************************************************************************)
(* Small instances for TLC of the parts that share no state: SlackIntake,  *)
(* MemoryDispatcher, Migrations, MemoryIndex, ToolCalls and GithubClient.  *)
(* A behaviour is one of one part; the variables of the others stay at     *)
(* initial values at which nothing is asked of them.                       *)
(***************************************************************************)
EXTENDS Migrations, ToolCalls, SlackIntake, MemoryDispatcher, MemoryIndex,
        GithubClient, TLC

CONSTANTS
  Parts,             \* which parts a run is about
  alice, carol, general,
  r1, r2, w1, d1, ea, eb, ec,
  app, cli,
  q, old, new,
  c1, c2

VARIABLE part

-----------------------------------------------------------------------------
(* Slack.                                                                     *)

File(n, k) == [id |-> n, kind |-> k]

Msg(u, ts, th, fs, as) ==
  [user |-> u, ts |-> ts, thread |-> th, files |-> fs, attachments |-> as]

\* An event about message m at time ts.
Event(kind, u, ts, m) ==
  [envelope |-> "callback", kind |-> kind, user |-> u, channel |-> general,
   ts |-> ts, message |-> m]

Plain(u, ts, th, fs, as) == Event("message", u, ts, Msg(u, ts, th, fs, as))
Forward == [author |-> carol, ts |-> 9, channel |-> ""]

Scenario(es, allow, unfurls, replies, n) ==
  [events |-> es, allow |-> allow, unfurls |-> unfurls, replies |-> replies,
   mishaps |-> n]

\* Nothing happens.
Silent == Scenario(<<>>, {}, FALSE, 0, 0)

\* A message to which the agent may reply.
Talk(unfurls) == Scenario(<<Plain(alice, 1, 0, <<>>, <<>>)>>, {}, unfurls, 1, 1)

AllScenarios ==
  { Silent,
    \* messages with files, some without an id, and a change of a message
    Scenario(<<Plain(alice, 1, 0, <<File("", "text"), File("p", "image"),
                                    File("", "image"), File("", "zip")>>, <<>>)>>,
             {}, FALSE, 0, 0),
    Scenario(<<Plain(alice, 1, 0, <<File("f", "text"), File("p", "image"),
                                    File("q", "image"), File("z", "zip")>>, <<>>)>>,
             {}, FALSE, 0, 0),
    Scenario(<<Plain(alice, 1, 0, <<>>, <<>>),
               Event("message_changed", NoUser, 2, Msg(alice, 1, 0, <<>>, <<>>))>>,
             {}, FALSE, 0, 1),
    \* an answer in a thread with a forward
    Scenario(<<Plain(alice, 2, 1, <<>>, <<Forward>>)>>, {}, FALSE, 0, 1),
    \* the agent replies
    Talk(TRUE), Talk(FALSE),
    \* an allowlist, and events that are no messages
    Scenario(<<Plain(carol, 1, 0, <<>>, <<>>), Plain(alice, 2, 0, <<>>, <<>>)>>,
             {alice}, FALSE, 0, 1),
    Scenario(<<Event("other", NoUser, 1, Msg(NoUser, 1, 0, <<>>, <<>>)),
               [Plain(alice, 2, 0, <<>>, <<>>) EXCEPT !.envelope = "other"]>>,
             {}, FALSE, 0, 1),
    \* events the source does not survive
    Scenario(<<Plain(alice, 0, 0, <<>>, <<>>)>>, {}, FALSE, 0, 1),
    Scenario(<<[Plain(alice, 1, 0, <<>>, <<>>) EXCEPT !.envelope = "unknown"]>>,
             {}, FALSE, 0, 1) }

Unfurling == {Silent, Talk(TRUE)}

-----------------------------------------------------------------------------
(* The bus in memory: one worker, a queue of one, two callers, handlers that    *)
(* record, and an event that nobody handles.                                  *)

TwoRecorders == (r1 :> ea) @@ (r2 :> ec)
UpToTwo      == (ea :> 2) @@ (eb :> 1) @@ (ec :> 0)
OneFollows   == (ea :> eb) @@ (eb :> None) @@ (ec :> None)

-----------------------------------------------------------------------------
(* Migrations: the program has two sets, the command line one of them.        *)

Item(v)   == [version |-> v, complete |-> TRUE]
WaffleSet == [namespace |-> "waffle", items |-> <<Item(2), Item(1)>>]
MemorySet == [namespace |-> "memory", items |-> <<Item(1), Item(2)>>]

BothPrograms  == (app :> <<WaffleSet, MemorySet>>) @@ (cli :> <<WaffleSet>>)
TwoStatements == [m \in Migrations |-> IF m.version = 2 THEN 2 ELSE 1]

-----------------------------------------------------------------------------
(* Memory: two objects that come to say, or cease to say, what is asked for.  *)

AsksForNew == q :> {new}

\* rrf by itself, with more ids than the states above have: all pairs of rankings
\* of up to three of three.
Lists == UNION {{f \in [1..k -> 1..3] : \A i, j \in 1..k : f[i] = f[j] => i = j} : k \in 0..3}

ASSUME FusionAssumption ==
  \A text, near \in Lists : \A limit \in 1..3 :
    IsFusion(rrf(text, near, limit), text, near, limit)

-----------------------------------------------------------------------------
(* Tools: names a server may give, alone or together, that collide with each  *)
(* other or with the program's at one stage or another.                       *)

OwnTools == << <<"a">>, <<"a", "b">> >>

Single == { <<"A">>, <<"-", "a">>, <<"a", "-", "-", "b">>, <<"a", "b", "a">>, <<"b">> }

AdvertisedLists ==
  {<<n>> : n \in Single} \union
  { <<>>,
    << <<"a">>, <<"b">> >>,
    << <<"a", "-", "b">>, <<"a", "_", "b">> >>,
    << <<"a", "b", "a">>, <<"a", "b", "b">> >> }

ServerPrefix  == <<"g">>
ReplyToolName == <<"r">>
Surfaces      == <<"slack", "tui">>

-----------------------------------------------------------------------------
(* GitHub: two calls at once; issue 2 is blocked by 3 already; ids are other   *)
(* issues' numbers.                                                            *)

Ask(tool, x, y, fields) ==
  [tool |-> tool, repo |-> TRUE, x |-> x, y |-> y, fields |-> fields, state |-> ""]

AskedFor ==
  { Ask("add", 1, 2, {}), Ask("remove", 1, 2, {}), Ask("add", 0, 2, {}),
    Ask("list_milestones", 0, 0, {}), Ask("create_milestone", 0, 0, {"title"}),
    Ask("update_milestone", 1, 0, {"description"}) }

ThreeIssues   == 1..3
NextNumber    == [i \in ThreeIssues |-> (i % 3) + 1]
BlockedBefore == << [by |-> NoOne, kind |-> "add", about |-> <<2, 3>>, fields |-> {}] >>

-----------------------------------------------------------------------------
(* One of them.                                                               *)

PartsInit ==
  /\ part \in Parts
  /\ SlackInit /\ (scenario = Silent <=> part # "slack")
  /\ BusInit /\ Init /\ ToolsInit /\ GithubInit
  /\ IndexInit /\ (part # "index" => embedder)

PartsNext ==
  /\ UNCHANGED part
  /\ IF part = "slack" THEN SlackNext ELSE UNCHANGED slackVars
  /\ IF part = "bus" THEN BusNext ELSE UNCHANGED busVars
  /\ IF part = "migrations" THEN Next ELSE UNCHANGED vars
  /\ IF part = "index" THEN IndexNext ELSE UNCHANGED indexVars
  /\ IF part = "tools" THEN ToolsNext ELSE UNCHANGED toolVars
  /\ IF part = "github" THEN GithubNext ELSE UNCHANGED ghVars

partsVars == <<part, slackVars, busVars, vars, indexVars, toolVars, ghVars>>

PartsSpec == PartsInit /\ [][PartsNext]_partsVars

\* The fairness of SlackIntake, of which nothing is enabled while it is silent, and
\* of MemoryDispatcher.
FairPartsSpec ==
  PartsSpec /\ Fairness /\ WF_busVars(part = "bus" /\ Proceeds)

=============================================================================
