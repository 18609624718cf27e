---------------------------- MODULE GithubClient ----------------------------
(***************************************************************************)
(* The tools on GitHub issues and milestones (integrations/github): tool   *)
(* calls that run on several workers share one cached token; each is a     *)
(* row of requests, of which GitHub sees each on its own, and whose        *)
(* answers may be lost after they took effect.  No request is repeated.    *)
(***************************************************************************)
EXTENDS Integers, Sequences, FiniteSets

CONSTANTS
  Calls,       \* the tool calls of a run
  Inputs,      \* what the model may ask for
  Issues,      \* the numbers of the issues there are
  IdOf,        \* the id of each, which is not its number
  Milestones,  \* the numbers of the milestones there are at first
  Before,      \* the writes of others before the run
  PageSize,    \* how much of a list GitHub returns (30)
  Life,        \* how long a token is good
  Margin,      \* how long it must be good when it is handed out (5 minutes)
  MaxClock,    \* bound of the clock
  NoOne

(* An input is a tool, whether its repository reads owner/name, and what it    *)
(* is about: numbers x and y, and which of title, description and state it     *)
(* names.  A write is the call it came from, its kind, what it is about, and   *)
(* the fields it sets.                                                         *)

Tools == {"get_issue", "list_milestones", "create_milestone", "update_milestone",
          "add", "remove"}

\* No two issues share an id; the writes of others are not those of the run.
ASSUME GithubAssumption ==
  /\ NoOne \notin Calls /\ Life \in Nat /\ Margin \in Nat
  /\ \A in \in Inputs : in.tool \in Tools
  /\ \A m, n \in Issues : IdOf[m] = IdOf[n] => m = n
  /\ Before \in Seq([by : {NoOne}, kind : {"add", "remove", "create", "update"},
                     about : Seq(Int), fields : SUBSET {"title", "description"}])

VARIABLES
  clock,
  expires,   \* the cached token: when it expires; 0 for none
  holder,    \* who holds the mutex of the token, or NoOne
  task,      \* each call: where it is, its token, what it has read, its answer
  log        \* GitHub: the writes, in order

ghVars == <<clock, expires, holder, task, log>>

Idle == [pc |-> "idle", in |-> NoOne, at |-> 1, token |-> 0, id |-> 0,
         blockedBy |-> {}, seen |-> 0, answer |-> "none"]

GithubInit ==
  /\ clock = 0 /\ expires = 0 /\ holder = NoOne
  /\ task = [c \in Calls |-> Idle]
  /\ log = Before

-----------------------------------------------------------------------------
(* GitHub (external): what the writes amount to.                              *)

\* The writes about something that no later one of the first n undoes.
Standing(n, kind) ==
  {log[i].about : i \in {j \in 1..n : log[j].kind = kind /\
     \A k \in j + 1..n : log[k].about # log[j].about \/ log[k].kind = kind}}

\* Pairs of issues, the first blocked by the second.
Edges(n) == Standing(n, "add")

MilestonesNow == Milestones \union {log[i].about[1] : i \in {j \in DOMAIN log : log[j].kind = "create"}}

\* A list is cut off at the first page.
Pages(S) == {T \in SUBSET S : Cardinality(T) = PageSize
                              \/ (Cardinality(S) <= PageSize /\ T = S)}

-----------------------------------------------------------------------------
(* The tools: what they refuse, and the requests they make.                   *)

Get(n)       == [kind |-> "issue", n |-> n]
List(n, rel) == [kind |-> rel, n |-> n]

\* GetIssueWithBlocking.
Blocking(n) == <<Get(n), List(n, "blocked_by"), List(n, "blocking")>>

GetIssue(in)        == Blocking(in.x)
ListMilestones(in)  == <<[kind |-> "milestones", n |-> 0]>>
CreateMilestone(in) == <<[kind |-> "create", n |-> 0]>>
UpdateMilestone(in) == <<[kind |-> "update", n |-> in.x]>>

\* x blocks y: the id of x is fetched first, the issue y afterwards.
AddBlockedBy(in)    == <<Get(in.x), [kind |-> "add", n |-> in.y]>> \o Blocking(in.y)
RemoveBlockedBy(in) == <<Get(in.x), [kind |-> "remove", n |-> in.y]>> \o Blocking(in.y)

Requests(in) ==
  CASE in.tool = "get_issue"        -> GetIssue(in)
    [] in.tool = "list_milestones"  -> ListMilestones(in)
    [] in.tool = "create_milestone" -> CreateMilestone(in)
    [] in.tool = "update_milestone" -> UpdateMilestone(in)
    [] in.tool = "add"              -> AddBlockedBy(in)
    [] in.tool = "remove"           -> RemoveBlockedBy(in)

\* milestoneRequest: the fields that are set, and no others.
MilestoneRequest(in) == in.fields \intersect {"title", "description"}

\* Inputs that are refused before any request.
Refused(in) ==
  \/ ~in.repo
  \/ in.tool \in {"get_issue", "update_milestone", "add", "remove"} /\ in.x <= 0
  \/ in.tool \in {"add", "remove"} /\ in.y <= 0
  \/ in.tool = "list_milestones" /\ in.state \notin {"", "open", "closed", "all"}
  \/ in.tool = "create_milestone" /\ "title" \notin in.fields
  \/ in.tool = "update_milestone" /\ MilestoneRequest(in) = {}

Answers(c, answer) == task' = [task EXCEPT ![c].pc = "done", ![c].answer = answer]

Run(c, in) ==
  /\ task[c].pc = "idle"
  /\ task' = [task EXCEPT ![c] = IF Refused(in)
                THEN [Idle EXCEPT !.in = in, !.pc = "done", !.answer = "error"]
                ELSE [Idle EXCEPT !.in = in, !.pc = "token"]]
  /\ UNCHANGED <<clock, expires, holder, log>>

-----------------------------------------------------------------------------
(* Token: under the mutex, with a request of its own when none is good.       *)

Good == expires # 0 /\ clock + Margin < expires

TakeCached(c) ==
  /\ task[c].pc = "token" /\ holder = NoOne /\ Good
  /\ task' = [task EXCEPT ![c].pc = "send", ![c].token = expires]
  /\ UNCHANGED <<clock, expires, holder, log>>

\* A plausible bug: the mutex is not held while a token is asked for.
AskUnlocked(c) ==
  /\ task[c].pc = "token" /\ holder = NoOne /\ ~Good
  /\ task' = [task EXCEPT ![c].pc = "mint"]
  /\ UNCHANGED <<clock, expires, holder, log>>

AskForToken(c) ==
  /\ task[c].pc = "token" /\ holder = NoOne /\ ~Good
  /\ holder' = c
  /\ task' = [task EXCEPT ![c].pc = "mint"]
  /\ UNCHANGED <<clock, expires, log>>

\* GitHub hands out a token, good from now; or the request, the key, or the reply
\* fails, or the context ends, and the cached one stays as it was.
TokenArrives(c) ==
  /\ task[c].pc = "mint"
  /\ holder' = NoOne
  /\ \/ /\ expires' = clock + Life
        /\ task' = [task EXCEPT ![c].pc = "send", ![c].token = expires']
     \/ Answers(c, "error") /\ UNCHANGED expires
  /\ UNCHANGED <<clock, log>>

-----------------------------------------------------------------------------
(* do and doJSON: the request reaches GitHub, and its answer the caller.      *)

\* A plausible bug: the number of the blocking issue is sent instead of its id.
SentNumber(c) == task[c].in.x

\* The issue a dependency is asked for, as GitHub understands the request.
SentID(c) == task[c].id

Named(id) == {m \in Issues : IdOf[m] = id}

Write(c, kind, about, fields) ==
  log' = Append(log, [by |-> c, kind |-> kind, about |-> about, fields |-> fields])

\* What GitHub does with a request that it takes, and what its answer says.
Effect(c, r) ==
  LET in == task[c].in
      pairs == {<<r.n, m>> : m \in Named(SentID(c))}
      reads(t) == task' = [task EXCEPT ![c] = t]
  IN
  \/ /\ r.kind = "issue" /\ r.n \in Issues
     /\ reads([task[c] EXCEPT !.pc = "reply", !.id = IdOf[r.n]]) /\ UNCHANGED log
  \/ /\ r.kind = "blocked_by" /\ r.n \in Issues
     /\ \E page \in Pages({m \in Issues : <<r.n, m>> \in Edges(Len(log))}) :
          reads([task[c] EXCEPT !.pc = "reply", !.blockedBy = page, !.seen = Len(log)])
     /\ UNCHANGED log
  \/ /\ r.kind = "milestones" \/ (r.kind = "blocking" /\ r.n \in Issues)
     /\ reads([task[c] EXCEPT !.pc = "reply"]) /\ UNCHANGED log
  \/ /\ r.kind \in {"add", "remove"} /\ r.n \in Issues
     /\ \E p \in pairs : /\ (p \in Edges(Len(log))) = (r.kind = "remove")
                         /\ Write(c, r.kind, p, {})
     /\ reads([task[c] EXCEPT !.pc = "reply"])
  \/ /\ r.kind = "create"
     /\ Write(c, "create", <<Cardinality(MilestonesNow) + 1>>, MilestoneRequest(in))
     /\ reads([task[c] EXCEPT !.pc = "reply"])
  \/ /\ r.kind = "update" /\ r.n \in MilestonesNow
     /\ Write(c, "update", <<r.n>>, MilestoneRequest(in))
     /\ reads([task[c] EXCEPT !.pc = "reply"])

\* The request is refused by GitHub, because of the token or of what it asks for,
\* or it does not arrive.
RequestFails(c) ==
  /\ task[c].pc = "send"
  /\ Answers(c, "error")
  /\ UNCHANGED <<clock, expires, holder, log>>

Arrives(c) ==
  /\ task[c].pc = "send" /\ clock < task[c].token
  /\ Effect(c, Requests(task[c].in)[task[c].at])
  /\ UNCHANGED <<clock, expires, holder>>

\* The answer arrives with the status that is wanted, and decodes; the next
\* request follows, with a token of its own, or the tool is done.
ReplyArrives(c) ==
  /\ task[c].pc = "reply"
  /\ IF task[c].at = Len(Requests(task[c].in)) THEN Answers(c, "ok")
     ELSE task' = [task EXCEPT ![c].pc = "token", ![c].at = @ + 1]
  /\ UNCHANGED <<clock, expires, holder, log>>

\* The answer is lost, or the context ends: an error, also of what took effect.
ReplyLost(c) ==
  /\ task[c].pc = "reply"
  /\ Answers(c, "error")
  /\ UNCHANGED <<clock, expires, holder, log>>

Tick ==
  /\ clock < MaxClock
  /\ clock' = clock + 1
  /\ UNCHANGED <<expires, holder, task, log>>

GithubNext ==
  \/ \E c \in Calls :
       \/ \E in \in Inputs : Run(c, in)
       \/ TakeCached(c) \/ AskForToken(c) \/ TokenArrives(c)
       \/ RequestFails(c) \/ Arrives(c) \/ ReplyArrives(c) \/ ReplyLost(c)
  \/ Tick

GithubSpec == GithubInit /\ [][GithubNext]_ghVars

-----------------------------------------------------------------------------
(* Properties.                                                                *)

\* One token is asked for at a time, and none while the cached one is good.
OneTokenAtATime ==
  /\ \A c, d \in Calls : task[c].pc = "mint" /\ task[d].pc = "mint" => c = d
  /\ \A c \in Calls : task[c].pc = "mint" => ~Good

WritesOf(c) == {i \in DOMAIN log : log[i].by = c}

Wanted(in) ==
  CASE in.tool \in {"add", "remove"} -> {[kind |-> in.tool, about |-> <<in.y, in.x>>]}
    [] in.tool = "update_milestone"  -> {[kind |-> "update", about |-> <<in.x>>]}
    [] in.tool = "create_milestone"  -> {[kind |-> "create", about |-> <<m>>] : m \in MilestonesNow}
    [] OTHER -> {}

\* A call writes at most once, and only what it was asked to write; if it says
\* ok it has.  (An error says nothing of what was written.)
WritesAsAsked ==
  \A c \in Calls :
    /\ Cardinality(WritesOf(c)) <= 1
    /\ \A i \in WritesOf(c) :
         [kind |-> log[i].kind, about |-> log[i].about] \in Wanted(task[c].in)
    /\ task[c].answer = "ok" /\ Wanted(task[c].in) # {} => WritesOf(c) # {}

\* The issue a call answers with was read after its write: the new blocker is
\* there and the old one is not, unless others wrote in between or it is on a
\* later page.
AnswersAfterWrite ==
  \A c \in Calls : \A i \in WritesOf(c) :
    LET t == task[c] IN
    /\ t.answer = "ok" /\ t.in.tool \in {"add", "remove"}
    /\ \A k \in i + 1..t.seen : log[k].about # log[i].about
    => IF t.in.tool = "add" THEN t.in.x \in t.blockedBy \/ Cardinality(t.blockedBy) = PageSize
                            ELSE t.in.x \notin t.blockedBy

\* Tools that write do what they say (auth.go Token, client.go AddBlockedBy,
\* RemoveBlockedBy, do).
GithubSound == OneTokenAtATime /\ WritesAsAsked /\ AnswersAfterWrite

=============================================================================
