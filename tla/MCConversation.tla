--------------------------- MODULE MCConversation ---------------------------
(* Small instances of Conversation for TLC: two messages of one session. *)
EXTENDS Conversation, TLC

CONSTANTS m1, m2, thread

OneThread == (m1 :> thread) @@ (m2 :> thread)

World(p, w, n, c, f) ==
  [provider |-> p, workers |-> w, calls |-> n, crashes |-> c, faults |-> f]

\* One worker and a crash; one and a store operation that fails; one and two
\* calls at once; two workers.
AllWorlds == {World("echo", 1, 1, 1, 0), World("openai", 1, 1, 1, 0),
              World("anthropic", 1, 1, 0, 1), World("anthropic", 1, 2, 0, 0),
              World("openai", 2, 1, 0, 0)}

\* Two workers and nothing goes wrong.
TwoWorkers == {World("openai", 2, 1, 0, 0)}

=============================================================================
