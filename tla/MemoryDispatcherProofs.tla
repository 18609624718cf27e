------------------------ MODULE MemoryDispatcherProofs ------------------------
(***************************************************************************)
(* Proof of NilMeansHandled for any callers, workers, handlers and         *)
(* capacity of the channel.  Each handler that an event is owed is one     *)
(* token: to be sent, on the channel, run by a worker, or done (Due).      *)
(* A step moves tokens; a caller that gives up loses what it has not sent. *)
(***************************************************************************)
EXTENDS MemoryDispatcher, FiniteSetTheorems, TLAPS

-----------------------------------------------------------------------------
(* The invariant.                                                             *)

\* The places of the jobs for e in the channel, and of e in the store.
Places(s, e) == {i \in DOMAIN s : s[i].event = e}
Stored(e)    == {i \in DOMAIN store : store[i] = e}

Running    == {w \in Workers : worker[w].pc = "run"}
RunningOf(e) == {w \in Running : worker[w].job.event = e}

Senders      == {c \in Callers : call[c].pc = "send"}
SendersOf(e) == {c \in Senders : call[c].event = e}

\* The jobs for e that senders have still to put on the channel.
ToSend(e) ==
  {p \in Callers \X (1..HandlersOf[e]) : p[1] \in SendersOf(e) /\ p[2] <= call[p[1]].left}

\* The handlers of e that have run, run, or are to run.
Due(e) ==
  handled[e] + Cardinality(Places(jobs, e)) + Cardinality(RunningOf(e))
    + Cardinality(ToSend(e))

\* What has a part in a Wait.
Busy == Len(jobs) + Cardinality(Running) + Cardinality(Senders)

Jobs    == [event : Events, ctx : Recorders]
Records == [pc : {"idle", "lock", "send"}, event : Events \union {None}, left : Nat,
            ctx : Recorders \union {None}]

Types ==
  /\ accepted \in [Events -> Nat] /\ handled \in [Events -> Nat]
  /\ owed \in [Drainers -> [Events -> Nat]] /\ pending \in Int
  /\ store \in Seq(Events) /\ jobs \in Seq(Jobs)
  /\ call \in [Callers -> Records]
  /\ worker \in [Workers -> [pc : {"none", "idle", "run", "gone"}, job : Jobs \union {NoJob}]]
  /\ DOMAIN drain = Drainers

\* Callers and workers that are at work have an event, and who is sending holds
\* the lock.
AtWork ==
  /\ \A c \in Callers : call[c].pc # "idle" => call[c].event \in Events /\ call[c].ctx \in Recorders
  /\ \A c \in Senders : c \in readers /\ call[c].left \in 1..HandlersOf[call[c].event]
  /\ \A w \in Workers : worker[w].pc = "run" => worker[w].job \in Jobs
  /\ \A w \in Workers : worker[w].pc # "run" => call[w].pc = "idle"

\* Before the start there is no job, after the end no sender.
Stages ==
  /\ ~started => /\ \A e \in Events : accepted[e] = 0
                 /\ Running = {} /\ Senders = {}
                 /\ \A w \in Workers : worker[w].pc = "none"
  /\ closed => readers = {}
  /\ ~jobsOpen => closed
  /\ shutdown \in {"close", "wait", "error", "nil"} => closed
  /\ \A w \in Workers : worker[w].pc = "gone" => ~jobsOpen /\ jobs = <<>>
  /\ shutdown \in {"close", "wait"} => started
  /\ shutdown = "nil" => ~started \/ WorkersGone

\* No handler runs too often, and an event is accepted when all of its jobs are
\* on the channel.
Balance(e) ==
  /\ Due(e) <= HandlersOf[e] * Cardinality(Stored(e))
  /\ HandlersOf[e] * (accepted[e] + Cardinality(SendersOf(e))) <= Due(e)

Accounts == (\A e \in Events : Balance(e)) /\ Busy <= pending

Drains ==
  \A d \in Drainers : \A e \in Events :
    /\ owed[d][e] <= accepted[e]
    /\ drain[d] = "nil" => HandledAll(e, owed[d])

DInv == Types /\ AtWork /\ Stages /\ Accounts /\ Drains

-----------------------------------------------------------------------------
(* Counting.                                                                  *)

\* One more element behind a list.
LEMMA Behind ==
  ASSUME NEW s, NEW x, \E S : s \in Seq(S)
  PROVE  /\ \E S : Append(s, x) \in Seq(S)
         /\ Len(s) \in Nat /\ DOMAIN s = 1..Len(s) /\ DOMAIN Append(s, x) = 1..(Len(s) + 1)
         /\ \A i \in 1..Len(s) : Append(s, x)[i] = s[i]
         /\ Append(s, x)[Len(s) + 1] = x /\ Len(Append(s, x)) = Len(s) + 1
<1>1. PICK S : s \in Seq(S)
  OBVIOUS
<1> DEFINE U == S \union {x}
<1>2. s \in Seq(U) /\ x \in U
  BY <1>1
<1> HIDE DEF U
<1>3. Append(s, x) \in Seq(U)
  BY <1>2
<1> QED
  BY <1>2, <1>3

\* One less in front.
LEMMA WithoutHead ==
  ASSUME NEW s, \E S : s \in Seq(S), s # <<>>
  PROVE  /\ \E S : Tail(s) \in Seq(S)
         /\ Len(s) \in Nat \ {0} /\ DOMAIN s = 1..Len(s) /\ Head(s) = s[1]
         /\ Len(Tail(s)) = Len(s) - 1 /\ DOMAIN Tail(s) = 1..(Len(s) - 1)
         /\ \A i \in 1..(Len(s) - 1) : Tail(s)[i] = s[i + 1]
OBVIOUS

\* Sets of places are finite.
LEMMA PlacesAreFinite ==
  ASSUME NEW s, \E S : s \in Seq(S), NEW P, P \subseteq DOMAIN s
  PROVE  IsFiniteSet(P) /\ Cardinality(P) \in Nat
<1>1. DOMAIN s = 1..Len(s) /\ Len(s) \in Nat
  OBVIOUS
<1>2. IsFiniteSet(1..Len(s))
  BY <1>1, FS_Interval
<1> QED
  BY <1>1, <1>2, FS_Subset, FS_CardinalityType

\* A job that is sent counts for its event.
LEMMA JobAdded ==
  ASSUME NEW s, NEW x, \E S : s \in Seq(S), NEW e
  PROVE  Cardinality(Places(Append(s, x), e))
           = Cardinality(Places(s, e)) + (IF x.event = e THEN 1 ELSE 0)
<1> DEFINE n == Len(s) + 1
<1>1. Places(Append(s, x), e) = IF x.event = e THEN Places(s, e) \union {n} ELSE Places(s, e)
  BY Behind DEF Places
<1>2. n \notin Places(s, e)
  BY Behind DEF Places
<1>3. IsFiniteSet(Places(s, e)) /\ Cardinality(Places(s, e)) \in Nat
  BY PlacesAreFinite DEF Places
<1> HIDE DEF n
<1>4. Cardinality(Places(s, e) \union {n}) = Cardinality(Places(s, e)) + 1
  BY <1>2, <1>3, FS_AddElement
<1>5. CASE x.event = e
  BY <1>1, <1>4, <1>5
<1>6. CASE x.event # e
  BY <1>1, <1>3, <1>6
<1> QED
  BY <1>5, <1>6

\* A job that is taken does no longer.
LEMMA JobTaken ==
  ASSUME NEW s, \E S : s \in Seq(S), s # <<>>, NEW e
  PROVE  Cardinality(Places(s, e))
           = Cardinality(Places(Tail(s), e)) + (IF Head(s).event = e THEN 1 ELSE 0)
<1> DEFINE A == Places(Tail(s), e)
           B == Places(s, e) \ {1}
           f == [i \in A |-> i + 1]
<1>1. A \subseteq Nat /\ \A i \in A : i + 1 \in B
  BY WithoutHead DEF Places
<1>2. \A j \in B : j - 1 \in A /\ j = (j - 1) + 1
  BY WithoutHead DEF Places
<1>3. IsFiniteSet(A) /\ IsFiniteSet(Places(s, e)) /\ Cardinality(Places(s, e)) \in Nat
      /\ Cardinality(A) \in Nat
  BY WithoutHead, PlacesAreFinite DEF Places
<1>4. (1 \in Places(s, e)) <=> Head(s).event = e
  BY WithoutHead DEF Places
<1> HIDE DEF A, B
<1>5. f \in Bijection(A, B)
  <2>1. f \in [A -> B]
    BY <1>1
  <2>2. \A i, j \in A : f[i] = f[j] => i = j
    BY <1>1
  <2>3. \A j \in B : \E i \in A : f[i] = j
    BY <1>2
  <2> QED
    BY <2>1, <2>2, <2>3 DEF Bijection, Injection, Surjection, IsInjective
<1>6. Cardinality(B) = Cardinality(A)
  BY <1>3, <1>5, FS_Bijection DEF ExistsBijection
<1>7. Cardinality(B) = IF 1 \in Places(s, e) THEN Cardinality(Places(s, e)) - 1
                                             ELSE Cardinality(Places(s, e))
  BY <1>3, FS_RemoveElement DEF B
<1>8. Cardinality(Places(Tail(s), e)) = Cardinality(B)
  BY <1>6 DEF A
<1>9. CASE Head(s).event = e
  BY <1>3, <1>4, <1>7, <1>8, <1>9
<1>10. CASE Head(s).event # e
  BY <1>3, <1>4, <1>7, <1>8, <1>10
<1> QED
  BY <1>9, <1>10

\* The jobs that a Record starts with.
LEMMA Batch ==
  ASSUME NEW c, NEW n \in Nat
  PROVE  IsFiniteSet({c} \X (1..n)) /\ Cardinality({c} \X (1..n)) = n
<1>1. IsFiniteSet({c}) /\ Cardinality({c}) = 1
  BY FS_Singleton
<1>2. IsFiniteSet(1..n) /\ Cardinality(1..n) = n
  BY FS_Interval
<1>3. /\ IsFiniteSet({c} \X (1..n))
      /\ Cardinality({c} \X (1..n)) = Cardinality({c}) * Cardinality(1..n)
  BY <1>1, <1>2, FS_Product
<1>4. 1 * n = n
  OBVIOUS
<1> QED
  BY <1>1, <1>2, <1>3, <1>4

\* All that is counted is finite.
LEMMA Finite ==
  ASSUME Types, NEW e \in Events
  PROVE  /\ IsFiniteSet(Places(jobs, e)) /\ Cardinality(Places(jobs, e)) \in Nat
         /\ IsFiniteSet(Stored(e)) /\ Cardinality(Stored(e)) \in Nat
         /\ IsFiniteSet(Running) /\ Cardinality(Running) \in Nat
         /\ IsFiniteSet(RunningOf(e)) /\ Cardinality(RunningOf(e)) \in Nat
         /\ IsFiniteSet(Senders) /\ Cardinality(Senders) \in Nat
         /\ IsFiniteSet(SendersOf(e)) /\ Cardinality(SendersOf(e)) \in Nat
         /\ IsFiniteSet(ToSend(e)) /\ Cardinality(ToSend(e)) \in Nat
<1>1. IsFiniteSet(Workers) /\ IsFiniteSet(Callers)
  BY BusAssumption, FS_Union DEF Callers
<1>2. IsFiniteSet(Callers \X (1..HandlersOf[e]))
  <2>1. HandlersOf[e] \in Nat
    BY BusAssumption
  <2>2. IsFiniteSet(1..HandlersOf[e])
    BY <2>1, FS_Interval
  <2> QED
    BY <1>1, <2>2, FS_Product
<1>3. /\ Running \subseteq Workers /\ RunningOf(e) \subseteq Workers
      /\ Senders \subseteq Callers /\ SendersOf(e) \subseteq Callers
      /\ ToSend(e) \subseteq Callers \X (1..HandlersOf[e])
      /\ Places(jobs, e) \subseteq DOMAIN jobs /\ Stored(e) \subseteq DOMAIN store
  BY DEF Running, RunningOf, Senders, SendersOf, ToSend, Places, Stored
<1>4. /\ IsFiniteSet(Running) /\ IsFiniteSet(RunningOf(e)) /\ IsFiniteSet(Senders)
      /\ IsFiniteSet(SendersOf(e)) /\ IsFiniteSet(ToSend(e))
  BY <1>1, <1>2, <1>3, FS_Subset
<1>5. (\E S : store \in Seq(S)) /\ (\E S : jobs \in Seq(S))
  BY DEF Types
<1> QED
  BY <1>3, <1>4, <1>5, PlacesAreFinite, FS_CardinalityType

-----------------------------------------------------------------------------
(* Who sends.                                                                 *)

\* The call of someone who was not sending changes, and is not sending.
LEMMA NotSending ==
  ASSUME Types, NEW c \in Callers, call[c].pc # "send",
         NEW r, r.pc # "send", call' = [call EXCEPT ![c] = r]
  PROVE  /\ Senders' = Senders
         /\ \A e : SendersOf(e)' = SendersOf(e) /\ ToSend(e)' = ToSend(e)
<1>1. call'[c] = r /\ \A x \in Callers : x # c => call'[x] = call[x]
  BY DEF Types
<1>2. Senders' = Senders
  BY <1>1 DEF Senders
<1>3. \A e : SendersOf(e)' = SendersOf(e)
  BY <1>1, <1>2 DEF SendersOf, Senders
<1>4. ASSUME NEW e PROVE ToSend(e)' = ToSend(e)
  <2>1. \A x \in SendersOf(e) : call'[x] = call[x]
    BY <1>1 DEF SendersOf, Senders
  <2> QED
    BY <1>3, <2>1 DEF ToSend
<1> QED
  BY <1>2, <1>3, <1>4

\* A sender stops: what it had still to send is lost.
LEMMA StopsSending ==
  ASSUME Types, AtWork, NEW c \in Senders, call' = [call EXCEPT ![c] = NoRecord],
         NEW e \in Events
  PROVE  /\ Senders' = Senders \ {c}
         /\ call[c].event = e =>
              /\ SendersOf(e)' = SendersOf(e) \ {c} /\ c \in SendersOf(e)
              /\ ToSend(e)' = ToSend(e) \ ({c} \X (1..call[c].left))
              /\ {c} \X (1..call[c].left) \subseteq ToSend(e)
         /\ call[c].event # e => SendersOf(e)' = SendersOf(e) /\ ToSend(e)' = ToSend(e)
<1>1. /\ call'[c] = NoRecord /\ \A x \in Callers : x # c => call'[x] = call[x]
      /\ c \in Callers /\ NoRecord.pc = "idle" /\ call[c].pc = "send"
  BY DEF Types, Senders, NoRecord
<1>2. Senders' = Senders \ {c}
  BY <1>1 DEF Senders
<1>3. CASE call[c].event = e
  <2>1. SendersOf(e)' = SendersOf(e) \ {c} /\ c \in SendersOf(e)
    BY <1>1, <1>2, <1>3 DEF SendersOf, Senders
  <2>2. \A x \in SendersOf(e) \ {c} : call'[x] = call[x]
    BY <1>1 DEF SendersOf, Senders
  <2>3. call[c].left \in 1..HandlersOf[e] /\ HandlersOf[e] \in Nat
    BY <1>3, BusAssumption DEF AtWork
  <2>4. {c} \X (1..call[c].left) \subseteq ToSend(e)
    BY <1>1, <2>1, <2>3 DEF ToSend
  <2>5. \A p \in Callers \X (1..HandlersOf[e]) :
          p[1] = c /\ p[2] <= call[c].left <=> p \in {c} \X (1..call[c].left)
    BY <1>1, <2>3
  <2>6. ToSend(e)' = ToSend(e) \ ({c} \X (1..call[c].left))
    BY <2>1, <2>2, <2>5 DEF ToSend
  <2> QED
    BY <1>2, <1>3, <2>1, <2>4, <2>6
<1>4. CASE call[c].event # e
  <2>1. SendersOf(e)' = SendersOf(e)
    BY <1>1, <1>2, <1>4 DEF SendersOf, Senders
  <2>2. \A x \in SendersOf(e) : call'[x] = call[x]
    BY <1>1, <1>4 DEF SendersOf, Senders
  <2> QED
    BY <1>2, <1>4, <2>1, <2>2 DEF ToSend
<1> QED
  BY <1>3, <1>4

\* A Record finds handlers: it has a job for each to send.
LEMMA StartsSending ==
  ASSUME Types, AtWork, NEW c \in Callers, call[c].pc = "lock", HandlersOf[call[c].event] # 0,
         call' = [call EXCEPT ![c].pc = "send", ![c].left = HandlersOf[call[c].event]],
         NEW e \in Events
  PROVE  /\ Senders' = Senders \union {c} /\ c \notin Senders
         /\ call[c].event = e =>
              /\ SendersOf(e)' = SendersOf(e) \union {c} /\ c \notin SendersOf(e)
              /\ ToSend(e)' = ToSend(e) \union ({c} \X (1..HandlersOf[e]))
              /\ ToSend(e) \intersect ({c} \X (1..HandlersOf[e])) = {}
         /\ call[c].event # e => SendersOf(e)' = SendersOf(e) /\ ToSend(e)' = ToSend(e)
<1> PICK v : call[c].event = v
  OBVIOUS
<1>1. /\ call'[c].pc = "send" /\ call'[c].left = HandlersOf[v] /\ call'[c].event = v
      /\ \A x \in Callers : x # c => call'[x] = call[x]
  BY DEF Types, Records
<1>2. Senders' = Senders \union {c} /\ c \notin Senders
  BY <1>1 DEF Senders
<1>3. CASE v = e
  <2>1. SendersOf(e)' = SendersOf(e) \union {c} /\ c \notin SendersOf(e)
    BY <1>1, <1>2, <1>3 DEF SendersOf, Senders
  <2>2. \A x \in SendersOf(e) : call'[x] = call[x]
    BY <1>1, <2>1 DEF SendersOf, Senders
  <2>3. HandlersOf[e] \in Nat
    BY BusAssumption
  <2>4. ToSend(e)' = ToSend(e) \union ({c} \X (1..HandlersOf[e]))
    <3>1. \A p \in Callers \X (1..HandlersOf[e]) :
            p \in ToSend(e)' <=> p \in ToSend(e) \/ p \in {c} \X (1..HandlersOf[e])
      <4> TAKE p \in Callers \X (1..HandlersOf[e])
      <4>1. CASE p[1] = c
        <5>1. p \in {c} \X (1..HandlersOf[e])
          BY <4>1
        <5>2. p[2] <= HandlersOf[e] /\ call'[p[1]].left = HandlersOf[e]
          BY <1>1, <1>3, <2>3, <4>1
        <5>3. p[1] \in SendersOf(e)'
          BY <2>1, <4>1
        <5> QED
          BY <5>1, <5>2, <5>3 DEF ToSend
      <4>2. CASE p[1] # c
        <5>1. p \notin {c} \X (1..HandlersOf[e])
          BY <4>2
        <5>2. p[1] \in SendersOf(e)' <=> p[1] \in SendersOf(e)
          BY <2>1, <4>2
        <5> QED
          BY <2>2, <5>1, <5>2 DEF ToSend
      <4> QED
        BY <4>1, <4>2
    <3>2. {c} \X (1..HandlersOf[e]) \subseteq Callers \X (1..HandlersOf[e])
      OBVIOUS
    <3> QED
      BY <3>1, <3>2 DEF ToSend
  <2>5. ToSend(e) \intersect ({c} \X (1..HandlersOf[e])) = {}
    BY <2>1 DEF ToSend
  <2> QED
    BY <1>2, <1>3, <2>1, <2>4, <2>5
<1>4. CASE v # e
  <2>1. SendersOf(e)' = SendersOf(e)
    BY <1>1, <1>2, <1>4 DEF SendersOf, Senders
  <2>2. \A x \in SendersOf(e) : call'[x] = call[x]
    BY <1>1, <1>2 DEF SendersOf, Senders
  <2> QED
    BY <1>2, <1>4, <2>1, <2>2 DEF ToSend
<1> QED
  BY <1>3, <1>4

\* A sender sends one job and has more.
LEMMA SendsOne ==
  ASSUME Types, AtWork, NEW c \in Senders, call[c].left # 1,
         call' = [call EXCEPT ![c].left = call[c].left - 1], NEW e \in Events
  PROVE  /\ Senders' = Senders /\ SendersOf(e)' = SendersOf(e)
         /\ call[c].event = e =>
              /\ ToSend(e)' = ToSend(e) \ {<<c, call[c].left>>}
              /\ <<c, call[c].left>> \in ToSend(e)
         /\ call[c].event # e => ToSend(e)' = ToSend(e)
<1> PICK n : call[c].left = n
  OBVIOUS
<1>1. /\ call'[c].pc = "send" /\ call'[c].left = n - 1 /\ call'[c].event = call[c].event
      /\ \A x \in Callers : x # c => call'[x] = call[x]
      /\ c \in Callers
  BY DEF Types, Records, Senders
<1>2. Senders' = Senders
  BY <1>1 DEF Senders
<1>3. SendersOf(e)' = SendersOf(e)
  BY <1>1, <1>2 DEF SendersOf, Senders
<1>4. CASE call[c].event = e
  <2>1. n \in 1..HandlersOf[e] /\ HandlersOf[e] \in Nat
    BY <1>4, BusAssumption DEF AtWork
  <2>2. c \in SendersOf(e) /\ \A x \in SendersOf(e) : x # c => call'[x] = call[x]
    BY <1>1, <1>4 DEF SendersOf, Senders
  <2>3. \A k \in 1..HandlersOf[e] : k <= n - 1 <=> k <= n /\ k # n
    BY <2>1
  <2>4. \A p \in Callers \X (1..HandlersOf[e]) : p \in ToSend(e)' <=> p \in ToSend(e) /\ p # <<c, n>>
    BY <1>1, <1>3, <2>1, <2>2, <2>3 DEF ToSend
  <2>5. <<c, n>> \in ToSend(e)
    BY <1>1, <2>1, <2>2 DEF ToSend
  <2>6. ToSend(e)' = ToSend(e) \ {<<c, n>>}
    BY <2>4, <1>3 DEF ToSend
  <2> QED
    BY <1>2, <1>3, <1>4, <2>5, <2>6
<1>5. CASE call[c].event # e
  <2>1. \A x \in SendersOf(e) : call'[x] = call[x]
    BY <1>1, <1>5 DEF SendersOf, Senders
  <2> QED
    BY <1>2, <1>3, <1>5, <2>1 DEF ToSend
<1> QED
  BY <1>4, <1>5

-----------------------------------------------------------------------------
(* What a step leaves as it is.                                               *)

\* Products with one more, and in order.
LEMMA Times ==
  ASSUME NEW h \in Nat, NEW a \in Nat, NEW b \in Nat
  PROVE  /\ h * a \in Nat /\ h * (a + 1) = h * a + h
         /\ a <= b => h * a <= h * b
         /\ h * a = a * h
OBVIOUS

\* Steps of Drain and Shutdown.
LEMMA Quiet ==
  ASSUME DInv, UNCHANGED <<store, readers, jobs, pending, call, worker, accepted, handled>>
  PROVE  AtWork' /\ Accounts'
<1>1. AtWork'
  BY DEF DInv, AtWork, Senders
<1>2. Senders' = Senders /\ Running' = Running
  BY DEF Senders, Running
<1>3. ASSUME NEW e \in Events
      PROVE  /\ Places(jobs, e)' = Places(jobs, e) /\ Stored(e)' = Stored(e)
             /\ RunningOf(e)' = RunningOf(e) /\ SendersOf(e)' = SendersOf(e)
             /\ ToSend(e)' = ToSend(e)
  BY <1>2 DEF Places, Stored, RunningOf, SendersOf, ToSend
<1>4. Busy' = Busy
  BY <1>2 DEF Busy
<1>5. ASSUME NEW e \in Events PROVE Balance(e)'
  BY <1>3 DEF DInv, Accounts, Balance, Due
<1> QED
  BY <1>1, <1>4, <1>5 DEF DInv, Accounts

\* Nothing is taken back of what Drains were called for.
LEMMA DrainsStay ==
  ASSUME DInv, owed' = owed,
         \A e \in Events : accepted[e] <= accepted'[e] /\ handled[e] <= handled'[e],
         Types', \A d \in Drainers : drain'[d] = "nil" => drain[d] = "nil"
  PROVE  Drains'
<1> SUFFICES ASSUME NEW d \in Drainers, NEW e \in Events
             PROVE  /\ owed[d][e] <= accepted'[e]
                    /\ drain'[d] = "nil" => owed[d][e] * HandlersOf[e] <= handled'[e]
  BY DEF Drains, HandledAll
<1>1. /\ owed[d][e] \in Nat /\ accepted[e] \in Nat /\ accepted'[e] \in Nat
      /\ handled[e] \in Nat /\ handled'[e] \in Nat /\ HandlersOf[e] \in Nat
  BY BusAssumption DEF DInv, Types
<1>2. /\ owed[d][e] <= accepted[e]
      /\ drain[d] = "nil" => owed[d][e] * HandlersOf[e] <= handled[e]
  BY DEF DInv, Drains, HandledAll
<1>3. owed[d][e] * HandlersOf[e] \in Nat
  BY <1>1, Times
<1> QED
  BY <1>1, <1>2, <1>3

\* Waking those who wait makes no Wait return.
LEMMA WokenStay ==
  ASSUME Types, NEW n, drain' = Woken(n)
  PROVE  DOMAIN drain' = Drainers /\ \A d \in Drainers : drain'[d] = "nil" => drain[d] = "nil"
BY DEF Types, Woken

\* An event that a step is not about.
LEMMA Uninvolved ==
  ASSUME DInv, Types', NEW e \in Events,
         handled'[e] = handled[e], accepted'[e] = accepted[e],
         Cardinality(Places(jobs, e))' = Cardinality(Places(jobs, e)),
         Cardinality(Stored(e))' = Cardinality(Stored(e)), RunningOf(e)' = RunningOf(e),
         SendersOf(e)' = SendersOf(e), ToSend(e)' = ToSend(e)
  PROVE  Balance(e)'
BY DEF DInv, Accounts, Balance, Due

-----------------------------------------------------------------------------
(* Record.                                                                    *)

\* A Record that is over without an effect, or accepted without handlers.
LEMMA ReturnsAtOnce ==
  ASSUME DInv, NEW c \in Callers, call[c].pc = "lock", NEW nil \in BOOLEAN, Returns(c, nil),
         nil => HandlersOf[call[c].event] = 0 /\ started /\ store' = Append(store, call[c].event),
         ~nil => store' = store, UNCHANGED <<started, closed, jobs, jobsOpen, pending, worker,
                                             shutdown, drain, owed, handled>>
  PROVE  DInv'
<1> PICK v : call[c].event = v
  OBVIOUS
<1>1. /\ readers' = readers \ {c} /\ call' = [call EXCEPT ![c] = NoRecord]
      /\ accepted' = IF nil THEN [accepted EXCEPT ![v] = @ + 1] ELSE accepted
      /\ v \in Events /\ HandlersOf[v] \in Nat
  BY BusAssumption DEF Returns, Release, DInv, AtWork
<1>2. /\ Senders' = Senders /\ c \notin Senders /\ Running' = Running
      /\ \A e : SendersOf(e)' = SendersOf(e) /\ ToSend(e)' = ToSend(e)
      /\ \A e : RunningOf(e)' = RunningOf(e) /\ Places(jobs, e)' = Places(jobs, e)
  <2>1. NoRecord.pc # "send"
    BY DEF NoRecord
  <2>2. Senders' = Senders /\ \A e : SendersOf(e)' = SendersOf(e) /\ ToSend(e)' = ToSend(e)
    BY <1>1, <2>1, NotSending DEF DInv
  <2> QED
    BY <2>2 DEF Running, RunningOf, Places, Senders
<1>3. Types'
  <2>1. NoRecord \in Records
    BY DEF NoRecord, Records
  <2>2. call' \in [Callers -> Records]
    BY <1>1, <2>1 DEF DInv, Types
  <2>3. accepted' \in [Events -> Nat]
    BY <1>1 DEF DInv, Types
  <2>4. store' \in Seq(Events)
    <3>1. store \in Seq(Events) /\ (nil => store' = Append(store, v))
      BY DEF DInv, Types
    <3> QED
      BY <1>1, <3>1, SMTT(30)
  <2> QED
    BY <2>2, <2>3, <2>4 DEF DInv, Types
<1>4. AtWork'
  <2>1. call'[c] = NoRecord /\ \A x \in Callers : x # c => call'[x] = call[x]
    BY <1>1 DEF DInv, Types
  <2>2. NoRecord.pc = "idle"
    BY DEF NoRecord
  <2>3. Workers \subseteq Callers
    BY DEF Callers
  <2>4. \A x \in Callers : call'[x].pc # "idle" => call'[x].event \in Events /\ call'[x].ctx \in Recorders
    BY <2>1, <2>2 DEF DInv, AtWork
  <2>5. \A x \in Senders' : x \in readers' /\ call'[x].left \in 1..HandlersOf[call'[x].event]
    <3> SUFFICES ASSUME NEW x \in Senders
                 PROVE  x \in readers' /\ call'[x].left \in 1..HandlersOf[call'[x].event]
      BY <1>2
    <3>1. x # c /\ x \in Callers
      BY <1>2 DEF Senders
    <3> QED
      BY <1>1, <2>1, <3>1 DEF DInv, AtWork
  <2>6. \A w \in Workers : worker[w].pc # "run" => call'[w].pc = "idle"
    BY <2>1, <2>2, <2>3 DEF DInv, AtWork
  <2> QED
    BY <2>4, <2>5, <2>6 DEF DInv, AtWork
<1>5. Accounts'
  <2>1. Busy' = Busy
    BY <1>2 DEF Busy
  <2>2. ASSUME NEW e \in Events, ~(nil /\ e = v) PROVE Balance(e)'
    <3>1. Stored(e)' = Stored(e)
      <4>1. CASE nil
        <5>1. /\ DOMAIN store' = 1..(Len(store) + 1) /\ DOMAIN store = 1..Len(store)
              /\ Len(store) \in Nat /\ store'[Len(store) + 1] = v
              /\ \A i \in 1..Len(store) : store'[i] = store[i]
          <6>1. store' = Append(store, v) /\ \E S : store \in Seq(S)
            BY <4>1 DEF DInv, Types
          <6> QED
            BY <6>1, Behind
        <5> QED
          BY <2>2, <4>1, <5>1 DEF Stored
      <4>2. CASE ~nil
        BY <4>2 DEF Stored
      <4> QED
        BY <4>1, <4>2
    <3>2. accepted'[e] = accepted[e]
      BY <1>1, <2>2 DEF DInv, Types
    <3> QED
      BY <1>2, <1>3, <3>1, <3>2, Uninvolved
  <2>3. ASSUME nil PROVE Balance(v)'
    <3>1. HandlersOf[v] = 0
      BY <2>3
    <3>2. Due(v)' = Due(v)
      BY <1>2 DEF Due
    <3>3. /\ Cardinality(Stored(v)) \in Nat /\ Cardinality(Stored(v))' \in Nat
          /\ Cardinality(SendersOf(v)) \in Nat /\ accepted[v] \in Nat /\ accepted'[v] \in Nat
          /\ SendersOf(v)' = SendersOf(v)
      <4>1. Cardinality(Stored(v))' \in Nat
        <5>1. \E S : store' \in Seq(S)
          BY <1>3 DEF Types
        <5>2. Stored(v)' \subseteq DOMAIN store'
          BY DEF Stored
        <5> QED
          BY <5>1, <5>2, PlacesAreFinite
      <4> QED
        BY <1>1, <1>2, <1>3, <4>1, Finite DEF DInv, Types
    <3>4. Balance(v)
      BY <1>1 DEF DInv, Accounts
    <3> QED
      BY <3>1, <3>2, <3>3, <3>4 DEF Balance
  <2> QED
    BY <2>1, <2>2, <2>3 DEF DInv, Accounts
<1>6. Stages'
  <2>1. ~started => \A e \in Events : accepted'[e] = 0
    BY <1>1 DEF DInv, Stages
  <2>2. closed => readers' = {}
    BY <1>1 DEF DInv, Stages
  <2> QED
    BY <1>2, <2>1, <2>2 DEF DInv, Stages, WorkersGone
<1>7. Drains'
  <2>1. \A e \in Events : accepted[e] <= accepted'[e]
    BY <1>1 DEF DInv, Types
  <2>2. \A e \in Events : handled[e] <= handled'[e]
    BY DEF DInv, Types
  <2> QED
    BY <1>3, <2>1, <2>2, DrainsStay
<1> QED
  BY <1>3, <1>4, <1>5, <1>6, <1>7 DEF DInv

\* A Record that has jobs to send.
LEMMA StartsToSend ==
  ASSUME DInv, NEW c \in Callers, call[c].pc = "lock", HandlersOf[call[c].event] # 0,
         started, ~closed, store' = Append(store, call[c].event),
         readers' = readers \union {c},
         call' = [call EXCEPT ![c].pc = "send", ![c].left = HandlersOf[call[c].event]],
         pending' = pending + 1,
         UNCHANGED <<accepted, started, closed, jobs, jobsOpen, worker, shutdown, drain, owed,
                     ended, handled, panicked>>
  PROVE  DInv'
<1> PICK v : call[c].event = v
  OBVIOUS
<1>1. v \in Events /\ HandlersOf[v] \in Nat
  BY BusAssumption DEF DInv, AtWork
<1>2. /\ call'[c] = [call[c] EXCEPT !.pc = "send", !.left = HandlersOf[v]]
      /\ \A x \in Callers : x # c => call'[x] = call[x]
      /\ call'[c].pc = "send" /\ call'[c].left = HandlersOf[v] /\ call'[c].event = v
      /\ call'[c].ctx = call[c].ctx
  BY DEF DInv, Types, Records
<1>3. Types'
  <2>1. call' \in [Callers -> Records]
    <3>1. call[c] \in Records /\ call \in [Callers -> Records]
      BY DEF DInv, Types
    <3>2. [call[c] EXCEPT !.pc = "send", !.left = HandlersOf[v]] \in Records
      BY <1>1, <3>1 DEF Records
    <3> QED
      BY <3>1, <3>2
  <2>2. store' \in Seq(Events)
    <3>1. store \in Seq(Events) /\ store' = Append(store, v)
      BY DEF DInv, Types
    <3> QED
      BY <1>1, <3>1
  <2> QED
    BY <2>1, <2>2 DEF DInv, Types
<1>4. AtWork'
  <2>1. \A x \in Callers : call'[x].pc # "idle" => call'[x].event \in Events /\ call'[x].ctx \in Recorders
    BY <1>1, <1>2 DEF DInv, AtWork
  <2>2. \A x \in Senders' : x \in readers' /\ call'[x].left \in 1..HandlersOf[call'[x].event]
    <3> SUFFICES ASSUME NEW x \in Callers, call'[x].pc = "send"
                 PROVE  x \in readers' /\ call'[x].left \in 1..HandlersOf[call'[x].event]
      BY DEF Senders
    <3>1. CASE x = c
      BY <1>1, <1>2, <3>1
    <3>2. CASE x # c
      BY <1>2, <3>2 DEF DInv, AtWork, Senders
    <3> QED
      BY <3>1, <3>2
  <2>3. \A w \in Workers : worker[w].pc # "run" => call'[w].pc = "idle"
    <3>1. \A w \in Workers : worker[w].pc # "run" => w # c /\ call[w].pc = "idle" /\ w \in Callers
      BY DEF DInv, AtWork, Callers
    <3> QED
      BY <1>2, <3>1
  <2> QED
    BY <2>1, <2>2, <2>3 DEF DInv, AtWork
<1>5. /\ Senders' = Senders \union {c} /\ c \notin Senders
      /\ Running' = Running /\ \A e : RunningOf(e)' = RunningOf(e)
      /\ \A e : Places(jobs, e)' = Places(jobs, e)
  <2>1. Senders' = Senders \union {c} /\ c \notin Senders
    BY <1>1, StartsSending DEF DInv
  <2> QED
    BY <2>1 DEF Running, RunningOf, Places
<1>6. /\ DOMAIN store' = 1..(Len(store) + 1) /\ DOMAIN store = 1..Len(store)
      /\ Len(store) \in Nat /\ store'[Len(store) + 1] = v
      /\ \A i \in 1..Len(store) : store'[i] = store[i]
  <2>1. store' = Append(store, v) /\ \E S : store \in Seq(S)
    BY DEF DInv, Types
  <2> QED
    BY <2>1, Behind
<1>7. ASSUME NEW e \in Events, e # v PROVE Balance(e)'
  <2>1. Stored(e)' = Stored(e)
    BY <1>6, <1>7 DEF Stored
  <2>2. SendersOf(e)' = SendersOf(e) /\ ToSend(e)' = ToSend(e)
    BY <1>7, StartsSending DEF DInv
  <2> QED
    BY <1>3, <1>5, <2>1, <2>2, Uninvolved
<1>8. Balance(v)'
  <2>1. /\ SendersOf(v)' = SendersOf(v) \union {c} /\ c \notin SendersOf(v)
        /\ ToSend(v)' = ToSend(v) \union ({c} \X (1..HandlersOf[v]))
        /\ ToSend(v) \intersect ({c} \X (1..HandlersOf[v])) = {}
    BY <1>1, StartsSending DEF DInv
  <2>2. /\ IsFiniteSet(SendersOf(v)) /\ IsFiniteSet(ToSend(v)) /\ IsFiniteSet(Stored(v))
        /\ Cardinality(SendersOf(v)) \in Nat /\ Cardinality(ToSend(v)) \in Nat
        /\ Cardinality(Stored(v)) \in Nat /\ Cardinality(Places(jobs, v)) \in Nat
        /\ Cardinality(RunningOf(v)) \in Nat
    BY <1>1, Finite DEF DInv
  <2>3. Cardinality(SendersOf(v))' = Cardinality(SendersOf(v)) + 1
    BY <2>1, <2>2, FS_AddElement
  <2>4. Cardinality(ToSend(v))' = Cardinality(ToSend(v)) + HandlersOf[v]
    <3> DEFINE B == {c} \X (1..HandlersOf[v])
    <3>1. IsFiniteSet(B) /\ Cardinality(B) = HandlersOf[v]
      BY <1>1, Batch
    <3>2. ToSend(v)' = ToSend(v) \union B /\ ToSend(v) \intersect B = {}
      BY <2>1
    <3> HIDE DEF B
    <3>3. Cardinality(ToSend(v) \union B) = Cardinality(ToSend(v)) + Cardinality(B) - Cardinality({})
      BY <2>2, <3>1, <3>2, FS_Union
    <3> QED
      BY <1>1, <2>2, <3>1, <3>2, <3>3, FS_EmptySet
  <2>5. Cardinality(Stored(v))' = Cardinality(Stored(v)) + 1
    <3> DEFINE n == Len(store) + 1
    <3>1. Stored(v)' = Stored(v) \union {n} /\ n \notin Stored(v)
      BY <1>6 DEF Stored
    <3> HIDE DEF n
    <3> QED
      BY <2>2, <3>1, FS_AddElement
  <2>6. Due(v)' = Due(v) + HandlersOf[v] /\ Due(v) \in Nat
    <3>1. handled[v] \in Nat /\ handled'[v] = handled[v]
      BY <1>1 DEF DInv, Types
    <3>2. RunningOf(v)' = RunningOf(v) /\ Places(jobs, v)' = Places(jobs, v)
      BY <1>5
    <3> QED
      BY <1>1, <2>2, <2>4, <3>1, <3>2, SMTT(30) DEF Due
  <2>7. Balance(v) /\ accepted[v] \in Nat /\ accepted'[v] = accepted[v]
    BY <1>1 DEF DInv, Accounts, Types
  <2>8. /\ HandlersOf[v] * (Cardinality(Stored(v)) + 1)
             = HandlersOf[v] * Cardinality(Stored(v)) + HandlersOf[v]
        /\ HandlersOf[v] * ((accepted[v] + Cardinality(SendersOf(v))) + 1)
             = HandlersOf[v] * (accepted[v] + Cardinality(SendersOf(v))) + HandlersOf[v]
        /\ HandlersOf[v] * Cardinality(Stored(v)) \in Nat
        /\ HandlersOf[v] * (accepted[v] + Cardinality(SendersOf(v))) \in Nat
        /\ accepted[v] + (Cardinality(SendersOf(v)) + 1)
             = (accepted[v] + Cardinality(SendersOf(v))) + 1
    <3>1. accepted[v] + Cardinality(SendersOf(v)) \in Nat
      BY <2>2, <2>7
    <3>2. \A a \in Nat : HandlersOf[v] * (a + 1) = HandlersOf[v] * a + HandlersOf[v]
                         /\ HandlersOf[v] * a \in Nat
      BY <1>1, Times
    <3>3. accepted[v] + (Cardinality(SendersOf(v)) + 1)
             = (accepted[v] + Cardinality(SendersOf(v))) + 1
      <4>1. Cardinality(SendersOf(v)) \in Nat /\ accepted[v] \in Nat
        BY <2>2, <2>7
      <4> QED
        BY ONLY <4>1
    <3> QED
      BY <2>2, <3>1, <3>2, <3>3
  <2>9. Due(v)' <= HandlersOf[v] * Cardinality(Stored(v))'
    BY <1>1, <2>5, <2>6, <2>7, <2>8 DEF Balance
  <2>10. HandlersOf[v] * (accepted'[v] + Cardinality(SendersOf(v))') <= Due(v)'
    BY <1>1, <2>3, <2>6, <2>7, <2>8 DEF Balance
  <2> QED
    BY <2>9, <2>10 DEF Balance
<1>9. Busy' <= pending'
  <2>1. IsFiniteSet(Senders) /\ Cardinality(Senders) \in Nat /\ Cardinality(Running) \in Nat
    BY <1>1, Finite DEF DInv
  <2>2. Cardinality(Senders)' = Cardinality(Senders) + 1
    BY <1>5, <2>1, FS_AddElement
  <2>3. Len(jobs) \in Nat /\ pending \in Int /\ Busy <= pending
    BY DEF DInv, Types, Accounts
  <2> QED
    BY <1>5, <2>1, <2>2, <2>3 DEF Busy
<1>10. Stages'
  BY <1>5 DEF DInv, Stages, WorkersGone
<1>11. Drains'
  <2>1. \A e \in Events : accepted[e] <= accepted'[e] /\ handled[e] <= handled'[e]
    BY DEF DInv, Types
  <2> QED
    BY <1>3, <2>1, DrainsStay
<1> QED
  BY <1>3, <1>4, <1>7, <1>8, <1>9, <1>10, <1>11 DEF DInv, Accounts

\* Record starts: the caller gets the lock, and appends, or returns.
LEMMA EnterKeeps ==
  ASSUME DInv, NEW c \in Callers, Enter(c)
  PROVE  DInv'
<1>1. CASE closed \/ ~started \/ call[c].ctx \in ended
  <2>1. Returns(c, FALSE) /\ store' = store
    BY <1>1 DEF Enter
  <2>2. /\ call[c].pc = "lock" /\ FALSE \in BOOLEAN
        /\ UNCHANGED <<started, closed, jobs, jobsOpen, pending, worker, shutdown, drain, owed,
                       handled>>
    BY <1>1 DEF Enter
  <2> QED
    BY <2>1, <2>2, ReturnsAtOnce
<1>2. CASE ~(closed \/ ~started \/ call[c].ctx \in ended) /\ HandlersOf[call[c].event] = 0
  <2>1. Returns(c, TRUE) /\ store' = Append(store, call[c].event)
    BY <1>2 DEF Enter
  <2> QED
    BY <1>2, <2>1, ReturnsAtOnce DEF Enter
<1>3. CASE ~(closed \/ ~started \/ call[c].ctx \in ended) /\ HandlersOf[call[c].event] # 0
  BY <1>3, StartsToSend DEF Enter
<1> QED
  BY <1>1, <1>2, <1>3

\* What a sender stops with has not been sent: of left tokens.
LEMMA TokensLost ==
  ASSUME DInv, NEW c \in Senders, call' = [call EXCEPT ![c] = NoRecord],
         NEW v, NEW n, call[c].event = v, call[c].left = n
  PROVE  /\ v \in Events /\ n \in 1..HandlersOf[v]
         /\ Cardinality(Senders)' = Cardinality(Senders) - 1 /\ Cardinality(Senders) \in Nat
         /\ Cardinality(SendersOf(v))' = Cardinality(SendersOf(v)) - 1
         /\ Cardinality(SendersOf(v)) \in Nat \ {0}
         /\ Cardinality(ToSend(v))' = Cardinality(ToSend(v)) - n
         /\ Cardinality(ToSend(v)) \in Nat /\ Cardinality(ToSend(v))' \in Nat
         /\ \A e \in Events : e # v => SendersOf(e)' = SendersOf(e) /\ ToSend(e)' = ToSend(e)
<1>1. v \in Events /\ HandlersOf[v] \in Nat /\ n \in 1..HandlersOf[v] /\ n \in Nat
  BY BusAssumption DEF DInv, AtWork, Senders
<1>2. /\ Senders' = Senders \ {c}
      /\ SendersOf(v)' = SendersOf(v) \ {c} /\ c \in SendersOf(v)
      /\ ToSend(v)' = ToSend(v) \ ({c} \X (1..n)) /\ {c} \X (1..n) \subseteq ToSend(v)
  BY <1>1, StopsSending DEF DInv
<1>3. /\ IsFiniteSet(Senders) /\ IsFiniteSet(SendersOf(v)) /\ IsFiniteSet(ToSend(v))
      /\ Cardinality(Senders) \in Nat /\ Cardinality(SendersOf(v)) \in Nat
      /\ Cardinality(ToSend(v)) \in Nat
  BY <1>1, Finite DEF DInv
<1>4. Cardinality(Senders)' = Cardinality(Senders) - 1
  BY <1>2, <1>3, FS_RemoveElement
<1>5. /\ Cardinality(SendersOf(v))' = Cardinality(SendersOf(v)) - 1
      /\ Cardinality(SendersOf(v)) # 0
  BY <1>2, <1>3, FS_RemoveElement, FS_EmptySet, ZenonT(40)
<1>6. Cardinality(ToSend(v))' = Cardinality(ToSend(v)) - n /\ Cardinality(ToSend(v))' \in Nat
  <2> DEFINE B == {c} \X (1..n)
  <2>1. Cardinality(B) = n
    BY <1>1, Batch
  <2>2. ToSend(v)' = ToSend(v) \ B /\ B \subseteq ToSend(v)
    BY <1>2
  <2> HIDE DEF B
  <2>3. ToSend(v) \intersect B = B
    BY <2>2
  <2>4. /\ IsFiniteSet(ToSend(v) \ B)
        /\ Cardinality(ToSend(v) \ B) = Cardinality(ToSend(v)) - Cardinality(ToSend(v) \intersect B)
    BY <1>3, FS_Difference
  <2>5. Cardinality(ToSend(v) \ B) \in Nat
    BY <2>4, FS_CardinalityType
  <2> QED
    BY <2>1, <2>2, <2>3, <2>4, <2>5
<1>7. \A e \in Events : e # v => SendersOf(e)' = SendersOf(e) /\ ToSend(e)' = ToSend(e)
  BY StopsSending DEF DInv
<1> QED
  BY <1>1, <1>3, <1>4, <1>5, <1>6, <1>7

\* Nobody else is touched when a sender stops.
LEMMA StopKeepsOthers ==
  ASSUME DInv, NEW c \in Senders, call' = [call EXCEPT ![c] = NoRecord],
         readers' = readers \ {c}, worker' = worker
  PROVE  AtWork' /\ call' \in [Callers -> Records]
<1>1. /\ call'[c] = NoRecord /\ NoRecord.pc = "idle" /\ c \in Callers /\ NoRecord \in Records
      /\ \A x \in Callers : x # c => call'[x] = call[x]
  BY DEF DInv, Types, NoRecord, Senders, Records
<1>2. \A x \in Callers : call'[x].pc # "idle" => call'[x].event \in Events /\ call'[x].ctx \in Recorders
  BY <1>1 DEF DInv, AtWork
<1>3. \A x \in Senders' : x \in readers' /\ call'[x].left \in 1..HandlersOf[call'[x].event]
  <2> SUFFICES ASSUME NEW x \in Callers, call'[x].pc = "send"
               PROVE  x \in readers' /\ call'[x].left \in 1..HandlersOf[call'[x].event]
    BY DEF Senders
  <2>1. x # c
    BY <1>1
  <2> QED
    BY <1>1, <2>1 DEF DInv, AtWork, Senders
<1>4. \A w \in Workers : worker[w].pc # "run" => call'[w].pc = "idle"
  <2>1. \A w \in Workers : worker[w].pc # "run" => w \in Callers /\ call[w].pc = "idle"
    BY DEF DInv, AtWork, Callers
  <2> QED
    BY <1>1, <2>1
<1> QED
  BY <1>1, <1>2, <1>3, <1>4 DEF DInv, AtWork, Types

\* The context of a sender ends: it returns with what it has not sent.
LEMMA GiveUpKeeps ==
  ASSUME DInv, NEW c \in Callers, GiveUp(c)
  PROVE  DInv'
<1> PICK v, n : call[c].event = v /\ call[c].left = n
  OBVIOUS
<1>1. /\ c \in Senders /\ readers' = readers \ {c} /\ call' = [call EXCEPT ![c] = NoRecord]
      /\ pending' = pending - 1 /\ drain' = Woken(pending - 1)
      /\ UNCHANGED <<accepted, store, started, closed, jobs, jobsOpen, worker, shutdown, owed,
                     ended, handled, panicked>>
  BY DEF GiveUp, Returns, Release, Senders
<1>2. DOMAIN drain' = Drainers /\ \A d \in Drainers : drain'[d] = "nil" => drain[d] = "nil"
  BY <1>1, WokenStay DEF DInv
<1>3. AtWork' /\ Types'
  <2>1. AtWork' /\ call' \in [Callers -> Records]
    BY <1>1, StopKeepsOthers
  <2>2. pending' \in Int
    BY <1>1 DEF DInv, Types
  <2> QED
    BY <1>1, <1>2, <2>1, <2>2 DEF DInv, Types
<1>4. /\ v \in Events /\ n \in 1..HandlersOf[v] /\ HandlersOf[v] \in Nat
      /\ Cardinality(Senders)' = Cardinality(Senders) - 1 /\ Cardinality(Senders) \in Nat
      /\ Cardinality(SendersOf(v))' = Cardinality(SendersOf(v)) - 1
      /\ Cardinality(SendersOf(v)) \in Nat \ {0}
      /\ Cardinality(ToSend(v))' = Cardinality(ToSend(v)) - n
      /\ Cardinality(ToSend(v)) \in Nat /\ Cardinality(ToSend(v))' \in Nat
      /\ \A e \in Events : e # v => SendersOf(e)' = SendersOf(e) /\ ToSend(e)' = ToSend(e)
  <2>1. HandlersOf \in [Events -> Nat]
    BY BusAssumption
  <2> QED
    BY <1>1, <2>1, TokensLost
<1>5. /\ Running' = Running /\ \A e : RunningOf(e)' = RunningOf(e)
      /\ \A e : Places(jobs, e)' = Places(jobs, e) /\ Stored(e)' = Stored(e)
  BY <1>1 DEF Running, RunningOf, Places, Stored
<1>6. ASSUME NEW e \in Events, e # v PROVE Balance(e)'
  BY <1>1, <1>3, <1>4, <1>5, <1>6, Uninvolved
<1>7. Balance(v)'
  <2> PICK t, q, r, h, s, a, b : /\ t = Cardinality(ToSend(v)) /\ q = Cardinality(Places(jobs, v))
                              /\ r = Cardinality(RunningOf(v)) /\ h = HandlersOf[v]
                              /\ s = Cardinality(SendersOf(v)) /\ a = accepted[v]
                              /\ b = handled[v]
    OBVIOUS
  <2>1. /\ t \in Nat /\ q \in Nat /\ r \in Nat /\ h \in Nat /\ s \in Nat \ {0} /\ a \in Nat
        /\ b \in Nat /\ n \in 1..h /\ t - n \in Nat
    BY <1>4, Finite DEF DInv, Types
  <2>2. Due(v) = b + q + r + t
    BY DEF Due
  <2>3. Due(v)' = b + q + r + (t - n)
    BY <1>1, <1>4, <1>5 DEF Due
  <2>4. h * Cardinality(Stored(v)) \in Nat
    BY <1>4, <2>1, Finite, Times DEF DInv
  <2>5. Due(v) <= h * Cardinality(Stored(v)) /\ h * (a + s) <= Due(v)
    BY <1>4 DEF DInv, Accounts, Balance
  <2>6. /\ h * (a + s) = h * (a + (s - 1)) + h
        /\ h * (a + (s - 1)) \in Nat
    <3>1. s - 1 \in Nat /\ a + (s - 1) \in Nat /\ (a + (s - 1)) + 1 = a + s
      BY <2>1
    <3> QED
      BY <2>1, <3>1, Times
  <2>7. Due(v)' <= h * Cardinality(Stored(v)) /\ h * (a + (s - 1)) <= Due(v)'
    BY <2>1, <2>2, <2>3, <2>4, <2>5, <2>6
  <2> QED
    BY <1>1, <1>4, <1>5, <2>7 DEF Balance
<1>8. Busy' <= pending'
  <2>1. Len(jobs) \in Nat /\ pending \in Int /\ Busy <= pending /\ Cardinality(Running) \in Nat
    BY <1>4, Finite DEF DInv, Types, Accounts
  <2> QED
    BY <1>1, <1>4, <1>5, <2>1 DEF Busy
<1>9. Stages'
  <2>1. Senders' \subseteq Senders
    BY <1>1, <1>4, StopsSending DEF DInv
  <2> QED
    BY <1>1, <1>5, <2>1 DEF DInv, Stages, WorkersGone
<1>10. Drains'
  <2>1. \A e \in Events : accepted[e] <= accepted'[e] /\ handled[e] <= handled'[e]
    BY <1>1 DEF DInv, Types
  <2> QED
    BY <1>1, <1>2, <1>3, <2>1, DrainsStay
<1> QED
  BY <1>3, <1>6, <1>7, <1>8, <1>9, <1>10 DEF DInv, Accounts

\* One more job on the channel.
LEMMA QueueGrows ==
  ASSUME DInv, NEW v \in Events, NEW x \in Recorders,
         jobs' = Append(jobs, [event |-> v, ctx |-> x])
  PROVE  /\ jobs' \in Seq(Jobs) /\ Len(jobs) \in Nat /\ Len(jobs)' = Len(jobs) + 1
         /\ Cardinality(Places(jobs, v))' = Cardinality(Places(jobs, v)) + 1
         /\ \A e \in Events : e # v =>
              Cardinality(Places(jobs, e))' = Cardinality(Places(jobs, e))
<1> DEFINE job == [event |-> v, ctx |-> x]
<1>1. job \in Jobs /\ job.event = v
  BY DEF Jobs
<1>2. jobs \in Seq(Jobs) /\ jobs' = Append(jobs, job)
  BY DEF DInv, Types
<1> HIDE DEF job
<1>3. jobs' \in Seq(Jobs) /\ Len(jobs) \in Nat /\ Len(jobs') = Len(jobs) + 1
  BY <1>1, <1>2
<1>4. ASSUME NEW e \in Events
      PROVE  /\ Cardinality(Places(jobs', e))
                  = Cardinality(Places(jobs, e)) + (IF job.event = e THEN 1 ELSE 0)
             /\ Cardinality(Places(jobs, e)) \in Nat
  <2>1. Cardinality(Places(Append(jobs, job), e))
          = Cardinality(Places(jobs, e)) + (IF job.event = e THEN 1 ELSE 0)
    BY <1>2, JobAdded
  <2> QED
    BY <1>2, <2>1, Finite DEF DInv
<1>5. \A e : Places(jobs, e)' = Places(jobs', e)
  BY DEF Places
<1> QED
  BY <1>1, <1>3, <1>4, <1>5

\* The last job is on the channel: the Record returns nil.
LEMMA LastSentKeeps ==
  ASSUME DInv, NEW c \in Senders, call[c].left = 1, Returns(c, TRUE),
         jobs' = Append(jobs, [event |-> call[c].event, ctx |-> call[c].ctx]), jobsOpen,
         UNCHANGED <<store, started, closed, jobsOpen, pending, worker, shutdown, drain, owed,
                     ended, handled>>
  PROVE  DInv'
<1> PICK v : call[c].event = v
  OBVIOUS
<1>1. /\ readers' = readers \ {c} /\ call' = [call EXCEPT ![c] = NoRecord]
      /\ accepted' = [accepted EXCEPT ![v] = @ + 1]
      /\ c \in Callers /\ call[c].pc = "send"
  BY DEF Returns, Release, Senders
<1>2. v \in Events /\ HandlersOf[v] \in Nat /\ call[c].ctx \in Recorders
  BY <1>1, BusAssumption DEF DInv, AtWork
<1>3. /\ jobs' \in Seq(Jobs) /\ Len(jobs) \in Nat /\ Len(jobs)' = Len(jobs) + 1
      /\ Cardinality(Places(jobs, v))' = Cardinality(Places(jobs, v)) + 1
      /\ \A e \in Events : e # v => Cardinality(Places(jobs, e))' = Cardinality(Places(jobs, e))
  BY <1>2, QueueGrows
<1>4. /\ Cardinality(Senders)' = Cardinality(Senders) - 1 /\ Cardinality(Senders) \in Nat
      /\ Cardinality(SendersOf(v))' = Cardinality(SendersOf(v)) - 1
      /\ Cardinality(SendersOf(v)) \in Nat \ {0}
      /\ Cardinality(ToSend(v))' = Cardinality(ToSend(v)) - 1
      /\ Cardinality(ToSend(v)) \in Nat /\ Cardinality(ToSend(v))' \in Nat
      /\ \A e \in Events : e # v => SendersOf(e)' = SendersOf(e) /\ ToSend(e)' = ToSend(e)
  BY <1>1, TokensLost
<1>5. AtWork' /\ Types'
  <2>1. AtWork' /\ call' \in [Callers -> Records]
    BY <1>1, StopKeepsOthers
  <2>2. accepted' \in [Events -> Nat]
    BY <1>1, <1>2 DEF DInv, Types
  <2> QED
    BY <1>3, <2>1, <2>2 DEF DInv, Types
<1>6. /\ Running' = Running /\ \A e : RunningOf(e)' = RunningOf(e) /\ Stored(e)' = Stored(e)
  BY DEF Running, RunningOf, Stored
<1>7. accepted'[v] = accepted[v] + 1 /\ \A e \in Events : e # v => accepted'[e] = accepted[e]
  BY <1>1, <1>2 DEF DInv, Types
<1>8. ASSUME NEW e \in Events, e # v PROVE Balance(e)'
  BY <1>3, <1>4, <1>5, <1>6, <1>7, <1>8, Uninvolved
<1>9. Balance(v)'
  <2>1. Due(v)' = Due(v)
    <3> PICK q, r, t, b : /\ Cardinality(Places(jobs, v)) = q /\ Cardinality(RunningOf(v)) = r
                          /\ Cardinality(ToSend(v)) = t /\ handled[v] = b
      OBVIOUS
    <3>1. b \in Nat /\ q \in Nat /\ r \in Nat /\ t \in Nat
      BY <1>2, Finite DEF DInv, Types
    <3>2. Due(v)' = b + (q + 1) + r + (t - 1) /\ Due(v) = b + q + r + t
      BY <1>3, <1>4, <1>6 DEF Due
    <3>3. b + (q + 1) + r + (t - 1) = b + q + r + t
      BY ONLY <3>1
    <3> QED
      BY <3>2, <3>3
  <2>2. accepted'[v] + Cardinality(SendersOf(v))' = accepted[v] + Cardinality(SendersOf(v))
    <3> PICK a, s : accepted[v] = a /\ Cardinality(SendersOf(v)) = s
      OBVIOUS
    <3>1. a \in Nat /\ s \in Nat
      BY <1>2, <1>4 DEF DInv, Types
    <3>2. accepted'[v] = a + 1 /\ Cardinality(SendersOf(v))' = s - 1
      BY <1>4, <1>7
    <3>3. (a + 1) + (s - 1) = a + s
      BY ONLY <3>1
    <3> QED
      BY <3>2, <3>3
  <2>3. Balance(v)
    BY <1>2 DEF DInv, Accounts
  <2> QED
    BY <1>6, <2>1, <2>2, <2>3 DEF Balance
<1>10. Busy' <= pending'
  <2>1. pending \in Int /\ Busy <= pending /\ Cardinality(Running) \in Nat
    BY <1>2, Finite DEF DInv, Types, Accounts
  <2> QED
    BY <1>3, <1>4, <1>6, <2>1 DEF Busy
<1>11. Stages'
  <2>1. Senders' \subseteq Senders /\ started
    BY <1>1, <1>2, StopsSending DEF DInv, Stages
  <2>2. \A w \in Workers : worker[w].pc # "gone"
    BY DEF DInv, Stages
  <2> QED
    BY <1>1, <1>6, <2>1, <2>2 DEF DInv, Stages, WorkersGone
<1>12. Drains'
  <2>1. \A e \in Events : accepted[e] <= accepted'[e] /\ handled[e] <= handled'[e]
    BY <1>1, <1>2 DEF DInv, Types
  <2> QED
    BY <1>5, <2>1, DrainsStay
<1> QED
  BY <1>5, <1>8, <1>9, <1>10, <1>11, <1>12 DEF DInv, Accounts

\* A job is on the channel and there are more.
LEMMA NextSentKeeps ==
  ASSUME DInv, NEW c \in Senders, call[c].left # 1,
         call' = [call EXCEPT ![c].left = call[c].left - 1], pending' = pending + 1,
         jobs' = Append(jobs, [event |-> call[c].event, ctx |-> call[c].ctx]), jobsOpen,
         UNCHANGED <<store, started, closed, readers, jobsOpen, worker, shutdown, drain, owed,
                     ended, accepted, handled>>
  PROVE  DInv'
<1> PICK v, n : call[c].event = v /\ call[c].left = n
  OBVIOUS
<1>1. c \in Callers /\ call[c].pc = "send"
  BY DEF Senders
<1>2. /\ v \in Events /\ HandlersOf[v] \in Nat /\ n \in 1..HandlersOf[v] /\ n - 1 \in 1..HandlersOf[v]
      /\ call[c].ctx \in Recorders
  <2>1. v \in Events /\ n \in 1..HandlersOf[v] /\ call[c].ctx \in Recorders
    BY <1>1 DEF DInv, AtWork
  <2> QED
    BY <2>1, BusAssumption
<1>3. /\ jobs' \in Seq(Jobs) /\ Len(jobs) \in Nat /\ Len(jobs)' = Len(jobs) + 1
      /\ Cardinality(Places(jobs, v))' = Cardinality(Places(jobs, v)) + 1
      /\ \A e \in Events : e # v => Cardinality(Places(jobs, e))' = Cardinality(Places(jobs, e))
  BY <1>2, QueueGrows
<1>4. /\ call'[c].pc = "send" /\ call'[c].left = n - 1 /\ call'[c].event = v
      /\ call'[c].ctx = call[c].ctx /\ \A x \in Callers : x # c => call'[x] = call[x]
  BY <1>1 DEF DInv, Types, Records
<1>5. Types'
  <2>1. call[c] \in Records /\ call \in [Callers -> Records] /\ n - 1 \in Nat
    BY <1>1, <1>2 DEF DInv, Types
  <2>2. [call[c] EXCEPT !.left = n - 1] \in Records
    BY <2>1 DEF Records
  <2>3. call' = [call EXCEPT ![c] = [call[c] EXCEPT !.left = n - 1]]
    BY <2>1
  <2>4. call' \in [Callers -> Records]
    BY <2>1, <2>2, <2>3
  <2> QED
    BY <1>3, <2>4 DEF DInv, Types
<1>6. /\ Senders' = Senders /\ \A e \in Events : SendersOf(e)' = SendersOf(e)
      /\ \A e \in Events : e # v => ToSend(e)' = ToSend(e)
      /\ ToSend(v)' = ToSend(v) \ {<<c, n>>} /\ <<c, n>> \in ToSend(v)
  <2>1. \A e \in Events : /\ Senders' = Senders /\ SendersOf(e)' = SendersOf(e)
                          /\ call[c].event # e => ToSend(e)' = ToSend(e)
    BY SendsOne DEF DInv
  <2>2. /\ ToSend(v)' = ToSend(v) \ {<<c, call[c].left>>} /\ <<c, call[c].left>> \in ToSend(v)
    BY <1>2, SendsOne DEF DInv
  <2> QED
    BY <1>2, <2>1, <2>2
<1>7. AtWork'
  <2>1. \A x \in Callers : call'[x].pc # "idle" => call'[x].event \in Events /\ call'[x].ctx \in Recorders
    BY <1>2, <1>4 DEF DInv, AtWork
  <2>2. \A x \in Senders' : x \in readers' /\ call'[x].left \in 1..HandlersOf[call'[x].event]
    <3> SUFFICES ASSUME NEW x \in Senders
                 PROVE  x \in readers /\ call'[x].left \in 1..HandlersOf[call'[x].event]
      BY <1>6
    <3>1. x \in Callers
      BY DEF Senders
    <3>2. x \in readers /\ call[x].left \in 1..HandlersOf[call[x].event]
      BY DEF DInv, AtWork
    <3>3. CASE x = c
      BY <1>2, <1>4, <3>2, <3>3
    <3>4. CASE x # c
      BY <1>4, <3>1, <3>2, <3>4
    <3> QED
      BY <3>3, <3>4
  <2>3. \A w \in Workers : worker[w].pc # "run" => call'[w].pc = "idle"
    <3>1. \A w \in Workers : worker[w].pc # "run" => w # c /\ call[w].pc = "idle" /\ w \in Callers
      BY <1>1 DEF DInv, AtWork, Callers
    <3> QED
      BY <1>4, <3>1
  <2> QED
    BY <2>1, <2>2, <2>3 DEF DInv, AtWork
<1>8. /\ Running' = Running /\ \A e : RunningOf(e)' = RunningOf(e) /\ Stored(e)' = Stored(e)
  BY DEF Running, RunningOf, Stored
<1>9. ASSUME NEW e \in Events, e # v PROVE Balance(e)'
  BY <1>3, <1>5, <1>6, <1>8, <1>9, Uninvolved
<1>10. Balance(v)'
  <2>1. Cardinality(ToSend(v))' = Cardinality(ToSend(v)) - 1 /\ Cardinality(ToSend(v)) \in Nat
    <3>1. IsFiniteSet(ToSend(v)) /\ Cardinality(ToSend(v)) \in Nat
      BY <1>2, Finite DEF DInv
    <3>2. Cardinality(ToSend(v) \ {<<c, n>>}) = Cardinality(ToSend(v)) - 1
      BY <1>6, <3>1, FS_RemoveElement
    <3> QED
      BY <1>6, <3>1, <3>2
  <2>2. Due(v)' = Due(v)
    <3> PICK q, r, t, b : /\ Cardinality(Places(jobs, v)) = q /\ Cardinality(RunningOf(v)) = r
                          /\ Cardinality(ToSend(v)) = t /\ handled[v] = b
      OBVIOUS
    <3>1. b \in Nat /\ q \in Nat /\ r \in Nat /\ t \in Nat
      BY <1>2, Finite DEF DInv, Types
    <3>2. Due(v)' = b + (q + 1) + r + (t - 1) /\ Due(v) = b + q + r + t
      BY <1>3, <1>8, <2>1 DEF Due
    <3>3. b + (q + 1) + r + (t - 1) = b + q + r + t
      BY ONLY <3>1
    <3> QED
      BY <3>2, <3>3
  <2>3. Balance(v) /\ SendersOf(v)' = SendersOf(v)
    BY <1>2, <1>6 DEF DInv, Accounts
  <2> QED
    BY <1>8, <2>2, <2>3 DEF Balance
<1>11. Busy' <= pending'
  <2>1. /\ pending \in Int /\ Busy <= pending /\ Cardinality(Running) \in Nat
        /\ Cardinality(Senders) \in Nat
    BY <1>2, Finite DEF DInv, Types, Accounts
  <2> QED
    BY <1>3, <1>6, <1>8, <2>1 DEF Busy
<1>12. Stages'
  <2>1. \A w \in Workers : worker[w].pc # "gone"
    BY DEF DInv, Stages
  <2> QED
    BY <1>6, <1>8, <2>1 DEF DInv, Stages, WorkersGone
<1>13. Drains'
  <2>1. \A e \in Events : accepted[e] <= accepted'[e] /\ handled[e] <= handled'[e]
    BY DEF DInv, Types
  <2> QED
    BY <1>5, <2>1, DrainsStay
<1> QED
  BY <1>5, <1>7, <1>9, <1>10, <1>11, <1>12, <1>13 DEF DInv, Accounts

\* The channel is never closed under a sender, who holds the lock.
LEMMA SendKeeps ==
  ASSUME DInv, NEW c \in Callers, Send(c)
  PROVE  DInv'
<1>1. c \in Senders /\ jobsOpen
  BY DEF Send, Senders, DInv, Stages, AtWork
<1>2. CASE call[c].left = 1
  BY <1>1, <1>2, LastSentKeeps DEF Send
<1>3. CASE call[c].left # 1
  BY <1>1, <1>3, NextSentKeeps DEF Send
<1> QED
  BY <1>2, <1>3

-----------------------------------------------------------------------------
(* The workers.                                                               *)

\* Start: the workers begin.
LEMMA StartKeeps ==
  ASSUME DInv, StartWorkers
  PROVE  DInv'
<1>1. /\ ~started /\ ~closed /\ worker' = [w \in Workers |-> [pc |-> "idle", job |-> NoJob]]
      /\ UNCHANGED <<store, closed, readers, jobs, jobsOpen, pending, call, shutdown, drain,
                     owed, accepted, handled>>
  BY DEF StartWorkers
<1>2. \A w \in Workers : worker'[w].pc = "idle"
  BY <1>1
<1>3. Types'
  BY <1>1 DEF DInv, Types
<1>4. Running = {} /\ Running' = {} /\ \A e : RunningOf(e)' = RunningOf(e)
  BY <1>1, <1>2 DEF DInv, Stages, Running, RunningOf
<1>5. AtWork'
  BY <1>1, <1>2 DEF DInv, AtWork, Stages, Senders
<1>6. Senders' = Senders /\ \A e : Places(jobs, e)' = Places(jobs, e) /\ Stored(e)' = Stored(e)
  BY <1>1 DEF Senders, Places, Stored
<1>7. \A e : SendersOf(e)' = SendersOf(e) /\ ToSend(e)' = ToSend(e)
  BY <1>1, <1>6 DEF SendersOf, ToSend
<1>8. \A e \in Events : Balance(e)'
  BY <1>1, <1>3, <1>4, <1>6, <1>7, Uninvolved
<1>9. Busy' <= pending'
  BY <1>1, <1>4, <1>6 DEF Busy, DInv, Accounts
<1>10. Stages'
  BY <1>1, <1>2, <1>4 DEF DInv, Stages, StartWorkers
<1>11. Drains'
  <2>1. \A e \in Events : accepted[e] <= accepted'[e] /\ handled[e] <= handled'[e]
    BY <1>1 DEF DInv, Types
  <2> QED
    BY <1>1, <1>3, <2>1, DrainsStay
<1> QED
  BY <1>3, <1>5, <1>8, <1>9, <1>10, <1>11 DEF DInv, Accounts

\* The channel without its first job, which has an event and a recorder.
LEMMA QueueShrinks ==
  ASSUME DInv, jobs # <<>>, jobs' = Tail(jobs)
  PROVE  /\ Head(jobs) \in Jobs /\ jobs' \in Seq(Jobs)
         /\ Len(jobs) \in Nat \ {0} /\ Len(jobs)' = Len(jobs) - 1
         /\ \A e \in Events :
              /\ Cardinality(Places(jobs, e))' \in Nat
              /\ Cardinality(Places(jobs, e))
                   = Cardinality(Places(jobs, e))' + (IF Head(jobs).event = e THEN 1 ELSE 0)
<1>1. jobs \in Seq(Jobs)
  BY DEF DInv, Types
<1>2. Head(jobs) \in Jobs /\ Tail(jobs) \in Seq(Jobs)
  BY <1>1
<1>3. Len(jobs) \in Nat \ {0} /\ Len(Tail(jobs)) = Len(jobs) - 1
  BY <1>1, WithoutHead
<1>4. ASSUME NEW e \in Events
      PROVE  /\ Cardinality(Places(jobs', e)) \in Nat
             /\ Cardinality(Places(jobs, e))
                  = Cardinality(Places(jobs', e)) + (IF Head(jobs).event = e THEN 1 ELSE 0)
  <2>1. Cardinality(Places(jobs, e))
          = Cardinality(Places(Tail(jobs), e)) + (IF Head(jobs).event = e THEN 1 ELSE 0)
    BY <1>1, JobTaken
  <2>2. Places(jobs', e) \subseteq DOMAIN jobs' /\ \E S : jobs' \in Seq(S)
    BY <1>2 DEF Places
  <2>3. Cardinality(Places(jobs', e)) \in Nat
    BY <2>2, PlacesAreFinite
  <2> QED
    BY <2>1, <2>3
<1>5. \A e : Places(jobs, e)' = Places(jobs', e)
  BY DEF Places
<1> QED
  BY <1>2, <1>3, <1>4, <1>5

\* A worker takes a job and its handler starts.
LEMMA TakeKeeps ==
  ASSUME DInv, NEW w \in Workers, TakeJob(w)
  PROVE  DInv'
<1> PICK job : Head(jobs) = job
  OBVIOUS
<1> PICK v : job.event = v
  OBVIOUS
<1>1. /\ worker[w].pc = "idle" /\ jobs # <<>> /\ jobs' = Tail(jobs)
      /\ worker' = [worker EXCEPT ![w] = [pc |-> "run", job |-> job]]
      /\ call' = IF Follow[v] = None THEN call
                 ELSE [call EXCEPT ![w] = [pc |-> "lock", event |-> Follow[v],
                                           left |-> 0, ctx |-> job.ctx]]
      /\ UNCHANGED <<store, started, closed, readers, jobsOpen, pending, shutdown, drain, owed,
                     accepted, handled>>
  BY DEF TakeJob
<1>2. /\ job \in Jobs /\ jobs' \in Seq(Jobs)
      /\ Len(jobs) \in Nat \ {0} /\ Len(jobs)' = Len(jobs) - 1
      /\ \A e \in Events :
              /\ Cardinality(Places(jobs, e))' \in Nat
              /\ Cardinality(Places(jobs, e))
                   = Cardinality(Places(jobs, e))' + (IF v = e THEN 1 ELSE 0)
  BY <1>1, QueueShrinks
<1>3. /\ v \in Events /\ job.ctx \in Recorders /\ w \in Callers
      /\ (Follow[v] # None => Follow[v] \in Events)
  BY <1>2, BusAssumption DEF Jobs, Callers
<1>4. /\ worker'[w] = [pc |-> "run", job |-> job]
      /\ \A x \in Workers : x # w => worker'[x] = worker[x]
  BY <1>1 DEF DInv, Types
<1>5. /\ \A x \in Callers : x # w => call'[x] = call[x]
      /\ call[w].pc = "idle" /\ call' \in [Callers -> Records]
      /\ call'[w].pc # "idle" => /\ call'[w].pc = "lock" /\ call'[w].event \in Events
                                 /\ call'[w].ctx \in Recorders
  <2>1. call[w].pc = "idle" /\ call \in [Callers -> Records]
    BY <1>1 DEF DInv, AtWork, Types
  <2>2. CASE Follow[v] = None
    BY <1>1, <2>1, <2>2
  <2>3. CASE Follow[v] # None
    <3> DEFINE r == [pc |-> "lock", event |-> Follow[v], left |-> 0, ctx |-> job.ctx]
    <3>1. r \in Records /\ r.pc = "lock" /\ r.event \in Events /\ r.ctx \in Recorders
      BY <1>3, <2>3 DEF Records
    <3>2. call' = [call EXCEPT ![w] = r]
      BY <1>1, <2>3
    <3> HIDE DEF r
    <3>3. call'[w] = r /\ \A x \in Callers : x # w => call'[x] = call[x]
      BY <1>3, <2>1, <3>2
    <3> QED
      BY <1>3, <2>1, <3>1, <3>2, <3>3
  <2> QED
    BY <2>2, <2>3
<1>6. /\ Senders' = Senders
      /\ \A e : SendersOf(e)' = SendersOf(e) /\ ToSend(e)' = ToSend(e)
  <2>1. Senders' = Senders /\ w \notin Senders
    BY <1>3, <1>5 DEF Senders
  <2>2. \A e : SendersOf(e)' = SendersOf(e)
    BY <1>5, <2>1 DEF SendersOf, Senders
  <2>3. ASSUME NEW e PROVE ToSend(e)' = ToSend(e)
    <3>1. \A x \in SendersOf(e) : call'[x] = call[x]
      BY <1>5, <2>1 DEF SendersOf, Senders
    <3> QED
      BY <2>2, <3>1 DEF ToSend
  <2> QED
    BY <2>1, <2>2, <2>3
<1>7. Types'
  <2>1. worker' \in [Workers -> [pc : {"none", "idle", "run", "gone"}, job : Jobs \union {NoJob}]]
    BY <1>1, <1>2 DEF DInv, Types
  <2> QED
    BY <1>1, <1>2, <1>5, <2>1 DEF DInv, Types
<1>8. AtWork'
  <2>1. \A x \in Callers : call'[x].pc # "idle" => call'[x].event \in Events /\ call'[x].ctx \in Recorders
    BY <1>5 DEF DInv, AtWork
  <2>2. \A x \in Senders' : x \in readers' /\ call'[x].left \in 1..HandlersOf[call'[x].event]
    <3> SUFFICES ASSUME NEW x \in Senders
                 PROVE  x \in readers /\ call'[x].left \in 1..HandlersOf[call'[x].event]
      BY <1>1, <1>6
    <3>1. x \in Callers /\ x # w
      BY <1>5 DEF Senders
    <3> QED
      BY <1>5, <3>1 DEF DInv, AtWork
  <2>3. \A x \in Workers : worker'[x].pc = "run" => worker'[x].job \in Jobs
    BY <1>2, <1>4 DEF DInv, AtWork
  <2>4. \A x \in Workers : worker'[x].pc # "run" => call'[x].pc = "idle"
    <3>1. \A x \in Workers : worker'[x].pc # "run" => x # w /\ x \in Callers /\ call[x].pc = "idle"
      BY <1>4 DEF DInv, AtWork, Callers
    <3> QED
      BY <1>5, <3>1
  <2> QED
    BY <2>1, <2>2, <2>3, <2>4 DEF AtWork
<1>9. /\ Running' = Running \union {w} /\ w \notin Running
      /\ RunningOf(v)' = RunningOf(v) \union {w} /\ w \notin RunningOf(v)
      /\ \A e : e # v => RunningOf(e)' = RunningOf(e)
  <2>1. Running' = Running \union {w} /\ w \notin Running
    BY <1>1, <1>4 DEF Running
  <2>2. \A x \in Running : worker'[x] = worker[x] /\ x # w
    BY <1>4, <2>1 DEF Running
  <2> QED
    BY <1>4, <2>1, <2>2 DEF RunningOf
<1>10. \A e : Stored(e)' = Stored(e)
  BY <1>1 DEF Stored
<1>11. ASSUME NEW e \in Events, e # v PROVE Balance(e)'
  <2>1. Cardinality(Places(jobs, e))' = Cardinality(Places(jobs, e))
    BY <1>2, <1>11
  <2> QED
    BY <1>1, <1>6, <1>7, <1>9, <1>10, <1>11, <2>1, Uninvolved
<1>12. Balance(v)'
  <2>1. Cardinality(RunningOf(v))' = Cardinality(RunningOf(v)) + 1
    <3>1. IsFiniteSet(RunningOf(v)) /\ Cardinality(RunningOf(v)) \in Nat
      BY <1>3, Finite DEF DInv
    <3>2. Cardinality(RunningOf(v) \union {w}) = Cardinality(RunningOf(v)) + 1
      BY <1>9, <3>1, FS_AddElement
    <3> QED
      BY <1>9, <3>2
  <2>2. Due(v)' = Due(v)
    <3> PICK q, r, t, b : /\ Cardinality(Places(jobs, v))' = q /\ Cardinality(RunningOf(v)) = r
                          /\ Cardinality(ToSend(v)) = t /\ handled[v] = b
      OBVIOUS
    <3>1. b \in Nat /\ q \in Nat /\ r \in Nat /\ t \in Nat
      BY <1>2, <1>3, Finite DEF DInv, Types
    <3>2. Cardinality(Places(jobs, v)) = q + 1
      BY <1>2, <1>3
    <3>3. Due(v)' = b + q + (r + 1) + t /\ Due(v) = b + (q + 1) + r + t
      BY <1>1, <1>6, <2>1, <3>2 DEF Due
    <3>4. b + (q + 1) + r + t = b + q + (r + 1) + t
      BY ONLY <3>1
    <3> QED
      BY <3>3, <3>4
  <2>3. Balance(v)
    BY <1>3 DEF DInv, Accounts
  <2> QED
    BY <1>1, <1>6, <1>10, <2>2, <2>3 DEF Balance
<1>13. Busy' <= pending'
  <2>1. Cardinality(Running)' = Cardinality(Running) + 1
    BY <1>3, <1>9, Finite, FS_AddElement DEF DInv
  <2>2. /\ pending \in Int /\ Busy <= pending /\ Cardinality(Running) \in Nat
        /\ Cardinality(Senders) \in Nat
    BY <1>3, Finite DEF DInv, Types, Accounts
  <2> QED
    BY <1>1, <1>2, <1>6, <2>1, <2>2 DEF Busy
<1>14. Stages'
  <2>1. started /\ shutdown # "nil" /\ \A x \in Workers : worker[x].pc # "gone"
    BY <1>1 DEF DInv, Stages, WorkersGone
  <2>2. \A x \in Workers : worker'[x].pc # "gone"
    BY <1>4, <2>1
  <2> QED
    BY <1>1, <1>6, <2>1, <2>2 DEF DInv, Stages
<1>15. Drains'
  <2>1. \A e \in Events : accepted[e] <= accepted'[e] /\ handled[e] <= handled'[e]
    BY <1>1 DEF DInv, Types
  <2> QED
    BY <1>1, <1>7, <2>1, DrainsStay
<1> QED
  BY <1>7, <1>8, <1>11, <1>12, <1>13, <1>14, <1>15 DEF DInv, Accounts

\* A handler has returned and its worker is free.
LEMMA FinishKeeps ==
  ASSUME DInv, NEW w \in Workers, FinishJob(w)
  PROVE  DInv'
<1> PICK v : worker[w].job.event = v
  OBVIOUS
<1>1. /\ worker[w].pc = "run" /\ call[w].pc = "idle"
      /\ worker' = [worker EXCEPT ![w] = [pc |-> "idle", job |-> NoJob]]
      /\ handled' = [handled EXCEPT ![v] = @ + 1]
      /\ pending' = pending - 1 /\ drain' = Woken(pending - 1)
      /\ UNCHANGED <<store, started, closed, readers, jobs, jobsOpen, call, shutdown, owed,
                     accepted>>
  BY DEF FinishJob
<1>2. v \in Events
  BY <1>1 DEF DInv, AtWork, Jobs
<1>3. /\ worker'[w] = [pc |-> "idle", job |-> NoJob]
      /\ \A x \in Workers : x # w => worker'[x] = worker[x]
  BY <1>1 DEF DInv, Types
<1>4. DOMAIN drain' = Drainers /\ \A d \in Drainers : drain'[d] = "nil" => drain[d] = "nil"
  BY <1>1, WokenStay DEF DInv
<1>5. Types'
  <2>1. worker' \in [Workers -> [pc : {"none", "idle", "run", "gone"}, job : Jobs \union {NoJob}]]
    BY <1>1 DEF DInv, Types
  <2>2. handled' \in [Events -> Nat] /\ pending' \in Int
    BY <1>1, <1>2 DEF DInv, Types
  <2> QED
    BY <1>1, <1>4, <2>1, <2>2 DEF DInv, Types
<1>6. handled'[v] = handled[v] + 1 /\ \A e \in Events : e # v => handled'[e] = handled[e]
  BY <1>1, <1>2 DEF DInv, Types
<1>7. Senders' = Senders /\ \A e : Places(jobs, e)' = Places(jobs, e) /\ Stored(e)' = Stored(e)
  BY <1>1 DEF Senders, Places, Stored
<1>8. \A e : SendersOf(e)' = SendersOf(e) /\ ToSend(e)' = ToSend(e)
  BY <1>1, <1>7 DEF SendersOf, ToSend
<1>9. AtWork'
  <2>1. \A x \in Senders' : x \in readers' /\ call'[x].left \in 1..HandlersOf[call'[x].event]
    BY <1>1, <1>7 DEF DInv, AtWork
  <2>2. \A x \in Workers : worker'[x].pc = "run" => worker'[x].job \in Jobs
    BY <1>3 DEF DInv, AtWork
  <2>3. \A x \in Workers : worker'[x].pc # "run" => call'[x].pc = "idle"
    BY <1>1, <1>3 DEF DInv, AtWork
  <2> QED
    BY <1>1, <2>1, <2>2, <2>3 DEF DInv, AtWork
<1>10. /\ Running' = Running \ {w} /\ w \in Running
       /\ RunningOf(v)' = RunningOf(v) \ {w} /\ w \in RunningOf(v)
       /\ \A e : e # v => RunningOf(e)' = RunningOf(e)
  <2>1. Running' = Running \ {w} /\ w \in Running
    BY <1>1, <1>3 DEF Running
  <2>2. \A x \in Running' : worker'[x] = worker[x]
    BY <1>3, <2>1 DEF Running
  <2> QED
    BY <2>1, <2>2 DEF RunningOf
<1>11. ASSUME NEW e \in Events, e # v PROVE Balance(e)'
  BY <1>1, <1>5, <1>6, <1>7, <1>8, <1>10, <1>11, Uninvolved
<1>12. Balance(v)'
  <2>1. Cardinality(RunningOf(v))' = Cardinality(RunningOf(v)) - 1
    <3>1. IsFiniteSet(RunningOf(v)) /\ Cardinality(RunningOf(v)) \in Nat
      BY <1>2, Finite DEF DInv
    <3>2. Cardinality(RunningOf(v) \ {w}) = Cardinality(RunningOf(v)) - 1
      BY <1>10, <3>1, FS_RemoveElement
    <3> QED
      BY <1>10, <3>2
  <2>2. Due(v)' = Due(v)
    <3> PICK q, r, t, b : /\ Cardinality(Places(jobs, v)) = q /\ Cardinality(RunningOf(v)) = r
                          /\ Cardinality(ToSend(v)) = t /\ handled[v] = b
      OBVIOUS
    <3>1. b \in Nat /\ q \in Nat /\ r \in Nat /\ t \in Nat
      BY <1>2, Finite DEF DInv, Types
    <3>2. Due(v)' = (b + 1) + q + (r - 1) + t /\ Due(v) = b + q + r + t
      BY <1>6, <1>7, <1>8, <2>1 DEF Due
    <3>3. (b + 1) + q + (r - 1) + t = b + q + r + t
      BY ONLY <3>1
    <3> QED
      BY <3>2, <3>3
  <2>3. Balance(v)
    BY <1>2 DEF DInv, Accounts
  <2> QED
    BY <1>1, <1>7, <1>8, <2>2, <2>3 DEF Balance
<1>13. Busy' <= pending'
  <2>1. /\ pending \in Int /\ Busy <= pending /\ Cardinality(Running) \in Nat
        /\ Cardinality(Senders) \in Nat /\ Len(jobs) \in Nat /\ IsFiniteSet(Running)
    BY <1>2, Finite DEF DInv, Types, Accounts
  <2>2. Cardinality(Running)' = Cardinality(Running) - 1
    BY <1>10, <2>1, FS_RemoveElement
  <2> QED
    BY <1>1, <1>7, <2>1, <2>2 DEF Busy
<1>14. Stages'
  <2>1. started /\ ~WorkersGone
    BY <1>1 DEF DInv, Stages, WorkersGone
  <2>2. \A x \in Workers : worker'[x].pc = "gone" => worker[x].pc = "gone"
    BY <1>3
  <2> QED
    BY <1>1, <1>7, <2>1, <2>2 DEF DInv, Stages
<1>15. Drains'
  <2>1. \A e \in Events : accepted[e] <= accepted'[e] /\ handled[e] <= handled'[e]
    BY <1>1, <1>6 DEF DInv, Types
  <2> QED
    BY <1>1, <1>4, <1>5, <2>1, DrainsStay
<1> QED
  BY <1>5, <1>9, <1>11, <1>12, <1>13, <1>14, <1>15 DEF DInv, Accounts

\* A worker ends on the closed channel.
LEMMA EndKeeps ==
  ASSUME DInv, NEW w \in Workers, WorkerEnds(w)
  PROVE  DInv'
<1>1. /\ worker[w].pc = "idle" /\ ~jobsOpen /\ jobs = <<>>
      /\ worker' = [worker EXCEPT ![w].pc = "gone"]
      /\ UNCHANGED <<store, started, closed, readers, jobs, jobsOpen, pending, call, shutdown,
                     drain, owed, accepted, handled>>
  BY DEF WorkerEnds, QueueEnds
<1>2. /\ worker'[w].pc = "gone" /\ \A x \in Workers : x # w => worker'[x] = worker[x]
  BY <1>1 DEF DInv, Types
<1>3. Types'
  <2>1. worker[w] \in [pc : {"none", "idle", "run", "gone"}, job : Jobs \union {NoJob}]
    BY DEF DInv, Types
  <2>2. [worker[w] EXCEPT !.pc = "gone"]
          \in [pc : {"none", "idle", "run", "gone"}, job : Jobs \union {NoJob}]
    BY <2>1
  <2>3. worker' = [worker EXCEPT ![w] = [worker[w] EXCEPT !.pc = "gone"]]
    BY <1>1
  <2>4. worker' \in [Workers -> [pc : {"none", "idle", "run", "gone"}, job : Jobs \union {NoJob}]]
    BY <2>2, <2>3 DEF DInv, Types
  <2> QED
    BY <1>1, <2>4 DEF DInv, Types
<1>4. Running' = Running /\ Senders' = Senders
  BY <1>1, <1>2 DEF Running, Senders
<1>5. \A e : RunningOf(e)' = RunningOf(e)
  <2>1. \A x \in Running : worker'[x] = worker[x]
    BY <1>1, <1>2 DEF Running
  <2> QED
    BY <1>4, <2>1 DEF RunningOf
<1>6. AtWork'
  <2>1. \A x \in Workers : worker'[x].pc = "run" => worker'[x].job \in Jobs
    BY <1>2 DEF DInv, AtWork
  <2>2. \A x \in Workers : worker'[x].pc # "run" => call'[x].pc = "idle"
    BY <1>1, <1>2 DEF DInv, AtWork
  <2>3. \A x \in Senders' : x \in readers' /\ call'[x].left \in 1..HandlersOf[call'[x].event]
    BY <1>1, <1>4 DEF DInv, AtWork
  <2> QED
    BY <1>1, <2>1, <2>2, <2>3 DEF DInv, AtWork
<1>7. \A e : /\ Places(jobs, e)' = Places(jobs, e) /\ Stored(e)' = Stored(e)
             /\ SendersOf(e)' = SendersOf(e) /\ ToSend(e)' = ToSend(e)
  BY <1>1, <1>4 DEF SendersOf, ToSend, Places, Stored
<1>8. \A e \in Events : Balance(e)'
  BY <1>1, <1>3, <1>5, <1>7, Uninvolved
<1>9. Busy' <= pending'
  BY <1>1, <1>4 DEF Busy, DInv, Accounts
<1>10. Stages'
  <2>1. started /\ ~WorkersGone
    BY <1>1 DEF DInv, Stages, WorkersGone
  <2>2. \A x \in Workers : worker'[x].pc = "gone" => ~jobsOpen /\ jobs = <<>>
    BY <1>1
  <2> QED
    BY <1>1, <1>4, <2>1, <2>2 DEF DInv, Stages
<1>11. Drains'
  <2>1. \A e \in Events : accepted[e] <= accepted'[e] /\ handled[e] <= handled'[e]
    BY <1>1 DEF DInv, Types
  <2> QED
    BY <1>1, <1>3, <2>1, DrainsStay
<1> QED
  BY <1>3, <1>6, <1>8, <1>9, <1>10, <1>11 DEF DInv, Accounts

-----------------------------------------------------------------------------
(* Drain and Shutdown.                                                        *)

\* Nothing is on its way: all that was accepted has been handled.
LEMMA Settled ==
  ASSUME DInv, Len(jobs) = 0, Running = {}, Senders = {}, NEW e \in Events
  PROVE  HandledAll(e, accepted)
<1>1. /\ Places(jobs, e) = {} /\ RunningOf(e) = {} /\ SendersOf(e) = {} /\ ToSend(e) = {}
  <2>1. DOMAIN jobs = 1..Len(jobs)
    BY DEF DInv, Types
  <2> QED
    BY <2>1 DEF Places, RunningOf, SendersOf, ToSend
<1>2. Cardinality({}) = 0
  BY FS_EmptySet
<1> PICK h, a, b : HandlersOf[e] = h /\ accepted[e] = a /\ handled[e] = b
  OBVIOUS
<1>3. h \in Nat /\ a \in Nat /\ b \in Nat
  BY BusAssumption DEF DInv, Types
<1>4. h * (a + 0) <= b + 0 + 0 + 0
  BY <1>1, <1>2 DEF DInv, Accounts, Balance, Due
<1>5. a + 0 = a /\ b + 0 + 0 + 0 = b /\ h * a = a * h
  BY ONLY <1>3
<1> QED
  BY <1>4, <1>5 DEF HandledAll

\* The wait group is at zero: nothing is on its way.
LEMMA NothingPending ==
  ASSUME DInv, pending = 0
  PROVE  \A e \in Events : HandledAll(e, accepted)
<1> SUFFICES ASSUME NEW e \in Events PROVE HandledAll(e, accepted)
  OBVIOUS
<1>1. /\ Len(jobs) \in Nat /\ Cardinality(Running) \in Nat /\ Cardinality(Senders) \in Nat
      /\ IsFiniteSet(Running) /\ IsFiniteSet(Senders) /\ Busy <= 0
  BY Finite DEF DInv, Types, Accounts
<1>2. Len(jobs) = 0 /\ Cardinality(Running) = 0 /\ Cardinality(Senders) = 0
  BY <1>1 DEF Busy
<1>3. Running = {} /\ Senders = {}
  BY <1>1, <1>2, FS_EmptySet
<1> QED
  BY <1>2, <1>3, Settled

\* What was accepted before has been handled if all has been.
LEMMA LessOwed ==
  ASSUME DInv, NEW d \in Drainers, NEW e \in Events, HandledAll(e, accepted)
  PROVE  HandledAll(e, owed[d])
<1> PICK h, a, b, o : HandlersOf[e] = h /\ accepted[e] = a /\ handled[e] = b /\ owed[d][e] = o
  OBVIOUS
<1>1. h \in Nat /\ a \in Nat /\ b \in Nat /\ o \in Nat /\ o <= a
  BY BusAssumption DEF DInv, Types, Drains
<1>2. a * h <= b
  BY DEF HandledAll
<1>3. h * o <= h * a /\ h * o = o * h /\ h * a = a * h /\ h * o \in Nat /\ h * a \in Nat
  BY <1>1, Times
<1>4. o * h <= b
  BY <1>1, <1>2, <1>3
<1> QED
  BY <1>4 DEF HandledAll

\* A Drain returns nil only with the wait group at zero.
LEMMA DrainKeeps ==
  ASSUME DInv, NEW d \in Drainers, Drain(d) \/ Wakes(d) \/ DrainExpires(d)
  PROVE  DInv'
<1>1. UNCHANGED <<store, started, closed, readers, jobs, jobsOpen, pending, call, worker,
                  shutdown, accepted, handled>>
  BY DEF Drain, Wakes, DrainExpires
<1>2. AtWork' /\ Accounts'
  BY <1>1, Quiet
<1>3. /\ DOMAIN drain' = Drainers /\ \A x \in Drainers : x # d => drain'[x] = drain[x]
      /\ drain'[d] = "nil" => drain[d] = "nil" \/ pending = 0
  BY DEF DInv, Types, Drain, Wakes, DrainExpires
<1>4. /\ owed' \in [Drainers -> [Events -> Nat]] /\ \A x \in Drainers : x # d => owed'[x] = owed[x]
      /\ owed'[d] = accepted \/ (owed'[d] = owed[d] /\ ~Drain(d))
  BY DEF DInv, Types, Drain, Wakes, DrainExpires
<1>5. Types'
  BY <1>1, <1>3, <1>4 DEF DInv, Types
<1>6. Stages'
  <2>1. Senders' = Senders /\ Running' = Running
    BY <1>1 DEF Senders, Running
  <2> QED
    BY <1>1, <2>1 DEF DInv, Stages, WorkersGone
<1>7. Drains'
  <2> SUFFICES ASSUME NEW x \in Drainers, NEW e \in Events
               PROVE  /\ owed'[x][e] <= accepted[e]
                      /\ drain'[x] = "nil" => handled[e] >= owed'[x][e] * HandlersOf[e]
    BY <1>1 DEF Drains, HandledAll
  <2>1. accepted[e] \in Nat
    BY DEF DInv, Types
  <2>2. /\ owed[x][e] <= accepted[e]
        /\ drain[x] = "nil" => HandledAll(e, owed[x])
    BY DEF DInv, Drains
  <2>3. CASE x # d
    BY <1>3, <1>4, <2>2, <2>3 DEF HandledAll
  <2>4. CASE x = d /\ pending = 0
    <3>1. HandledAll(e, accepted)
      BY <2>4, NothingPending
    <3>2. HandledAll(e, owed[x])
      BY <3>1, LessOwed
    <3> QED
      BY <1>4, <2>1, <2>2, <2>4, <3>1, <3>2 DEF HandledAll
  <2>5. CASE x = d /\ pending # 0
    <3>1. drain'[d] = "nil" => drain[d] = "nil" /\ ~Drain(d)
      BY <1>3, <2>5 DEF Drain
    <3>2. drain'[d] = "nil" => owed'[d] = owed[d]
      BY <3>1 DEF Drain, Wakes, DrainExpires
    <3> QED
      BY <1>4, <2>1, <2>2, <2>5, <3>1, <3>2 DEF HandledAll
  <2> QED
    BY <2>3, <2>4, <2>5
<1> QED
  BY <1>2, <1>5, <1>6, <1>7 DEF DInv

\* A context ends, or Shutdown goes on: it closes the bus when nobody has the
\* lock, and returns nil when the workers are gone, or were never there.
LEMMA ShutdownKeeps ==
  ASSUME DInv, \/ \E r \in Recorders : ContextEnds(r)
               \/ CallShutdown \/ CloseBus \/ CloseJobs \/ ShutdownReturns \/ ShutdownExpires
  PROVE  DInv'
<1>1. UNCHANGED <<store, started, readers, jobs, pending, call, worker, drain, owed,
                  accepted, handled>>
  BY DEF ContextEnds, CallShutdown, CloseBus, CloseJobs, ShutdownReturns, ShutdownExpires
<1>2. AtWork' /\ Accounts'
  BY <1>1, Quiet
<1>3. Types'
  BY <1>1 DEF DInv, Types
<1>4. Drains'
  <2>1. \A e \in Events : accepted[e] <= accepted'[e] /\ handled[e] <= handled'[e]
    BY <1>1 DEF DInv, Types
  <2> QED
    BY <1>1, <1>3, <2>1, DrainsStay
<1>5. Stages'
  <2>1. Senders' = Senders /\ Running' = Running
    BY <1>1 DEF Senders, Running
  <2>2. CASE \E r \in Recorders : ContextEnds(r)
    BY <1>1, <2>1, <2>2 DEF DInv, Stages, WorkersGone, ContextEnds
  <2>3. CASE CallShutdown
    BY <1>1, <2>1, <2>3 DEF DInv, Stages, WorkersGone, CallShutdown
  <2>4. CASE CloseBus
    BY <1>1, <2>1, <2>4 DEF DInv, Stages, WorkersGone, CloseBus
  <2>5. CASE CloseJobs
    BY <1>1, <2>1, <2>5 DEF DInv, Stages, WorkersGone, CloseJobs
  <2>6. CASE ShutdownReturns
    BY <1>1, <2>1, <2>6 DEF DInv, Stages, WorkersGone, ShutdownReturns
  <2>7. CASE ShutdownExpires
    BY <1>1, <2>1, <2>7 DEF DInv, Stages, WorkersGone, ShutdownExpires
  <2> QED
    BY <2>2, <2>3, <2>4, <2>5, <2>6, <2>7
<1> QED
  BY <1>2, <1>3, <1>4, <1>5 DEF DInv

-----------------------------------------------------------------------------
(* The bus.                                                                   *)

\* Nothing recorded, nobody at work.
LEMMA BusInitHolds == BusInit => DInv
<1> SUFFICES ASSUME BusInit PROVE DInv
  OBVIOUS
<1>1. /\ \A c \in Recorders : call[c] = [pc |-> "lock", event |-> EventOf[c], left |-> 0, ctx |-> c]
      /\ \A c \in Workers : call[c] = NoRecord
      /\ DOMAIN call = Callers
  BY BusAssumption DEF BusInit, Callers
<1>2. /\ \A w \in Workers : worker[w] = [pc |-> "none", job |-> NoJob]
      /\ store = <<>> /\ jobs = <<>> /\ pending = 0 /\ ~started /\ ~closed /\ jobsOpen
      /\ readers = {} /\ shutdown = "none"
      /\ \A e \in Events : accepted[e] = 0 /\ handled[e] = 0
      /\ \A d \in Drainers : drain[d] = "none" /\ \A e \in Events : owed[d][e] = 0
  BY DEF BusInit
<1>3. Types
  <2>1. \A c \in Callers : call[c] \in Records
    <3>1. \A c \in Recorders : EventOf[c] \in Events
      BY BusAssumption
    <3>2. ASSUME NEW c \in Recorders PROVE call[c] \in Records
      <4>1. call[c] = [pc |-> "lock", event |-> EventOf[c], left |-> 0, ctx |-> c]
        BY <1>1
      <4>2. EventOf[c] \in Events \union {None} /\ c \in Recorders \union {None} /\ 0 \in Nat
        BY <3>1
      <4> QED
        BY <4>1, <4>2 DEF Records
    <3>3. NoRecord \in Records
      BY DEF NoRecord, Records
    <3> QED
      BY <1>1, <3>2, <3>3 DEF Callers
  <2>2. call \in [Callers -> Records]
    BY <2>1 DEF BusInit
  <2>3. worker \in [Workers -> [pc : {"none", "idle", "run", "gone"}, job : Jobs \union {NoJob}]]
    BY DEF BusInit
  <2> QED
    BY <2>2, <2>3 DEF Types, BusInit
<1>4. Running = {} /\ Senders = {}
  <2>1. \A c \in Callers : call[c].pc # "send"
    BY <1>1 DEF Callers, NoRecord
  <2> QED
    BY <1>2, <2>1 DEF Running, Senders
<1>5. AtWork
  <2>1. \A c \in Recorders : EventOf[c] \in Events
    BY BusAssumption
  <2>2. NoRecord.pc = "idle"
    BY DEF NoRecord
  <2> QED
    BY <1>1, <1>2, <1>4, <2>1, <2>2 DEF AtWork, Callers
<1>6. ASSUME NEW e \in Events PROVE Balance(e)
  <2>1. Places(jobs, e) = {} /\ RunningOf(e) = {} /\ SendersOf(e) = {} /\ ToSend(e) = {}
        /\ Stored(e) = {}
    BY <1>2, <1>4 DEF Places, RunningOf, SendersOf, ToSend, Stored
  <2>2. Cardinality({}) = 0 /\ HandlersOf[e] \in Nat
    BY FS_EmptySet, BusAssumption
  <2>3. HandlersOf[e] * 0 = 0 /\ HandlersOf[e] * (0 + 0) = 0
    BY ONLY <2>2
  <2>4. accepted[e] = 0 /\ handled[e] = 0
    BY <1>2
  <2>5. Due(e) = 0
    BY <2>1, <2>2, <2>4 DEF Due
  <2>6. Cardinality(Stored(e)) = 0 /\ Cardinality(SendersOf(e)) = 0
    BY <2>1, <2>2
  <2> QED
    BY <2>3, <2>4, <2>5, <2>6 DEF Balance
<1>7. Busy <= pending
  BY <1>2, <1>4, FS_EmptySet DEF Busy
<1>8. Stages
  BY <1>2, <1>4 DEF Stages
<1>9. Drains
  BY <1>2 DEF Drains
<1> QED
  BY <1>3, <1>5, <1>6, <1>7, <1>8, <1>9 DEF DInv, Accounts

\* Every step of a caller, a worker, a Drain and Shutdown keeps the accounts.
LEMMA BusStepKeeps == DInv /\ [BusNext]_busVars => DInv'
<1> SUFFICES ASSUME DInv, [BusNext]_busVars PROVE DInv'
  OBVIOUS
<1>1. CASE UNCHANGED busVars
  <2>1. AtWork' /\ Accounts'
    BY <1>1, Quiet DEF busVars
  <2>2. Types' /\ Drains'
    BY <1>1 DEF busVars, DInv, Types, Drains, HandledAll
  <2>3. Senders' = Senders /\ Running' = Running
    BY <1>1 DEF busVars, Senders, Running
  <2>4. Stages'
    BY <1>1, <2>3 DEF busVars, DInv, Stages, WorkersGone
  <2> QED
    BY <2>1, <2>2, <2>4 DEF DInv
<1>2. CASE \E c \in Callers : Enter(c) \/ Send(c) \/ GiveUp(c)
  BY <1>2, EnterKeeps, SendKeeps, GiveUpKeeps
<1>3. CASE \E w \in Workers : TakeJob(w) \/ FinishJob(w) \/ WorkerEnds(w)
  BY <1>3, TakeKeeps, FinishKeeps, EndKeeps
<1>4. CASE StartWorkers
  BY <1>4, StartKeeps
<1>5. CASE \E d \in Drainers : Drain(d) \/ Wakes(d) \/ DrainExpires(d)
  BY <1>5, DrainKeeps
<1>6. CASE \/ \E r \in Recorders : ContextEnds(r)
           \/ CallShutdown \/ CloseBus \/ CloseJobs \/ ShutdownReturns \/ ShutdownExpires
  BY <1>6, ShutdownKeeps
<1> QED
  BY <1>1, <1>2, <1>3, <1>4, <1>5, <1>6 DEF BusNext, Proceeds

\* Shutdown that returns nil found the workers gone, and so the channel empty.
LEMMA NilHolds == DInv => NilMeansHandled
<1> SUFFICES ASSUME DInv PROVE NilMeansHandled
  OBVIOUS
<1>1. ASSUME shutdown = "nil", NEW e \in Events PROVE HandledAll(e, accepted)
  <2>1. CASE ~started
    <3>1. accepted[e] = 0 /\ handled[e] \in Nat /\ HandlersOf[e] \in Nat
      BY <2>1, BusAssumption DEF DInv, Types, Stages
    <3>2. 0 * HandlersOf[e] = 0
      BY ONLY <3>1
    <3> QED
      BY <3>1, <3>2 DEF HandledAll
  <2>2. CASE WorkersGone
    <3>1. PICK w \in Workers : worker[w].pc = "gone"
      BY <2>2, BusAssumption DEF WorkersGone
    <3>2. jobs = <<>> /\ readers = {}
      BY <3>1 DEF DInv, Stages
    <3>3. Len(jobs) = 0 /\ Running = {} /\ Senders = {}
      BY <2>2, <3>2 DEF WorkersGone, Running, DInv, AtWork
    <3> QED
      BY <3>3, Settled
  <2> QED
    BY <1>1, <2>1, <2>2 DEF DInv, Stages
<1>2. \A d \in Drainers : drain[d] = "nil" => \A e \in Events : HandledAll(e, owed[d])
  BY DEF DInv, Drains
<1>3. ASSUME NEW e \in Events
      PROVE  handled[e] <= HandlersOf[e] * Cardinality({i \in DOMAIN store : store[i] = e})
  <2> PICK q, r, t, b, m : /\ Cardinality(Places(jobs, e)) = q /\ Cardinality(RunningOf(e)) = r
                           /\ Cardinality(ToSend(e)) = t /\ handled[e] = b
                           /\ HandlersOf[e] * Cardinality(Stored(e)) = m
    OBVIOUS
  <2>1. q \in Nat /\ r \in Nat /\ t \in Nat /\ b \in Nat
    BY Finite DEF DInv, Types
  <2>2. m \in Nat
    BY BusAssumption, Finite, Times DEF DInv
  <2>3. b + q + r + t <= m
    BY DEF DInv, Accounts, Balance, Due
  <2>4. b <= m
    BY ONLY <2>1, <2>2, <2>3
  <2> QED
    BY <2>4 DEF Stored
<1>4. ~jobsOpen => \A c \in Callers : call[c].pc # "send"
  BY DEF DInv, Stages, AtWork, Senders
<1> QED
  BY <1>1, <1>2, <1>3, <1>4 DEF NilMeansHandled

\* The accounts are right in every state of the bus, for any recorders, workers
\* and handlers and any capacity of the channel.
THEOREM AccountsBalance == BusSpec => []DInv
BY BusInitHolds, BusStepKeeps, PTL DEF BusSpec

\* Drain and Shutdown of the in-memory bus mean the nil that they return: what was
\* accepted before has been handled by each handler, no handler has run twice, and
\* no Record sends on the closed channel (bus.go, dispatcher.go).
THEOREM NilMeansDone == BusSpec => []NilMeansHandled
BY AccountsBalance, NilHolds, PTL

=============================================================================
