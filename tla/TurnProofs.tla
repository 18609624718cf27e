------------------------------ MODULE TurnProofs ------------------------------
(***************************************************************************)
(* Proofs about turns that nothing disturbs: as long as the turns of a      *)
(* session do not overlap and its store does not fail, and whatever crashes *)
(* or fails besides, services accept every request, the model is told what  *)
(* the transcript says, and the record of a turn's end says where its       *)
(* messages are.  For any messages, sessions, completers and workers.       *)
(***************************************************************************)
EXTENDS ConversationProofs


-----------------------------------------------------------------------------
(* What repairHistory makes of a transcript whose open calls are at its end.  *)

\* Calls are open in the last message only.
OpenAtEnd(l) ==
  \A i \in 1..Len(l) : \A k \in 1..Len(l[i].calls) :
     Satisfied(l, i, l[i].calls[k]) \/ i = Len(l)

\* The synthetic results of calls.
ResultsOf(calls) == [k \in 1..Len(calls) |-> ToolResultMessage(calls[k], Nobody)]

\* The results of calls are as many messages as there are calls.
LEMMA ResultsOfCalls ==
  ASSUME NEW cs \in Seq(Ids)
  PROVE  /\ ResultsOf(cs) \in Seq(Messages) /\ Len(ResultsOf(cs)) = Len(cs)
         /\ \A k \in 1..Len(cs) : /\ ResultsOf(cs)[k] = ToolResultMessage(cs[k], Nobody)
                                  /\ ResultsOf(cs)[k].role = "tool"
                                  /\ ResultsOf(cs)[k].callID = cs[k]
                                  /\ ResultsOf(cs)[k].calls = <<>>
<1>1. Len(cs) \in Nat /\ \A k \in 1..Len(cs) : cs[k] \in Ids
  OBVIOUS
<1>2. ASSUME NEW k \in 1..Len(cs)
      PROVE  /\ ToolResultMessage(cs[k], Nobody) \in Messages
             /\ ToolResultMessage(cs[k], Nobody).role = "tool"
             /\ ToolResultMessage(cs[k], Nobody).callID = cs[k]
             /\ ToolResultMessage(cs[k], Nobody).calls = <<>>
  BY <1>1, ResultIsMessage DEF Results, ToolResultMessage, Message
<1>3. /\ ResultsOf(cs) \in [1..Len(cs) -> Messages]
      /\ \A k \in 1..Len(cs) : ResultsOf(cs)[k] = ToolResultMessage(cs[k], Nobody)
  BY <1>2 DEF ResultsOf
<1>4. ResultsOf(cs) \in Seq(Messages) /\ Len(ResultsOf(cs)) = Len(cs)
  BY <1>1, <1>3
<1> QED
  BY <1>2, <1>3, <1>4

\* The parts begin d elements apart.
Even(off, ss, d) == \A i \in 1..Len(ss) : off[i] = IF d = 0 THEN 0 ELSE i - 1

\* Parts of one element each, up to the last, or of none.
LEMMA EvenParts ==
  ASSUME NEW S, NEW ss \in Seq(Seq(S)), NEW t \in Seq(S), NEW off, Places(off, ss, t),
         NEW d \in {0, 1}, \A i \in 1..Len(ss) : i < Len(ss) => Len(ss[i]) = d
  PROVE  Even(off, ss, d)
<1> DEFINE T == {k \in Nat : k + 1 <= Len(ss) => off[k + 1] = IF d = 0 THEN 0 ELSE k}
<1>1. /\ off \in [1..(Len(ss) + 1) -> Nat] /\ off[1] = 0 /\ Len(ss) \in Nat
      /\ \A i \in 1..Len(ss) : off[i + 1] = off[i] + Len(ss[i])
  BY DEF Places
<1>2. 0 \in T
  BY <1>1
<1>3. ASSUME NEW k \in Nat, k \in T PROVE k + 1 \in T
  <2> SUFFICES ASSUME (k + 1) + 1 <= Len(ss)
               PROVE  off[(k + 1) + 1] = IF d = 0 THEN 0 ELSE k + 1
    OBVIOUS
  <2>1. k + 1 \in 1..Len(ss) /\ k + 1 < Len(ss)
    BY <1>1
  <2>2. off[k + 1] = (IF d = 0 THEN 0 ELSE k) /\ Len(ss[k + 1]) = d
    BY <1>1, <1>3, <2>1
  <2>3. off[(k + 1) + 1] = off[k + 1] + Len(ss[k + 1])
    BY <1>1, <2>1
  <2> QED
    BY <2>2, <2>3
<1> HIDE DEF T
<1>4. Nat \subseteq T
  BY <1>2, <1>3, Inductively
<1>5. ASSUME NEW i \in 1..Len(ss) PROVE off[i] = IF d = 0 THEN 0 ELSE i - 1
  <2>1. i - 1 \in T /\ (i - 1) + 1 = i /\ i <= Len(ss)
    BY <1>1, <1>4
  <2> USE DEF T
  <2> QED
    BY <2>1
<1> QED
  BY <1>5 DEF Even

\* The sequence of one-element parts is the sequence of the elements.
LEMMA Singles ==
  ASSUME NEW S, NEW q \in Seq(S), NEW ss \in Seq(Seq(S)), Len(ss) = Len(q),
         \A i \in 1..Len(q) : ss[i] = <<q[i]>>
  PROVE  FlattenSeq(ss) = q
<1>1. PICK t : t = FlattenSeq(ss) /\ t \in Seq(S)
  BY Flattened
<1>2. PICK off : Places(off, ss, t)
  BY <1>1, Flattened
<1>3. Len(q) \in Nat /\ \A i \in 1..Len(q) : Len(ss[i]) = 1 /\ ss[i][1] = q[i]
  <2>1. ASSUME NEW i \in 1..Len(q) PROVE Len(ss[i]) = 1 /\ ss[i][1] = q[i]
    <3>1. ss[i] = <<q[i]>>
      OBVIOUS
    <3>2. PICK x : x = q[i]
      OBVIOUS
    <3>3. Len(<<x>>) = 1 /\ <<x>>[1] = x
      OBVIOUS
    <3> QED
      BY ONLY <3>1, <3>2, <3>3, Zenon
  <2> QED
    BY <2>1
<1>4. \A i \in 1..Len(q) : off[i] = i - 1
  <2>1. \A i \in 1..Len(ss) : i < Len(ss) => Len(ss[i]) = 1
    BY <1>3
  <2>2. PICK d \in {0, 1} : d = 1
    OBVIOUS
  <2>3. \A i \in 1..Len(ss) : i < Len(ss) => Len(ss[i]) = d
    BY <2>1, <2>2
  <2>4. Even(off, ss, d)
    BY <1>1, <1>2, <2>3, EvenParts
  <2> QED
    BY <2>2, <2>4 DEF Even
<1>5. /\ off[1] = 0 /\ off[Len(q) + 1] = Len(t)
      /\ \A i \in 1..Len(q) : off[i + 1] = off[i] + Len(ss[i])
      /\ \A i \in 1..Len(q) : \A j \in 1..Len(ss[i]) : t[off[i] + j] = ss[i][j]
  BY <1>2 DEF Places
<1>6. Len(t) = Len(q)
  <2>1. CASE Len(q) = 0
    BY <1>5, <2>1
  <2>2. CASE Len(q) # 0
    <3>1. Len(q) \in 1..Len(q)
      BY <1>3, <2>2
    <3>2. off[Len(q) + 1] = off[Len(q)] + 1 /\ off[Len(q)] = Len(q) - 1
      BY <1>3, <1>4, <1>5, <3>1
    <3> QED
      BY <1>3, <1>5, <3>2
  <2> QED
    BY <2>1, <2>2
<1>7. ASSUME NEW i \in 1..Len(q) PROVE t[i] = q[i]
  <2>1. 1 \in 1..Len(ss[i])
    BY <1>3
  <2>2. t[off[i] + 1] = q[i] /\ off[i] = i - 1
    BY <1>3, <1>4, <1>5, <2>1
  <2>3. off[i] + 1 = i
    BY <1>3, <2>2
  <2> QED
    BY <2>2, <2>3
<1> QED
  BY <1>1, <1>6, <1>7, SeqEqual

\* What comes before the last part.
Heads(pre, ss, d) ==
  /\ Len(pre) = IF d = 0 THEN 0 ELSE Len(ss) - 1
  /\ \A i \in 1..Len(ss) : i < Len(ss) => Len(ss[i]) = d
  /\ \A i \in 1..Len(ss) : i < Len(ss) /\ d = 1 => ss[i][1] = pre[i]

\* Parts of at most one element each and a last one.
LEMMA LastPart ==
  ASSUME NEW S, NEW ss \in Seq(Seq(S)), Len(ss) > 0, NEW pre \in Seq(S),
         NEW d \in {0, 1}, Heads(pre, ss, d)
  PROVE  FlattenSeq(ss) = pre \o ss[Len(ss)]
<1>1. PICK t : t = FlattenSeq(ss) /\ t \in Seq(S)
  BY Flattened
<1>2. PICK off : Places(off, ss, t)
  BY <1>1, Flattened
<1>3. PICK n \in Nat : n = Len(ss) /\ n > 0
  OBVIOUS
<1>4. PICK z : z = ss[n] /\ z \in Seq(S)
  BY <1>3
<1>5. /\ Len(pre) = IF d = 0 THEN 0 ELSE n - 1
      /\ \A i \in 1..n : i < n => Len(ss[i]) = d
      /\ \A i \in 1..n : i < n /\ d = 1 => ss[i][1] = pre[i]
  BY <1>3 DEF Heads
<1>6. \A i \in 1..n : off[i] = IF d = 0 THEN 0 ELSE i - 1
  <2>1. \A i \in 1..Len(ss) : i < Len(ss) => Len(ss[i]) = d
    BY <1>3, <1>5
  <2>2. Even(off, ss, d)
    BY <1>1, <1>2, <2>1, EvenParts
  <2> QED
    BY <1>3, <2>2 DEF Even
<1>7. /\ off[n + 1] = Len(t)
      /\ \A i \in 1..n : off[i + 1] = off[i] + Len(ss[i])
      /\ \A i \in 1..n : \A j \in 1..Len(ss[i]) : t[off[i] + j] = ss[i][j]
  BY <1>2, <1>3 DEF Places
<1>8. n \in 1..n /\ off[n] = Len(pre)
  BY <1>3, <1>5, <1>6
<1>9. Len(t) = Len(pre) + Len(z)
  BY <1>4, <1>7, <1>8
<1>10. ASSUME NEW i \in 1..Len(pre) PROVE t[i] = pre[i]
  <2>1. d = 1 /\ i \in 1..n /\ i < n
    BY <1>3, <1>5, <1>10
  <2>2. 1 \in 1..Len(ss[i])
    BY <1>5, <2>1
  <2>3. t[off[i] + 1] = ss[i][1]
    BY <1>7, <2>1, <2>2
  <2>4. off[i] + 1 = i
    BY <1>6, <2>1
  <2> QED
    BY <1>5, <2>1, <2>3, <2>4
<1>11. ASSUME NEW j \in 1..Len(z) PROVE t[Len(pre) + j] = z[j]
  BY <1>4, <1>7, <1>8
<1>12. /\ pre \o z \in Seq(S) /\ Len(pre) \in Nat /\ Len(z) \in Nat
       /\ Len(pre \o z) = Len(pre) + Len(z)
       /\ \A i \in 1..Len(pre) : (pre \o z)[i] = pre[i]
       /\ \A j \in 1..Len(z) : (pre \o z)[Len(pre) + j] = z[j]
  BY <1>4, Joined
<1>13. PICK u : u = pre \o z /\ u \in Seq(S) /\ Len(u) = Len(pre) + Len(z)
  BY <1>12
<1>14. ASSUME NEW i \in 1..Len(u) PROVE t[i] = u[i]
  <2>1. CASE i <= Len(pre)
    BY <1>10, <1>12, <1>13, <2>1
  <2>2. CASE ~(i <= Len(pre))
    <3>1. i - Len(pre) \in 1..Len(z) /\ Len(pre) + (i - Len(pre)) = i
      BY <1>12, <1>13, <2>2
    <3>2. t[Len(pre) + (i - Len(pre))] = z[i - Len(pre)]
      BY <1>11, <3>1
    <3>3. u[Len(pre) + (i - Len(pre))] = z[i - Len(pre)]
      BY <1>12, <1>13, <3>1
    <3> QED
      BY <3>1, <3>2, <3>3
  <2> QED
    BY <2>1, <2>2
<1>15. t = u
  BY <1>1, <1>9, <1>13, <1>14, SeqEqual
<1> QED
  BY <1>1, <1>3, <1>4, <1>13, <1>15

\* The calls of the last message have no result yet: nothing is behind it.
LEMMA MissingAtEnd ==
  ASSUME NEW l \in Seq(Messages), OpenAtEnd(l), NEW i \in 1..Len(l)
  PROVE  Missing(l, i) = IF i = Len(l) THEN ResultsOf(l[i].calls) ELSE <<>>
<1> DEFINE cs == l[i].calls
           ss == [k \in DOMAIN cs |->
                    IF Satisfied(l, i, cs[k]) THEN <<>>
                    ELSE <<ToolResultMessage(cs[k], Nobody)>>]
<1>1. cs \in Seq(Ids) /\ Len(l) \in Nat
  <2>1. l[i] \in Messages /\ Len(l) \in Nat
    OBVIOUS
  <2> QED
    BY <2>1 DEF Messages
<1>2. Missing(l, i) = FlattenSeq(ss)
  BY DEF Missing
<1>3. CASE i # Len(l)
  <2>1. \A k \in 1..Len(cs) : Satisfied(l, i, cs[k])
    BY <1>3 DEF OpenAtEnd
  <2>2. Missing(l, i) = <<>>
    BY <2>1, MissingResults
  <2> QED
    BY <1>3, <2>2
<1>4. CASE i = Len(l)
  <2>1. ASSUME NEW id PROVE ~Satisfied(l, i, id)
    BY <1>1, <1>4 DEF Satisfied
  <2> HIDE DEF cs
  <2>2. PICK q : q = ResultsOf(cs) /\ q \in Seq(Messages) /\ Len(q) = Len(cs)
    BY <1>1, ResultsOfCalls
  <2>3. \A k \in 1..Len(cs) : q[k] = ToolResultMessage(cs[k], Nobody)
    BY <1>1, <2>2, ResultsOfCalls
  <2>4. DOMAIN cs = 1..Len(cs) /\ Len(cs) \in Nat /\ Len(q) \in Nat
    BY <1>1, <2>2
  <2>5. \A k \in 1..Len(cs) : ss[k] = <<q[k]>>
    BY <2>1, <2>3, <2>4
  <2>6. ss = [k \in 1..Len(cs) |-> ss[k]]
    BY <2>4
  <2> HIDE DEF ss
  <2>7. ss \in Seq(Seq(Messages)) /\ Len(ss) = Len(q)
    <3>1. \A k \in 1..Len(cs) : q[k] \in Messages
      BY <2>2, <2>4
    <3>2. ASSUME NEW k \in 1..Len(cs) PROVE ss[k] \in Seq(Messages)
      <4>1. PICK x \in Messages : x = q[k]
        BY <3>1
      <4>2. <<x>> \in Seq(Messages)
        OBVIOUS
      <4> QED
        BY <2>5, <4>1, <4>2
    <3>3. ss \in [1..Len(cs) -> Seq(Messages)]
      BY <2>6, <3>2
    <3> QED
      BY <2>2, <2>4, <3>3
  <2>8. \A k \in 1..Len(q) : ss[k] = <<q[k]>>
    BY <2>2, <2>5
  <2>9. FlattenSeq(ss) = q
    BY <2>2, <2>7, <2>8, Singles
  <2> QED
    BY <1>2, <1>4, <2>2, <2>9 DEF cs
<1> QED
  BY <1>3, <1>4

\* The calls repairHistory answers itself.
OpenCalls(l) == IF l = <<>> THEN <<>> ELSE l[Len(l)].calls

\* Nothing is missing but the results of the last message's calls, and they follow
\* it: the repaired transcript is the transcript with them recorded at its end.
LEMMA RepairAtEnd ==
  ASSUME NEW l \in Seq(Messages), OpenAtEnd(l), NEW r, r = ResultsOf(OpenCalls(l))
  PROVE  Injected(l) = r /\ Repaired(l) = l \o r /\ r \in Seq(Messages)
<1> DEFINE mm == [i \in DOMAIN l |-> Missing(l, i)]
           ss == [i \in DOMAIN l |-> <<l[i]>> \o Missing(l, i)]
<1>1. Injected(l) = FlattenSeq(mm) /\ Repaired(l) = FlattenSeq(ss)
  BY DEF Injected, Repaired
<1>2. CASE l = <<>>
  <2>1. r = <<>>
    BY <1>2 DEF OpenCalls, ResultsOf
  <2>2. mm = <<>> /\ ss = <<>>
    BY <1>2
  <2> HIDE DEF mm, ss
  <2>3. FlattenSeq(mm) = <<>> /\ FlattenSeq(ss) = <<>>
    BY <2>2 DEF FlattenSeq
  <2>4. <<>> \in Seq(Messages) /\ <<>> \o <<>> = <<>>
    OBVIOUS
  <2> QED
    BY <1>1, <1>2, <2>1, <2>3, <2>4
<1>3. CASE l # <<>>
  <2>1. PICK n \in Nat : n = Len(l) /\ n > 0 /\ DOMAIN l = 1..n
    BY <1>3
  <2>2. n \in 1..n /\ l[n] \in Messages /\ \A i \in 1..n : l[i] \in Messages
    BY <2>1
  <2>3. r = ResultsOf(l[n].calls) /\ r \in Seq(Messages)
    <3>1. l[n].calls \in Seq(Ids)
      BY <2>2 DEF Messages
    <3> QED
      BY <1>3, <2>1, <3>1, ResultsOfCalls DEF OpenCalls
  <2>4. \A i \in 1..n : Missing(l, i) = IF i = n THEN r ELSE <<>>
    BY <2>1, <2>3, MissingAtEnd
  <2>5. mm = [i \in 1..n |-> IF i = n THEN r ELSE <<>>]
    BY <2>1, <2>4
  <2>6. ss = [i \in 1..n |-> <<l[i]>> \o (IF i = n THEN r ELSE <<>>)]
    BY <2>1, <2>4
  <2> HIDE DEF mm, ss
  <2>7. Injected(l) = r
    <3>1. mm \in Seq(Seq(Messages)) /\ Len(mm) = n /\ mm[n] = r
      <4>1. mm \in [1..n -> Seq(Messages)]
        BY <2>3, <2>5
      <4> QED
        BY <2>1, <2>2, <2>5, <4>1
    <3>2. PICK d \in {0, 1} : d = 0
      OBVIOUS
    <3>3. PICK pre : pre = <<>> /\ pre \in Seq(Messages)
      <4>1. <<>> \in Seq(Messages)
        OBVIOUS
      <4> QED
        BY <4>1
    <3>4. Heads(pre, mm, d)
      BY <2>5, <3>1, <3>2, <3>3 DEF Heads
    <3>5. FlattenSeq(mm) = pre \o mm[Len(mm)]
      BY <2>1, <3>1, <3>3, <3>4, LastPart
    <3> QED
      BY <1>1, <2>3, <3>1, <3>3, <3>5
  <2>8. Repaired(l) = l \o r
    <3>1. PICK x : x = l[n] /\ x \in Messages
      BY <2>2
    <3>2. <<x>> \o r \in Seq(Messages)
      BY <2>3, <3>1
    <3>3. ASSUME NEW i \in 1..n, i # n
          PROVE  ss[i] = <<l[i]>> /\ ss[i] \in Seq(Messages) /\ Len(ss[i]) = 1 /\ ss[i][1] = l[i]
      <4>1. PICK y \in Messages : y = l[i]
        BY <2>2
      <4>2. <<y>> \o <<>> = <<y>> /\ <<y>> \in Seq(Messages) /\ Len(<<y>>) = 1 /\ <<y>>[1] = y
        OBVIOUS
      <4>3. ss[i] = <<y>>
        BY <2>6, <3>3, <4>1, <4>2
      <4> QED
        BY <4>1, <4>2, <4>3
    <3>4. ss[n] = <<x>> \o r
      BY <2>2, <2>6, <3>1
    <3>5. ss \in Seq(Seq(Messages)) /\ Len(ss) = n
      <4>1. \A i \in 1..n : ss[i] \in Seq(Messages)
        BY <3>2, <3>3, <3>4
      <4>2. ss = [i \in 1..n |-> ss[i]]
        BY <2>6
      <4>3. ss \in [1..n -> Seq(Messages)]
        BY <4>1, <4>2
      <4> QED
        BY <2>1, <4>3
    <3>6. PICK d \in {0, 1} : d = 1
      OBVIOUS
    <3>7. PICK pre : pre = SubSeq(l, 1, n - 1)
      OBVIOUS
    <3>8. pre \in Seq(Messages) /\ Len(pre) = n - 1 /\ \A i \in 1..(n - 1) : pre[i] = l[i]
      BY <2>1, <3>7
    <3>9. Heads(pre, ss, d)
      BY <3>3, <3>5, <3>6, <3>8 DEF Heads
    <3>10. FlattenSeq(ss) = pre \o (<<x>> \o r)
      <4>1. FlattenSeq(ss) = pre \o ss[Len(ss)]
        BY <2>1, <3>5, <3>8, <3>9, LastPart
      <4> QED
        BY <3>4, <3>5, <4>1
    <3>11. pre \o (<<x>> \o r) = (pre \o <<x>>) \o r
      BY <2>3, <3>1, <3>8
    <3>12. pre \o <<x>> = l
      BY <2>1, <3>1, <3>8
    <3> QED
      BY <1>1, <3>10, <3>11, <3>12
  <2> QED
    BY <2>3, <2>7, <2>8
<1> QED
  BY <1>2, <1>3

\* A transcript without open calls is as it should be.
LEMMA NoRepair ==
  ASSUME NEW l \in Seq(Messages), AllBut(l, {})
  PROVE  OpenAtEnd(l) /\ Injected(l) = <<>> /\ Repaired(l) = l
<1>1. OpenAtEnd(l)
  BY DEF AllBut, OpenAtEnd
<1>2. Injected(l) = <<>>
  BY NothingOpen
<1>3. Repaired(l) = l \o <<>>
  <2>1. PICK r : r = ResultsOf(OpenCalls(l))
    OBVIOUS
  <2>2. Injected(l) = r /\ Repaired(l) = l \o r
    BY <1>1, <2>1, RepairAtEnd
  <2> QED
    BY <1>2, <2>2
<1>4. l \o <<>> = l
  OBVIOUS
<1> QED
  BY <1>1, <1>2, <1>3, <1>4

\* One message more on record: only its calls are open.
LEMMA RepairOfAppend ==
  ASSUME NEW v \in Seq(Messages), NEW x \in Messages, AllBut(v, {})
  PROVE  /\ OpenAtEnd(Append(v, x))
         /\ Repaired(Append(v, x)) = Append(v, x) \o ResultsOf(x.calls)
<1>1. PICK w : w = Append(v, x)
  OBVIOUS
<1>2. /\ w \in Seq(Messages) /\ Len(v) \in Nat /\ Len(w) = Len(v) + 1 /\ w[Len(w)] = x
      /\ \A i \in 1..Len(v) : w[i] = v[i]
  BY <1>1
<1>3. OpenAtEnd(w)
  <2>1. SUFFICES ASSUME NEW i \in 1..Len(w), i # Len(w), NEW k \in 1..Len(w[i].calls)
                 PROVE  Satisfied(w, i, w[i].calls[k])
    BY DEF OpenAtEnd
  <2>2. i \in 1..Len(v) /\ w[i] = v[i]
    BY <1>2, <2>1
  <2>3. Satisfied(v, i, w[i].calls[k])
    BY <2>1, <2>2 DEF AllBut
  <2>4. PICK j \in (i + 1)..Len(v) : v[j].role = "tool" /\ v[j].callID = w[i].calls[k]
    BY <2>3 DEF Satisfied
  <2>5. j \in (i + 1)..Len(w) /\ w[j] = v[j]
    BY <1>2, <2>4
  <2> QED
    BY <2>4, <2>5 DEF Satisfied
<1>4. OpenCalls(w) = x.calls
  <2>1. w # <<>>
    BY <1>2
  <2> QED
    BY <1>2, <2>1 DEF OpenCalls
<1>5. Repaired(w) = w \o ResultsOf(x.calls)
  BY <1>2, <1>3, <1>4, RepairAtEnd
<1> QED
  BY <1>1, <1>3, <1>5

-----------------------------------------------------------------------------
(* Transcripts in which each call is directly followed by its result.         *)

\* The n calls of the message at i are answered, in their order, by what directly
\* follows.
AnsweredNext(v, i, n) ==
  /\ v[i].role = "assistant"
  /\ i + n <= Len(v)
  /\ \A k \in 1..n : v[i + k].role = "tool" /\ v[i + k].callID = v[i].calls[k]
  /\ i + n < Len(v) => v[i + n + 1].role # "tool"

\* Each call is, and every answer is that of a call.
Tidy(v) ==
  /\ \A i \in 1..Len(v) : v[i].calls # <<>> => AnsweredNext(v, i, Len(v[i].calls))
  /\ \A i \in 1..Len(v) : v[i].role = "tool" =>
       \E j \in 1..(i - 1) : i <= j + Len(v[j].calls)

\* Messages that say the same to a service.
Alike(x, y) == x.role = y.role /\ x.calls = y.calls /\ x.callID = y.callID

\* Who made the messages does not matter.
LEMMA TidyAlike ==
  ASSUME NEW v, NEW w, Tidy(v), Len(w) = Len(v), \A i \in 1..Len(v) : Alike(w[i], v[i]),
         v \in Seq(Messages)
  PROVE  Tidy(w)
<1>1. Len(v) \in Nat
  OBVIOUS
<1>2. \A i \in 1..Len(v) : w[i].role = v[i].role /\ w[i].calls = v[i].calls /\ w[i].callID = v[i].callID
  BY DEF Alike
<1>3. ASSUME NEW i \in 1..Len(w), w[i].calls # <<>>, NEW n, Len(w[i].calls) = n
      PROVE  AnsweredNext(w, i, n)
  <2>1. i \in 1..Len(v) /\ v[i].calls # <<>> /\ n = Len(v[i].calls)
    BY <1>2, <1>3
  <2>2. /\ v[i].role = "assistant"
        /\ i + n <= Len(v)
        /\ \A k \in 1..n : v[i + k].role = "tool" /\ v[i + k].callID = v[i].calls[k]
        /\ i + n < Len(v) => v[i + n + 1].role # "tool"
    BY <2>1 DEF Tidy, AnsweredNext
  <2>3. n \in Nat
    <3>1. v[i] \in Messages
      BY <2>1
    <3>2. v[i].calls \in Seq(Ids)
      BY <3>1 DEF Messages
    <3> QED
      BY <2>1, <3>2
  <2>4. \A k \in 1..n : i + k \in 1..Len(v)
    BY <1>1, <2>2, <2>3
  <2>5. i + n < Len(v) => i + n + 1 \in 1..Len(v)
    BY <1>1, <2>3
  <2> QED
    BY <1>2, <2>1, <2>2, <2>4, <2>5 DEF AnsweredNext
<1>4. ASSUME NEW i \in 1..Len(w), w[i].role = "tool"
      PROVE  \E j \in 1..(i - 1) : i <= j + Len(w[j].calls)
  <2>1. PICK j \in 1..(i - 1) : i <= j + Len(v[j].calls)
    BY <1>2, <1>4 DEF Tidy
  <2>2. j \in 1..Len(v)
    BY <1>1, <2>1
  <2> QED
    BY <1>2, <2>1, <2>2
<1> QED
  BY <1>3, <1>4 DEF Tidy

\* w is v, the message x with the calls c, and their results.
WithResults(w, v, x, c, l, n) ==
  /\ Len(v) = l /\ Len(c) = n /\ Len(w) = l + 1 + n /\ w[l + 1] = x
  /\ x.calls = c /\ x.role # "tool" /\ (c # <<>> => x.role = "assistant")
  /\ \A i \in 1..l : w[i] = v[i]
  /\ \A k \in 1..n : /\ w[l + 1 + k].role = "tool" /\ w[l + 1 + k].calls = <<>>
                     /\ w[l + 1 + k].callID = c[k]

\* One message and the results of its calls behind a tidy transcript.
LEMMA TidyWithResults ==
  ASSUME NEW v \in Seq(Messages), Tidy(v), NEW x \in Messages, NEW c \in Seq(Ids),
         NEW l \in Nat, NEW n \in Nat, NEW w \in Seq(Messages), WithResults(w, v, x, c, l, n)
  PROVE  Tidy(w)
<1> USE DEF WithResults
<1>1. \A i \in 1..l : v[i] \in Messages
  OBVIOUS
<1>2. Len(w) \in Nat /\ l + 1 + n \in Nat
  OBVIOUS
<1>6. \A i \in 1..Len(w) : \/ i \in 1..l
                           \/ i = l + 1
                           \/ \E k \in 1..n : i = l + 1 + k
  <2>1. ASSUME NEW i \in 1..Len(w), ~(i <= l), i # l + 1 PROVE \E k \in 1..n : i = l + 1 + k
    <3>1. PICK k \in Int : i - (l + 1) = k
      OBVIOUS
    <3>2. k \in 1..n /\ i = l + 1 + k
      BY <2>1, <3>1
    <3> QED
      BY <3>2
  <2> QED
    BY <2>1
<1>7. ASSUME NEW i \in 1..Len(w), w[i].calls # <<>>, NEW p, Len(w[i].calls) = p
      PROVE  AnsweredNext(w, i, p)
  <2>1. CASE i \in 1..l
    <3>1. w[i] = v[i] /\ v[i].calls \in Seq(Ids)
      BY <1>1, <2>1 DEF Messages
    <3>2. /\ v[i].role = "assistant"
          /\ i + p <= l
          /\ \A k \in 1..p : v[i + k].role = "tool" /\ v[i + k].callID = v[i].calls[k]
          /\ i + p < l => v[i + p + 1].role # "tool"
      <4>1. AnsweredNext(v, i, p)
        BY <1>1, <1>7, <2>1, <3>1 DEF Tidy
      <4> QED
        BY <1>1, <4>1 DEF AnsweredNext
    <3>3. p \in Nat
      BY <1>7, <3>1
    <3>4. \A k \in 1..p : i + k \in 1..l
      BY <1>1, <3>2, <3>3
    <3>5. \A k \in 1..p : w[i + k].role = "tool" /\ w[i + k].callID = w[i].calls[k]
      BY <3>1, <3>2, <3>4, SMTT(30)
    <3>6. w[i + p + 1].role # "tool"
      <4>1. CASE i + p < l
        <5>1. i + p + 1 \in 1..l
          BY <1>1, <3>3, <4>1
        <5> QED
          BY <3>2, <4>1, <5>1
      <4>2. CASE ~(i + p < l)
        <5>1. i + p + 1 = l + 1
          BY <1>1, <3>2, <3>3, <4>2
        <5> QED
          BY <5>1
      <4> QED
        BY <4>1, <4>2
    <3>7. i + p <= Len(w)
      BY <3>2, <3>3
    <3> QED
      BY <3>1, <3>2, <3>5, <3>6, <3>7 DEF AnsweredNext
  <2>2. CASE i = l + 1
    <3>1. w[i] = x /\ n = p /\ x.role = "assistant"
      BY <1>7, <2>2
    <3>2. i + p = Len(w)
      BY <2>2, <3>1
    <3>3. \A k \in 1..p : w[i + k].role = "tool" /\ w[i + k].callID = w[i].calls[k]
      BY <2>2, <3>1
    <3> QED
      BY <3>1, <3>2, <3>3 DEF AnsweredNext
  <2>3. CASE \E k \in 1..n : i = l + 1 + k
    <3>1. PICK k \in 1..n : i = l + 1 + k
      BY <2>3
    <3>2. w[i].calls = <<>>
      BY <3>1
    <3> QED
      BY <1>7, <3>2
  <2> QED
    BY <1>6, <2>1, <2>2, <2>3
<1>8. ASSUME NEW i \in 1..Len(w), w[i].role = "tool"
      PROVE  \E j \in 1..(i - 1) : i <= j + Len(w[j].calls)
  <2>1. CASE i \in 1..l
    <3>1. PICK j \in 1..(i - 1) : i <= j + Len(v[j].calls)
      BY <1>8, <2>1 DEF Tidy
    <3>2. w[j] = v[j]
      BY <2>1, <3>1
    <3> QED
      BY <3>1, <3>2
  <2>2. CASE i = l + 1
    BY <1>8, <2>2
  <2>3. CASE \E k \in 1..n : i = l + 1 + k
    <3>1. PICK k \in 1..n : i = l + 1 + k
      BY <2>3
    <3>2. l + 1 \in 1..(i - 1) /\ i <= (l + 1) + n /\ Len(w[l + 1].calls) = n
      BY <3>1
    <3> QED
      BY <3>2
  <2> QED
    BY <1>6, <2>1, <2>2, <2>3
<1> QED
  BY <1>7, <1>8 DEF Tidy

\* A message of the user, or one of the assistant with the results of its calls.
LEMMA TidyGrows ==
  ASSUME NEW v \in Seq(Messages), Tidy(v), NEW x \in Messages, x.role # "tool",
         x.calls # <<>> => x.role = "assistant"
  PROVE  /\ Tidy(Append(v, x) \o ResultsOf(x.calls))
         /\ Append(v, x) \o ResultsOf(x.calls) \in Seq(Messages)
<1>9. PICK c, r, u : x.calls = c /\ ResultsOf(c) = r /\ Append(v, x) = u
  OBVIOUS
<1>10. c \in Seq(Ids)
  BY <1>9 DEF Messages
<1>11. PICK l \in Nat, n \in Nat : Len(v) = l /\ Len(c) = n
  BY <1>10
<1>1. /\ Len(v) = l /\ x.calls = c /\ c \in Seq(Ids) /\ Len(c) = n
      /\ ResultsOf(c) = r /\ Append(v, x) = u
  BY <1>9, <1>10, <1>11
<1>2. /\ r \in Seq(Messages) /\ Len(r) = n
      /\ \A k \in 1..n : r[k].role = "tool" /\ r[k].callID = c[k] /\ r[k].calls = <<>>
  BY <1>1, ResultsOfCalls
<1>3. /\ u \in Seq(Messages) /\ Len(u) = l + 1 /\ u[l + 1] = x
      /\ \A i \in 1..l : u[i] = v[i]
  <2>1. /\ Append(v, x) \in Seq(Messages) /\ Len(Append(v, x)) = Len(v) + 1
        /\ Append(v, x)[Len(v) + 1] = x
        /\ \A i \in 1..Len(v) : Append(v, x)[i] = v[i]
    OBVIOUS
  <2> QED
    BY <1>1, <2>1
<1>4. /\ u \o r \in Seq(Messages) /\ Len(u \o r) = Len(u) + Len(r)
      /\ \A i \in 1..Len(u) : (u \o r)[i] = u[i]
      /\ \A j \in 1..Len(r) : (u \o r)[Len(u) + j] = r[j]
  <2>1. r \in Seq(Messages) /\ u \in Seq(Messages)
    BY <1>2, <1>3
  <2> QED
    BY ONLY <2>1, Joined
<1>5. PICK w : w = u \o r
  OBVIOUS
<1>6. /\ w \in Seq(Messages) /\ Len(w) = l + 1 + n
      /\ \A i \in 1..(l + 1) : w[i] = u[i]
      /\ \A k \in 1..n : w[l + 1 + k] = r[k]
  BY <1>2, <1>3, <1>4, <1>5
<1>7. w[l + 1] = x /\ \A i \in 1..l : w[i] = v[i]
  BY <1>3, <1>6
<1>8. Tidy(w)
  <2>1. c \in Seq(Ids)
    BY <1>1
  <2>2. WithResults(w, v, x, c, l, n)
    BY <1>1, <1>2, <1>6, <1>7 DEF WithResults
  <2> QED
    BY <1>6, <2>1, <2>2, TidyWithResults
<1> QED
  BY <1>1, <1>5, <1>6, <1>8

-----------------------------------------------------------------------------
(* FoldLeft: one step for each element, in order.                             *)

\* The largest element of a set of positions.
LEMMA MaxOf ==
  ASSUME NEW n \in Nat, NEW s, s \subseteq 1..n, NEW x \in s, \A y \in s : y <= x
  PROVE  Max(s) = x
<1>1. \A y \in s : y \in Int
  OBVIOUS
<1>2. x \in Int /\ \A y \in s : x >= y
  BY <1>1
<1>3. \A y \in s : (\A z \in s : y >= z) => y = x
  BY <1>1
<1> QED
  BY <1>2, <1>3 DEF Max

\* A set of positions has one.
LEMMA MaxIsIn ==
  ASSUME NEW n \in Nat, NEW s, s \subseteq 1..n, s # {}
  PROVE  Max(s) \in s
<1> DEFINE T == {n - x : x \in s}
<1>1. T \subseteq Nat /\ T # {}
  <2>1. \A x \in s : n - x \in Nat
    OBVIOUS
  <2>2. PICK x : x \in s
    OBVIOUS
  <2>3. n - x \in T
    BY <2>2
  <2> QED
    BY <2>1, <2>3
<1>2. PICK y \in T : \A z \in T : y <= z
  BY <1>1, LeastElement
<1>3. PICK x \in s : y = n - x
  OBVIOUS
<1>4. ASSUME NEW z \in s PROVE z <= x
  <2>1. z \in 1..n /\ x \in 1..n
    OBVIOUS
  <2>3. n - z \in T
    OBVIOUS
  <2>2. n - x <= n - z
    BY <1>2, <1>3, <2>3
  <2> QED
    BY <2>1, <2>2
<1> HIDE DEF T
<1>5. Max(s) = x
  BY <1>4, MaxOf
<1> QED
  BY <1>5

\* The requests made of the first messages of v.
Steps(f, v) ==
  /\ f[0] = <<>>
  /\ \A k \in 1..Len(v) : f[k] = MapMessagesStep(f[k - 1], v[k])

\* AnthropicParams takes the messages one after the other.
LEMMA Folded ==
  ASSUME NEW v \in Seq(Messages)
  PROVE  \E f : Steps(f, v) /\ AnthropicParams(v) = f[Len(v)]
<1> DEFINE n == Len(v)
           D == 1..n
           Body(g, s) == IF s = {} THEN <<>>
                         ELSE MapMessagesStep(g[s \ {Max(s)}], v[Max(s)])
           Folds(g, k) == g = [s \in SUBSET (1..k) |-> Body(g, s)]
           E(k) == \E g : Folds(g, k)
           T == {k \in Nat : k <= n => E(k)}
<1>1. n \in Nat /\ DOMAIN v = 1..n
  OBVIOUS
<1> HIDE DEF n
<1>2. AnthropicParams(v) = (CHOOSE g : Folds(g, n))[1..n]
  BY <1>1 DEF AnthropicParams, FoldLeft, MapThenFoldSet
<1>3. E(0)
  <2>1. SUBSET (1..0) = {{}}
    OBVIOUS
  <2>2. Folds([s \in SUBSET (1..0) |-> <<>>], 0)
    BY <2>1
  <2> QED
    BY <2>2
<1>4. ASSUME NEW k \in Nat, E(k), k + 1 <= n PROVE E(k + 1)
  <2>1. PICK g : Folds(g, k)
    BY <1>4
  <2> DEFINE h == [s \in SUBSET (1..(k + 1)) |->
                     IF k + 1 \in s THEN MapMessagesStep(g[s \ {k + 1}], v[k + 1]) ELSE g[s]]
  <2>2. \A s \in SUBSET (1..k) : g[s] = Body(g, s)
    <3>1. PICK q : q = [s \in SUBSET (1..k) |-> Body(g, s)]
      OBVIOUS
    <3>2. \A s \in SUBSET (1..k) : q[s] = Body(g, s)
      BY <3>1
    <3> QED
      BY <2>1, <3>1, <3>2
  <2>3. ASSUME NEW s \in SUBSET (1..(k + 1)) PROVE h[s] = Body(h, s)
    <3>1. CASE k + 1 \in s
      <4>1. Max(s) = k + 1
        <5>1. /\ k + 1 \in Nat /\ s \subseteq 1..(k + 1) /\ k + 1 \in s
              /\ \A y \in s : y <= k + 1
          BY <3>1
        <5> QED
          BY ONLY <5>1, MaxOf
      <4>2. s \ {k + 1} \in SUBSET (1..k) /\ s \ {k + 1} \in SUBSET (1..(k + 1))
        OBVIOUS
      <4>3. h[s \ {k + 1}] = g[s \ {k + 1}]
        BY <4>2
      <4>4. h[s] = MapMessagesStep(g[s \ {k + 1}], v[k + 1])
        BY <3>1
      <4> HIDE DEF h
      <4> QED
        BY <3>1, <4>1, <4>3, <4>4
    <3>2. CASE k + 1 \notin s
      <4>1. s \in SUBSET (1..k)
        BY <3>2
      <4>2. h[s] = g[s]
        BY <3>2
      <4>3. CASE s = {}
        BY <2>2, <4>1, <4>2, <4>3
      <4>4. CASE s # {}
        <5>1. Max(s) \in s
          BY <4>1, <4>4, MaxIsIn
        <5>2. s \ {Max(s)} \in SUBSET (1..k) /\ s \ {Max(s)} \in SUBSET (1..(k + 1))
          BY <4>1
        <5>3. k + 1 \notin s \ {Max(s)}
          BY <3>2
        <5>4. h[s \ {Max(s)}] = g[s \ {Max(s)}]
          BY <5>2, <5>3
        <5> HIDE DEF h
        <5> QED
          BY <2>2, <4>1, <4>2, <4>4, <5>4
      <4> QED
        BY <4>3, <4>4
    <3> QED
      BY <3>1, <3>2
  <2>4. h = [s \in SUBSET (1..(k + 1)) |-> h[s]]
    OBVIOUS
  <2> HIDE DEF h
  <2>5. Folds(h, k + 1)
    BY <2>3, <2>4
  <2> QED
    BY <2>5
<1>5. E(n)
  <2> HIDE DEF E
  <2>1. 0 \in T /\ \A k \in Nat : k \in T => k + 1 \in T
    BY <1>1, <1>3, <1>4
  <2> HIDE DEF T
  <2>2. Nat \subseteq T
    BY <2>1, Inductively
  <2> USE DEF T
  <2> QED
    BY <1>1, <2>2
<1> DEFINE iter == CHOOSE g : Folds(g, n)
<1>6. Folds(iter, n)
  <2> HIDE DEF Folds
  <2> QED
    BY <1>5
<1> HIDE DEF iter
<1>7. \A s \in SUBSET (1..n) : iter[s] = Body(iter, s)
  <2>1. PICK q : q = [s \in SUBSET (1..n) |-> Body(iter, s)]
    OBVIOUS
  <2>2. \A s \in SUBSET (1..n) : q[s] = Body(iter, s)
    BY <2>1
  <2> QED
    BY <1>6, <2>1, <2>2
<1> DEFINE f == [k \in 0..n |-> iter[1..k]]
<1>8. f[0] = <<>>
  <2>1. 1..0 = {} /\ {} \in SUBSET (1..n)
    OBVIOUS
  <2>2. f[0] = iter[1..0]
    BY <1>1
  <2> QED
    BY <1>7, <2>1, <2>2
<1>9. ASSUME NEW k \in 1..n PROVE f[k] = MapMessagesStep(f[k - 1], v[k])
  <2>1. k \in 1..k /\ 1..k \subseteq 1..n /\ \A y \in 1..k : y <= k
    BY <1>1
  <2>2. Max(1..k) = k
    BY <1>1, <2>1, MaxOf
  <2>3. (1..k) \ {k} = 1..(k - 1)
    BY <1>1
  <2>4. f[k] = iter[1..k] /\ f[k - 1] = iter[1..(k - 1)]
    BY <1>1
  <2>5. 1..k \in SUBSET (1..n) /\ 1..k # {}
    BY <2>1
  <2>6. iter[1..k] = MapMessagesStep(iter[(1..k) \ {Max(1..k)}], v[Max(1..k)])
    BY <1>7, <2>5
  <2> HIDE DEF f
  <2> QED
    BY <2>2, <2>3, <2>4, <2>6
<1>10. AnthropicParams(v) = f[n]
  BY <1>1, <1>2 DEF iter
<1> HIDE DEF f
<1>11. Steps(f, v)
  BY <1>8, <1>9 DEF Steps, n
<1> QED
  BY <1>10, <1>11 DEF n

-----------------------------------------------------------------------------
(* What the services accept.                                                  *)

\* Message i is the answer to a call of message j.
Asks(v, j, i) == j \in 1..(i - 1) /\ i <= j + Len(v[j].calls)

\* What that means in a tidy transcript.
LEMMA AskerOf ==
  ASSUME NEW v \in Seq(Messages), Tidy(v), NEW i \in 1..Len(v), NEW j, Asks(v, j, i)
  PROVE  /\ j \in 1..Len(v) /\ v[j].calls \in Seq(Ids) /\ v[j].role = "assistant"
         /\ i - j \in 1..Len(v[j].calls) /\ v[i].callID = v[j].calls[i - j]
         /\ \A k \in (j + 1)..i : v[k].role = "tool"
         /\ j + Len(v[j].calls) <= Len(v)
         /\ i = j + Len(v[j].calls) \/ v[i + 1].role = "tool"
<1>1. Len(v) \in Nat /\ j \in 1..Len(v) /\ i \in Nat
  BY DEF Asks
<1>11. PICK c : v[j].calls = c
  OBVIOUS
<1>2. PICK n \in Nat : v[j].calls = c /\ c \in Seq(Ids) /\ Len(c) = n
  <2>1. v[j] \in Messages
    BY <1>1
  <2>2. c \in Seq(Ids)
    BY <1>11, <2>1 DEF Messages
  <2> QED
    BY <1>11, <2>2
<1>3. j \in 1..(i - 1) /\ i <= j + n
  BY <1>2 DEF Asks
<1>4. c # <<>>
  BY <1>1, <1>2, <1>3
<1>5. AnsweredNext(v, j, n)
  BY <1>1, <1>2, <1>4 DEF Tidy
<1>6. /\ v[j].role = "assistant" /\ j + n <= Len(v)
      /\ \A k \in 1..n : v[j + k].role = "tool" /\ v[j + k].callID = c[k]
  BY <1>2, <1>5 DEF AnsweredNext
<1>7. ASSUME NEW k \in (j + 1)..(j + n) PROVE v[k].role = "tool" /\ v[k].callID = c[k - j]
  <2>1. PICK d \in Int : k - j = d
    BY <1>1
  <2>2. d \in 1..n /\ j + d = k
    BY <1>1, <1>2, <2>1
  <2> QED
    BY <1>6, <2>1, <2>2
<1>8. i \in (j + 1)..(j + n) /\ \A k \in (j + 1)..i : k \in (j + 1)..(j + n)
  BY <1>1, <1>3
<1>9. i - j \in 1..n
  BY <1>1, <1>3
<1>10. i = j + n \/ i + 1 \in (j + 1)..(j + n)
  BY <1>1, <1>3
<1> QED
  BY <1>1, <1>2, <1>6, <1>7, <1>8, <1>9, <1>10

\* The last message in front that is no result asked.
LEMMA OneAsker ==
  ASSUME NEW v \in Seq(Messages), Tidy(v), NEW i \in 1..Len(v), NEW j, Asks(v, j, i),
         NEW h \in 1..(i - 1), v[h].role # "tool",
         \A k \in (h + 1)..(i - 1) : v[k].role = "tool"
  PROVE  h = j
<1>1. /\ j \in 1..(i - 1) /\ v[j].role = "assistant"
      /\ \A k \in (j + 1)..i : v[k].role = "tool"
  BY AskerOf DEF Asks
<1>2. CASE h < j
  <2>1. j \in (h + 1)..(i - 1)
    BY <1>1, <1>2
  <2> QED
    BY <1>1, <2>1
<1>3. CASE j < h
  <2>1. h \in (j + 1)..i
    BY <1>1, <1>3
  <2> QED
    BY <1>1, <2>1
<1> QED
  BY <1>1, <1>2, <1>3

\* A tool result makes no calls.
LEMMA ResultsAskNothing ==
  ASSUME NEW v \in Seq(Messages), Tidy(v), NEW i \in 1..Len(v), v[i].role = "tool"
  PROVE  v[i].calls = <<>>
  BY DEF Tidy, AnsweredNext

\* OpenAI accepts a tidy request.
LEMMA OpenAIAcceptsTidy ==
  ASSUME NEW v \in Seq(Messages), Tidy(v)
  PROVE  OpenAIAccepts(OpenAIParams(v))
<1> DEFINE p == OpenAIParams(v)
           Leads(i, j) == /\ j = 0 \/ p[j].role # "tool"
                          /\ \A k \in (j + 1)..(i - 1) : p[k].role = "tool"
           asker(i) == CHOOSE j \in 0..(i - 1) : Leads(i, j)
<1>1. Len(v) \in Nat /\ DOMAIN v = 1..Len(v)
  OBVIOUS
<1>2. DOMAIN p = 1..Len(v) /\ Len(p) = Len(v)
  BY <1>1 DEF OpenAIParams
<1>3. ASSUME NEW i \in 1..Len(v)
      PROVE  /\ p[i].role = v[i].role /\ p[i].uses = v[i].calls
             /\ p[i].answers = IF v[i].role = "tool" THEN <<v[i].callID>> ELSE <<>>
  BY <1>1 DEF OpenAIParams, OpenAIBlock, Block
<1> HIDE DEF p
<1>4. ASSUME NEW i \in 1..Len(v), p[i].role = "tool"
      PROVE  /\ asker(i) # 0
             /\ ToSet(p[i].answers) \subseteq ToSet(p[asker(i)].uses)
  <2>1. v[i].role = "tool"
    BY <1>3, <1>4
  <2>2. PICK j : Asks(v, j, i)
    BY <2>1 DEF Tidy, Asks
  <2>3. /\ j \in 1..Len(v) /\ v[j].calls \in Seq(Ids) /\ v[j].role = "assistant"
        /\ i - j \in 1..Len(v[j].calls) /\ v[i].callID = v[j].calls[i - j]
        /\ \A k \in (j + 1)..i : v[k].role = "tool"
    BY <2>2, AskerOf
  <2>4. j \in 0..(i - 1) /\ j # 0
    BY <2>2 DEF Asks
  <2>5. Leads(i, j)
    <3>1. ASSUME NEW k \in (j + 1)..(i - 1) PROVE p[k].role = "tool"
      <4>1. k \in (j + 1)..i /\ k \in 1..Len(v)
        BY <1>1, <2>3
      <4> QED
        BY <1>3, <2>3, <4>1
    <3> QED
      BY <1>3, <2>3, <3>1
  <2>6. ASSUME NEW h \in 0..(i - 1), Leads(i, h) PROVE h = j
    <3>1. h # 0
      <4>1. SUFFICES ASSUME h = 0 PROVE FALSE
        OBVIOUS
      <4>2. j \in (h + 1)..(i - 1)
        BY <2>4, <4>1
      <4>3. p[j].role = "tool"
        BY <2>6, <4>2
      <4> QED
        BY <1>3, <2>3, <4>3
    <3>2. h \in 1..(i - 1) /\ h \in 1..Len(v)
      BY <1>1, <3>1
    <3>3. v[h].role # "tool"
      BY <1>3, <2>6, <3>1, <3>2
    <3>4. ASSUME NEW k \in (h + 1)..(i - 1) PROVE v[k].role = "tool"
      <4>1. k \in 1..Len(v)
        BY <1>1, <3>2
      <4> QED
        BY <1>3, <2>6, <4>1
    <3> QED
      BY <2>2, <3>2, <3>3, <3>4, OneAsker
  <2> HIDE DEF Leads
  <2>7. asker(i) = j
    BY <2>4, <2>5, <2>6
  <2> HIDE DEF asker
  <2>8. ToSet(p[i].answers) = {v[i].callID}
    <3>1. p[i].answers = <<v[i].callID>>
      BY <1>3, <2>1
    <3> QED
      BY <3>1 DEF ToSet
  <2>9. v[i].callID \in ToSet(v[j].calls)
    <3>1. i - j \in DOMAIN v[j].calls
      BY <2>3
    <3> QED
      BY <2>3, <3>1 DEF ToSet
  <2> QED
    BY <1>3, <2>3, <2>4, <2>7, <2>8, <2>9
<1>5. ASSUME NEW i \in 1..Len(v), p[i].uses # <<>>
      PROVE  LET n == Len(p[i].uses) IN
             /\ i + n <= Len(p)
             /\ Answers([k \in 1..n |-> IF p[i + k].answers = <<>>
                                        THEN NoCall
                                        ELSE p[i + k].answers[1]],
                        p[i].uses)
             /\ i + n < Len(p) => p[i + n + 1].role # "tool"
  <2>0. PICK c : v[i].calls = c
    OBVIOUS
  <2>1. PICK n \in Nat : v[i].calls = c /\ c \in Seq(Ids) /\ Len(c) = n
    <3>1. v[i] \in Messages
      OBVIOUS
    <3>2. c \in Seq(Ids)
      BY <2>0, <3>1 DEF Messages
    <3> QED
      BY <2>0, <3>2
  <2>2. p[i].uses = c /\ c # <<>>
    BY <1>3, <1>5, <2>1
  <2>3. AnsweredNext(v, i, n)
    BY <2>1, <2>2 DEF Tidy
  <2>4. /\ i + n <= Len(v)
        /\ \A k \in 1..n : v[i + k].role = "tool" /\ v[i + k].callID = c[k]
        /\ i + n < Len(v) => v[i + n + 1].role # "tool"
    BY <2>1, <2>3 DEF AnsweredNext
  <2>5. ASSUME NEW k \in 1..n PROVE p[i + k].answers = <<c[k]>>
    <3>1. i + k \in 1..Len(v)
      BY <1>1, <2>1, <2>4
    <3> QED
      BY <1>3, <2>4, <3>1
  <2>6. [k \in 1..n |-> IF p[i + k].answers = <<>> THEN NoCall ELSE p[i + k].answers[1]] = c
    <3>1. \A k \in 1..n : p[i + k].answers # <<>> /\ p[i + k].answers[1] = c[k]
      BY <2>5
    <3>2. c = [k \in 1..n |-> c[k]]
      BY <2>1
    <3> QED
      BY <3>1, <3>2
  <2>7. i + n < Len(v) => i + n + 1 \in 1..Len(v)
    BY <1>1, <2>1
  <2>8. i + n < Len(p) => p[i + n + 1].role # "tool"
    BY <1>2, <1>3, <2>4, <2>7
  <2> QED
    BY <1>2, <2>1, <2>2, <2>4, <2>6, <2>8 DEF Answers
<1> QED
  BY <1>2, <1>4, <1>5 DEF OpenAIAccepts, p

\* The parameters of a request to Anthropic.
Blocks == [role : {"user", "assistant", "tool"}, uses : Seq(Ids),
           answers : Seq(Ids \union {NoCall})]

\* The last parameter has the answers to the calls of message j up to message k.
HalfWay(p, v, k, j) ==
  LET a == p[Len(p)].answers c == v[j].calls IN
  /\ Asks(v, j, k) /\ p[Len(p) - 1].uses = c
  /\ Len(a) = k - j /\ \A i \in 1..(k - j) : a[i] = c[i]

\* The last parameter once the first k messages are mapped.
LastMapped(p, v, k) ==
  /\ v[k].role # "tool" =>
       /\ p[Len(p)].uses = v[k].calls /\ p[Len(p)].answers = <<>>
       /\ Len(p) > 1 => p[Len(p) - 1].uses = <<>>
  /\ v[k].role = "tool" =>
       Len(p) > 1 /\ p[Len(p)].uses = <<>> /\ \E j : HalfWay(p, v, k, j)

\* No answers without uses before them, and all uses but the last are answered.
EachAsked(p) == \A i \in 1..Len(p) : p[i].answers # <<>> => i > 1 /\ p[i - 1].uses # <<>>

AnsweredUpTo(p, n) == \A i \in 1..n : p[i].uses # <<>> => p[i + 1].answers = p[i].uses

Mapped(p, v, k) ==
  /\ p \in Seq(Blocks) /\ EachAsked(p) /\ AnsweredUpTo(p, Len(p) - 2)
  /\ IF k = 0 THEN p = <<>> ELSE Len(p) > 0 /\ LastMapped(p, v, k)

\* Before a message that is no result, all uses are answered.
LEMMA AllAnsweredBy ==
  ASSUME NEW v \in Seq(Messages), Tidy(v), NEW k \in 1..Len(v), NEW p, Mapped(p, v, k),
         k = Len(v) \/ v[k + 1].role # "tool"
  PROVE  p[Len(p)].uses = <<>> /\ AnsweredUpTo(p, Len(p) - 1)
<1>1. PICK l \in Nat : Len(p) = l
  BY DEF Mapped
<1>2. /\ l > 0 /\ LastMapped(p, v, k) /\ AnsweredUpTo(p, l - 2) /\ k # 0
      /\ \A i \in 1..l : p[i] \in Blocks
  BY <1>1 DEF Mapped
<1>3. v[k] \in Messages /\ Len(v) \in Nat
  OBVIOUS
<1>4. p[l].uses = <<>> /\ (l > 1 /\ p[l - 1].uses # <<>> => p[l].answers = p[l - 1].uses)
  <2>1. CASE v[k].role # "tool"
    <3>1. p[l].uses = v[k].calls /\ (l > 1 => p[l - 1].uses = <<>>)
      BY <1>1, <1>2, <2>1 DEF LastMapped
    <3>2. ASSUME v[k].calls # <<>> PROVE FALSE
      <4>1. PICK c : v[k].calls = c
        OBVIOUS
      <4>2. PICK n \in Nat : Len(c) = n /\ n > 0
        <5>1. c \in Seq(Ids) /\ c # <<>>
          BY <1>3, <3>2, <4>1 DEF Messages
        <5> QED
          BY <5>1
      <4>3. AnsweredNext(v, k, n)
        BY <3>2, <4>1, <4>2 DEF Tidy
      <4>4. k + n <= Len(v) /\ v[k + 1].role = "tool"
        BY <4>2, <4>3 DEF AnsweredNext
      <4> QED
        BY <1>3, <4>2, <4>4
    <3> QED
      BY <3>1, <3>2
  <2>2. CASE v[k].role = "tool"
    <3>1. l > 1 /\ p[l].uses = <<>>
      BY <1>1, <1>2, <2>2 DEF LastMapped
    <3>2. PICK j : HalfWay(p, v, k, j)
      BY <1>2, <2>2 DEF LastMapped
    <3>3. PICK a, c : p[l].answers = a /\ v[j].calls = c
      OBVIOUS
    <3>4. Asks(v, j, k) /\ p[l - 1].uses = c /\ Len(a) = k - j /\ \A i \in 1..(k - j) : a[i] = c[i]
      BY <1>1, <3>2, <3>3 DEF HalfWay
    <3>5. /\ c \in Seq(Ids) /\ j + Len(c) <= Len(v) /\ j \in 1..Len(v)
          /\ k = j + Len(c) \/ v[k + 1].role = "tool"
          /\ k <= j + Len(c)
      <4>1. /\ j \in 1..Len(v) /\ v[j].calls \in Seq(Ids)
            /\ j + Len(v[j].calls) <= Len(v)
            /\ k = j + Len(v[j].calls) \/ v[k + 1].role = "tool"
        BY <3>4, AskerOf
      <4> QED
        BY <3>3, <3>4, <4>1 DEF Asks
    <3>6. PICK n \in Nat : Len(c) = n
      BY <3>5
    <3>7. k - j = n
      BY <1>3, <3>5, <3>6
    <3>8. a \in Seq(Ids \union {NoCall})
      <4>1. p[l] \in Blocks
        BY <1>2
      <4> QED
        BY <3>3, <4>1 DEF Blocks
    <3>9. c \in Seq(Ids \union {NoCall})
      BY <3>5
    <3>10. Len(a) = n /\ \A i \in 1..n : a[i] = c[i]
      BY <3>4, <3>7
    <3>11. a = c
      BY <3>6, <3>8, <3>9, <3>10, SeqEqual
    <3> QED
      BY <3>1, <3>3, <3>4, <3>11
  <2> QED
    BY <2>1, <2>2
<1>5. AnsweredUpTo(p, l - 1)
  <2>1. ASSUME NEW i \in 1..(l - 1), p[i].uses # <<>> PROVE p[i + 1].answers = p[i].uses
    <3>1. CASE i \in 1..(l - 2)
      BY <1>2, <2>1, <3>1 DEF AnsweredUpTo
    <3>2. CASE i \notin 1..(l - 2)
      <4>1. i = l - 1 /\ i + 1 = l /\ l > 1
        BY <3>2
      <4> QED
        BY <1>4, <2>1, <4>1
    <3> QED
      BY <3>1, <3>2
  <2> QED
    BY <2>1 DEF AnsweredUpTo
<1> QED
  BY <1>1, <1>4, <1>5

\* A message that is no result becomes a parameter of its own.
LEMMA MapsOther ==
  ASSUME NEW v \in Seq(Messages), Tidy(v), NEW k \in Nat, k + 1 <= Len(v),
         v[k + 1].role # "tool", NEW p, Mapped(p, v, k)
  PROVE  Mapped(MapMessagesStep(p, v[k + 1]), v, k + 1)
<1>1. PICK x, b, q : /\ v[k + 1] = x /\ Block(x) = b /\ Append(p, b) = q
  OBVIOUS
<1>2. x \in Messages /\ x.role # "tool"
  BY <1>1
<1>3. b \in Blocks /\ b.uses = x.calls /\ b.answers = <<>>
  <2>1. <<>> \in Seq(Ids \union {NoCall})
    OBVIOUS
  <2> QED
    BY <1>1, <1>2, <2>1 DEF Block, Blocks, Messages
<1>4. MapMessagesStep(p, v[k + 1]) = q
  BY <1>1, <1>2 DEF MapMessagesStep
<1>5. p \in Seq(Blocks) /\ EachAsked(p)
  BY DEF Mapped
<1>6. PICK l \in Nat : Len(p) = l
  BY <1>5
<1>7. q \in Seq(Blocks) /\ Len(q) = l + 1 /\ q[l + 1] = b /\ \A i \in 1..l : q[i] = p[i]
  <2>1. /\ Append(p, b) \in Seq(Blocks) /\ Len(Append(p, b)) = Len(p) + 1
        /\ Append(p, b)[Len(p) + 1] = b /\ \A i \in 1..Len(p) : Append(p, b)[i] = p[i]
    BY <1>3, <1>5
  <2> QED
    BY <1>1, <1>6, <2>1
<1>8. l > 0 => p[l].uses = <<>>
  <2>1. SUFFICES ASSUME l > 0 PROVE p[l].uses = <<>>
    OBVIOUS
  <2>2. k \in 1..Len(v)
    <3>1. k # 0
      BY <1>6, <2>1 DEF Mapped
    <3> QED
      BY <3>1
  <2> QED
    BY <1>6, <2>2, AllAnsweredBy
<1>9. AnsweredUpTo(p, l - 1)
  <2>1. CASE k = 0
    <3>1. l = 0
      BY <1>6, <2>1 DEF Mapped
    <3> QED
      BY <3>1 DEF AnsweredUpTo
  <2>2. CASE k # 0
    <3>1. k \in 1..Len(v)
      BY <2>2
    <3> QED
      BY <1>6, <3>1, AllAnsweredBy
  <2> QED
    BY <2>1, <2>2
<1>10. EachAsked(q)
  <2>1. ASSUME NEW i \in 1..(l + 1), q[i].answers # <<>> PROVE i > 1 /\ q[i - 1].uses # <<>>
    <3>1. i \in 1..l
      BY <1>3, <1>7, <2>1
    <3>2. i > 1 /\ p[i - 1].uses # <<>>
      BY <1>5, <1>6, <1>7, <2>1, <3>1 DEF EachAsked
    <3> QED
      BY <1>7, <3>1, <3>2
  <2> QED
    BY <1>7, <2>1 DEF EachAsked
<1>11. AnsweredUpTo(q, l - 1)
  <2>1. ASSUME NEW i \in 1..(l - 1), q[i].uses # <<>> PROVE q[i + 1].answers = q[i].uses
    <3>1. i \in 1..l /\ i + 1 \in 1..l
      OBVIOUS
    <3> QED
      BY <1>7, <1>9, <2>1, <3>1 DEF AnsweredUpTo
  <2> QED
    BY <2>1 DEF AnsweredUpTo
<1>12. LastMapped(q, v, k + 1)
  BY <1>1, <1>2, <1>3, <1>7, <1>8 DEF LastMapped
<1>13. Len(q) - 2 = l - 1 /\ Len(q) > 0 /\ k + 1 # 0
  BY <1>7
<1> QED
  BY <1>4, <1>7, <1>10, <1>11, <1>12, <1>13 DEF Mapped

\* A result joins the results before it, if there are.
LEMMA MapsResult ==
  ASSUME NEW v \in Seq(Messages), Tidy(v), NEW k \in Nat, k + 1 <= Len(v),
         v[k + 1].role = "tool", NEW p, Mapped(p, v, k)
  PROVE  Mapped(MapMessagesStep(p, v[k + 1]), v, k + 1)
<1>1. PICK j : Asks(v, j, k + 1)
  BY SMTT(30) DEF Tidy, Asks
<1>2. PICK x, c, d : v[k + 1] = x /\ v[j].calls = c /\ x.callID = d
  OBVIOUS
<1>3. /\ x \in Messages /\ x.role = "tool" /\ x.calls = <<>>
      /\ d \in Ids \union {NoCall}
  <2>1. x \in Messages /\ x.role = "tool" /\ x.calls = <<>>
    BY <1>2, ResultsAskNothing
  <2> QED
    BY <1>2, <2>1 DEF Messages
<1>4. /\ j \in 1..Len(v) /\ c \in Seq(Ids) /\ v[j].role = "assistant"
      /\ (k + 1) - j \in 1..Len(c) /\ d = c[(k + 1) - j]
      /\ \A i \in (j + 1)..(k + 1) : v[i].role = "tool"
  <2>1. k + 1 \in 1..Len(v)
    OBVIOUS
  <2> QED
    BY <1>1, <1>2, <2>1, AskerOf
<1>5. k \in 1..Len(v) /\ j \in 1..k /\ k # 0
  BY <1>1 DEF Asks
<1>6. /\ p \in Seq(Blocks) /\ EachAsked(p) /\ LastMapped(p, v, k)
      /\ AnsweredUpTo(p, Len(p) - 2) /\ Len(p) > 0
  BY <1>5 DEF Mapped
<1>7. PICK l \in Nat : Len(p) = l /\ l > 0
  BY <1>6
<1>8. PICK b, q : Block(x) = b /\ MapMessagesStep(p, x) = q
  OBVIOUS
<1>9. b \in Blocks /\ b.uses = <<>> /\ b.answers = <<d>>
  <2>1. <<d>> \in Seq(Ids \union {NoCall})
    BY <1>3
  <2> QED
    BY <1>2, <1>3, <1>8, <2>1 DEF Block, Blocks, Messages
<1>10. CASE j = k
  <2>1. p[l].uses = c /\ p[l].answers = <<>> /\ (l > 1 => p[l - 1].uses = <<>>)
    BY <1>2, <1>4, <1>6, <1>7, <1>10 DEF LastMapped
  <2>2. q = Append(p, b)
    BY <1>3, <1>7, <1>8, <2>1 DEF MapMessagesStep, Last
  <2>3. q \in Seq(Blocks) /\ Len(q) = l + 1 /\ q[l + 1] = b /\ \A i \in 1..l : q[i] = p[i]
    <3>1. /\ Append(p, b) \in Seq(Blocks) /\ Len(Append(p, b)) = Len(p) + 1
          /\ Append(p, b)[Len(p) + 1] = b /\ \A i \in 1..Len(p) : Append(p, b)[i] = p[i]
      BY <1>6, <1>9
    <3> QED
      BY <1>7, <2>2, <3>1
  <2>4. c # <<>>
    BY <1>4
  <2>5. EachAsked(q)
    <3>1. ASSUME NEW i \in 1..(l + 1), q[i].answers # <<>> PROVE i > 1 /\ q[i - 1].uses # <<>>
      <4>1. CASE i \in 1..l
        <5>1. i > 1 /\ p[i - 1].uses # <<>>
          BY <1>6, <1>7, <2>3, <3>1, <4>1 DEF EachAsked
        <5> QED
          BY <2>3, <4>1, <5>1
      <4>2. CASE i = l + 1
        <5>1. i - 1 = l /\ l \in 1..l
          BY <1>7, <4>2
        <5> QED
          BY <1>7, <2>1, <2>3, <2>4, <4>2, <5>1
      <4> QED
        BY <4>1, <4>2
    <3> QED
      BY <2>3, <3>1 DEF EachAsked
  <2>6. AnsweredUpTo(q, l - 1)
    <3>1. ASSUME NEW i \in 1..(l - 1), q[i].uses # <<>> PROVE q[i + 1].answers = q[i].uses
      <4>1. i \in 1..l /\ i + 1 \in 1..l
        OBVIOUS
      <4>2. i # l - 1
        BY <2>1, <2>3, <3>1, <4>1
      <4>3. i \in 1..(l - 2)
        BY <4>2
      <4> QED
        BY <1>6, <1>7, <2>3, <3>1, <4>1, <4>3 DEF AnsweredUpTo
    <3> QED
      BY <3>1 DEF AnsweredUpTo
  <2>7. HalfWay(q, v, k + 1, j)
    <3>1. q[Len(q) - 1].uses = c /\ q[Len(q)].answers = <<d>> /\ (k + 1) - j = 1
      BY <1>7, <1>9, <1>10, <2>1, <2>3
    <3>2. d = c[1]
      BY <1>4, <3>1
    <3> QED
      BY <1>1, <1>2, <3>1, <3>2 DEF HalfWay
  <2>8. LastMapped(q, v, k + 1)
    BY <1>2, <1>3, <1>7, <1>9, <2>3, <2>7 DEF LastMapped
  <2>9. Len(q) - 2 = l - 1 /\ Len(q) > 0 /\ k + 1 # 0
    BY <2>3
  <2> QED
    BY <1>2, <1>8, <2>3, <2>5, <2>6, <2>8, <2>9 DEF Mapped
<1>11. CASE j # k
  <2>1. Asks(v, j, k) /\ v[k].role = "tool"
    <3>1. k \in (j + 1)..(k + 1) /\ j \in 1..(k - 1)
      BY <1>5, <1>11
    <3>2. k + 1 <= j + Len(v[j].calls) /\ Len(v[j].calls) \in Nat
      BY <1>1, <1>2, <1>4 DEF Asks
    <3> QED
      BY <1>4, <3>1, <3>2 DEF Asks
  <2>2. PICK h : HalfWay(p, v, k, h)
    BY <1>6, <2>1 DEF LastMapped
  <2>3. h = j
    <3>1. Asks(v, h, k)
      BY <2>2 DEF HalfWay
    <3>2. /\ j \in 1..(k - 1) /\ v[j].role # "tool"
          /\ \A i \in (j + 1)..(k - 1) : v[i].role = "tool"
      BY <1>4, <1>5, <1>11
    <3> QED
      BY <1>5, <3>1, <3>2, OneAsker
  <2>4. l > 1 /\ p[l].uses = <<>>
    BY <1>6, <1>7, <2>1 DEF LastMapped
  <2>21. PICK n \in Nat : k - j = n
    BY <1>5
  <2>5. PICK a : p[l].answers = a /\ k - j = n
    BY <2>21
  <2>6. /\ p[l - 1].uses = c /\ Len(a) = n /\ \A i \in 1..n : a[i] = c[i]
    BY <1>2, <1>7, <2>2, <2>3, <2>5 DEF HalfWay
  <2>7. p[l] \in Blocks /\ a \in Seq(Ids \union {NoCall})
    <3>1. p[l] \in Blocks
      BY <1>6, <1>7
    <3> QED
      BY <2>5, <3>1 DEF Blocks
  <2>8. n > 0 /\ (k + 1) - j = n + 1 /\ a # <<>>
    <3>1. n > 0 /\ (k + 1) - j = n + 1
      BY <1>5, <1>11, <2>5
    <3> QED
      BY <2>6, <3>1
  <2>9. PICK e, g, y : /\ Append(a, d) = e /\ Front(p) = g
                       /\ [p[l] EXCEPT !.answers = Append(@, d)] = y
    OBVIOUS
  <2>10. q = Append(g, y)
    <3>1. Last(p) = p[l] /\ p # <<>>
      BY <1>7 DEF Last
    <3> QED
      BY <1>2, <1>3, <1>8, <2>5, <2>8, <2>9, <3>1 DEF MapMessagesStep
  <2>11. /\ e \in Seq(Ids \union {NoCall}) /\ Len(e) = n + 1 /\ e[n + 1] = d
         /\ \A i \in 1..n : e[i] = a[i]
    <3>1. /\ Append(a, d) \in Seq(Ids \union {NoCall}) /\ Len(Append(a, d)) = Len(a) + 1
          /\ Append(a, d)[Len(a) + 1] = d /\ \A i \in 1..Len(a) : Append(a, d)[i] = a[i]
      BY <1>3, <2>7
    <3> QED
      BY <2>6, <2>9, <3>1
  <2>12. y \in Blocks /\ y.answers = e /\ y.uses = <<>>
    <3>1. y = [p[l] EXCEPT !.answers = e]
      BY <2>5, <2>9
    <3> QED
      BY <2>4, <2>7, <2>11, <3>1 DEF Blocks
  <2>13. g \in Seq(Blocks) /\ Len(g) = l - 1 /\ \A i \in 1..(l - 1) : g[i] = p[i]
    <3>1. 1 \in Int /\ l - 1 \in Int /\ \A i \in 1..(l - 1) : p[i] \in Blocks
      BY <1>6, <1>7
    <3>2. /\ SubSeq(p, 1, l - 1) \in Seq(Blocks)
          /\ Len(SubSeq(p, 1, l - 1)) = IF 1 <= l - 1 THEN l - 1 - 1 + 1 ELSE 0
          /\ \A i \in 1..(l - 1 - 1 + 1) : SubSeq(p, 1, l - 1)[i] = p[1 + i - 1]
      BY ONLY <3>1, SubSeqProperties
    <3>3. SubSeq(p, 1, l - 1) = g
      BY <1>7, <2>9 DEF Front
    <3>4. g \in Seq(Blocks) /\ Len(g) = IF 1 <= l - 1 THEN l - 1 - 1 + 1 ELSE 0
      BY <3>2, <3>3
    <3>5. Len(g) = l - 1
      BY <2>4, <3>4
    <3>6. ASSUME NEW i \in 1..(l - 1) PROVE g[i] = p[i]
      <4>1. i \in 1..(l - 1 - 1 + 1) /\ 1 + i - 1 = i
        OBVIOUS
      <4>2. SubSeq(p, 1, l - 1)[i] = p[1 + i - 1]
        BY ONLY <3>2, <4>1, Zenon
      <4> QED
        BY ONLY <3>3, <4>1, <4>2, Zenon
    <3> QED
      BY <3>4, <3>5, <3>6
  <2>14. q \in Seq(Blocks) /\ Len(q) = l /\ q[l] = y /\ \A i \in 1..(l - 1) : q[i] = p[i]
    <3>1. /\ Append(g, y) \in Seq(Blocks) /\ Len(Append(g, y)) = Len(g) + 1
          /\ Append(g, y)[Len(g) + 1] = y /\ \A i \in 1..Len(g) : Append(g, y)[i] = g[i]
      BY <2>12, <2>13
    <3>2. (l - 1) + 1 = l
      OBVIOUS
    <3> QED
      BY <2>10, <2>13, <3>1, <3>2
  <2>15. \A i \in 1..l : q[i].uses = p[i].uses
    <3>1. \A i \in 1..l : i \in 1..(l - 1) \/ i = l
      OBVIOUS
    <3> QED
      BY <2>4, <2>12, <2>14, <3>1
  <2>16. EachAsked(q)
    <3>1. ASSUME NEW i \in 1..l, q[i].answers # <<>> PROVE i > 1 /\ q[i - 1].uses # <<>>
      <4>1. p[i].answers # <<>>
        <5>1. CASE i = l
          BY <2>5, <2>8, <5>1
        <5>2. CASE i # l
          <6>1. i \in 1..(l - 1)
            BY <5>2
          <6> QED
            BY <2>14, <3>1, <6>1
        <5> QED
          BY <5>1, <5>2
      <4>2. i > 1 /\ p[i - 1].uses # <<>>
        BY <1>6, <1>7, <4>1 DEF EachAsked
      <4>3. i - 1 \in 1..l
        BY <4>2
      <4> QED
        BY <2>15, <4>2, <4>3
    <3> QED
      BY <2>14, <3>1 DEF EachAsked
  <2>17. AnsweredUpTo(q, l - 2)
    <3>1. ASSUME NEW i \in 1..(l - 2), q[i].uses # <<>> PROVE q[i + 1].answers = q[i].uses
      <4>1. i \in 1..(l - 1) /\ i + 1 \in 1..(l - 1)
        OBVIOUS
      <4> QED
        BY <1>6, <1>7, <2>14, <3>1, <4>1 DEF AnsweredUpTo
    <3> QED
      BY <3>1 DEF AnsweredUpTo
  <2>18. HalfWay(q, v, k + 1, j)
    <3>1. q[Len(q) - 1].uses = c
      <4>1. l - 1 \in 1..(l - 1)
        BY <2>4
      <4> QED
        BY <2>6, <2>14, <4>1
    <3>2. q[Len(q)].answers = e
      BY <2>12, <2>14
    <3>3. Len(e) = (k + 1) - j
      BY <2>8, <2>11
    <3>4. ASSUME NEW i \in 1..((k + 1) - j) PROVE e[i] = c[i]
      <4>1. i \in 1..(n + 1)
        BY <2>8
      <4>2. CASE i \in 1..n
        BY <2>6, <2>11, <4>2
      <4>3. CASE i = n + 1
        BY <1>4, <2>8, <2>11, <4>3
      <4> QED
        BY <4>1, <4>2, <4>3
    <3> QED
      BY <1>1, <1>2, <3>1, <3>2, <3>3, <3>4 DEF HalfWay
  <2>19. LastMapped(q, v, k + 1)
    BY <1>2, <1>3, <2>4, <2>12, <2>14, <2>18 DEF LastMapped
  <2>20. Len(q) > 0 /\ k + 1 # 0
    BY <1>7, <2>14
  <2> QED
    BY <1>2, <1>8, <2>14, <2>16, <2>17, <2>19, <2>20 DEF Mapped
<1> QED
  BY <1>10, <1>11

\* Anthropic accepts a tidy request.
LEMMA AnthropicAcceptsTidy ==
  ASSUME NEW v \in Seq(Messages), Tidy(v)
  PROVE  AnthropicAccepts(AnthropicParams(v))
<1>1. PICK f : Steps(f, v) /\ AnthropicParams(v) = f[Len(v)]
  BY Folded
<1> DEFINE T == {k \in Nat : k <= Len(v) => Mapped(f[k], v, k)}
<1>2. 0 \in T
  <2>1. f[0] = <<>>
    BY <1>1 DEF Steps
  <2>2. PICK p : p = <<>>
    OBVIOUS
  <2>3. p \in Seq(Blocks) /\ Len(p) = 0
    BY <2>2
  <2>4. Mapped(p, v, 0)
    BY <2>2, <2>3 DEF Mapped, EachAsked, AnsweredUpTo
  <2> QED
    BY <2>1, <2>2, <2>4
<1>3. ASSUME NEW k \in Nat, k \in T PROVE k + 1 \in T
  <2>1. SUFFICES ASSUME k + 1 <= Len(v) PROVE Mapped(f[k + 1], v, k + 1)
    OBVIOUS
  <2>2. Mapped(f[k], v, k)
    BY <1>3, <2>1
  <2>3. k + 1 \in 1..Len(v) /\ (k + 1) - 1 = k
    BY <2>1
  <2>4. f[k + 1] = MapMessagesStep(f[(k + 1) - 1], v[k + 1])
    BY ONLY <1>1, <2>3, Zenon DEF Steps
  <2>5. f[k + 1] = MapMessagesStep(f[k], v[k + 1])
    BY <2>3, <2>4
  <2> QED
    BY <2>1, <2>2, <2>5, MapsOther, MapsResult
<1> HIDE DEF T
<1>4. Nat \subseteq T
  BY <1>2, <1>3, Inductively
<1>11. PICK n \in Nat : Len(v) = n
  OBVIOUS
<1>5. PICK p : AnthropicParams(v) = p /\ Len(v) = n
  BY <1>11
<1>6. Mapped(p, v, n)
  <2>1. Mapped(f[n], v, n)
    BY <1>4, <1>5 DEF T
  <2> QED
    BY <1>1, <1>5, <2>1
<1>7. p \in Seq(Blocks) /\ EachAsked(p)
  BY <1>6 DEF Mapped
<1>8. PICK l \in Nat : Len(p) = l
  BY <1>7
<1>9. AnsweredUpTo(p, l - 1) /\ (l > 0 => p[l].uses = <<>>)
  <2>1. CASE n = 0
    <3>1. l = 0
      BY <1>6, <1>8, <2>1 DEF Mapped
    <3> QED
      BY <3>1 DEF AnsweredUpTo
  <2>2. CASE n # 0
    <3>1. n \in 1..Len(v)
      BY <1>5, <2>2
    <3> QED
      BY <1>5, <1>6, <1>8, <3>1, AllAnsweredBy
  <2> QED
    BY <2>1, <2>2
<1>10. ASSUME NEW i \in DOMAIN p
       PROVE  /\ p[i].uses # <<>> => i < Len(p) /\ Answers(p[i + 1].answers, p[i].uses)
              /\ p[i].answers # <<>> => i > 1 /\ p[i - 1].uses # <<>>
  <2>1. i \in 1..l
    BY <1>7, <1>8
  <2>2. ASSUME p[i].uses # <<>> PROVE i < l /\ p[i + 1].answers = p[i].uses
    <3>1. i # l
      BY <1>9, <2>1, <2>2
    <3>2. i \in 1..(l - 1)
      BY <2>1, <3>1
    <3> QED
      BY <1>9, <2>2, <3>2 DEF AnsweredUpTo
  <2> QED
    BY <1>7, <1>8, <2>1, <2>2 DEF EachAsked, Answers
<1> QED
  BY <1>5, <1>10 DEF AnthropicAccepts

-----------------------------------------------------------------------------
(* The invariant.                                                             *)

\* The turn of attempt a begins behind the first n messages.
StartsAt(v, n, a) ==
  /\ n < Len(v) /\ v[n + 1] = UserMessage(a)
  /\ \A i \in 1..Len(v) : v[i].by = a => i > n

\* The first n messages of v are on record as the first of l.
Begins(v, n, l) == n <= Len(l) /\ \A i \in 1..n : l[i] = v[i]

Ended(m) == rounds[m] > 0 /\ pc[m] \in {"end", "nil", "succeeded"}

\* A turn that nothing disturbs has the transcript for itself.
TurnInOrder(m) ==
  LET l == log[SessionOf[m]] IN
  /\ pc[m] = "repair" =>
       phase[m] # "run" /\ view[m] = Repaired(l) /\ injected[m] = Injected(l)
  /\ pc[m] = "read" /\ phase[m] = "run" => offset[m] = Len(l) /\ AllBut(l, {})
  /\ pc[m] \in {"ask", "tool"} =>
       fresh[m] = Len(l) /\ Begins(view[m], fresh[m], l)
  /\ pc[m] = "ask"  => Tidy(view[m])
  /\ pc[m] = "tool" => Tidy(view[m] \o ResultsOf(todo[m]))
  /\ pc[m] \in {"ask", "tool"} \/ Ended(m) => StartsAt(view[m], offset[m], Attempt(m))
  /\ Ended(m) => Begins(view[m], Len(view[m]), l)
  /\ pc[m] = "end" => rounds[m] > 0

TurnsInOrder == \A m \in Incoming : SessionOf[m] \notin disturbed => TurnInOrder(m)

OneTurnAtATime ==
  \A m, o \in Active : SessionOf[m] = SessionOf[o] /\ SessionOf[m] \notin disturbed => m = o

\* Calls are open at the end only, and with their synthetic results all is tidy.
InOrder(l) == OpenAtEnd(l) /\ Tidy(Repaired(l))

TranscriptsInOrder == \A s \in Sessions : s \notin disturbed => InOrder(log[s])

EndRecords ==
  [attempt : Attempts, session : Sessions, offset : Nat,
   state : {"pending", "nil", "succeeded"}, facts : Seq(Seq(Messages))]

\* A turn that has ended puts nothing more on record.
Over(t) ==
  /\ t.session = SessionOf[t.attempt[1]] /\ t.attempt[2] <= tries[t.attempt[1]]
  /\ t.attempt[2] = tries[t.attempt[1]] => pc[t.attempt[1]] \notin Working \union {"end"}

\* Where its messages are, and where they must be among those that facts are from.
StartOf(t, l) ==
  /\ t.offset < Len(l) /\ l[t.offset + 1] = UserMessage(t.attempt)
  /\ \A i \in DOMAIN l : l[i].by = t.attempt => i > t.offset

FactsOf(t, l) ==
  \A i \in DOMAIN t.facts : \A x \in ToSet(l) : x.by = t.attempt => x \in ToSet(t.facts[i])

EndInOrder(t) ==
  /\ Over(t)
  /\ t.session \notin disturbed =>
       StartOf(t, log[t.session]) /\ FactsOf(t, log[t.session])

EndsInOrder ==
  /\ ends \in Seq(EndRecords)
  /\ \A e \in DOMAIN ends : EndInOrder(ends[e])

TInv ==
  /\ offset \in [Incoming -> Nat]
  /\ OneTurnAtATime /\ TranscriptsInOrder /\ TurnsInOrder /\ EndsInOrder

-----------------------------------------------------------------------------
(* What a step leaves in order.                                               *)

\* What m puts on record comes behind what is there, and m is at work on it.
Appends(m) ==
  /\ disturbed \subseteq disturbed'
  /\ \A s \in Sessions : s # SessionOf[m] => log'[s] = log[s]
  /\ \/ log' = log
     \/ /\ pc[m] \in Working
        /\ \E t \in Seq(Messages) :
             /\ log'[SessionOf[m]] = log[SessionOf[m]] \o t
             /\ \A x \in ToSet(t) : x.by \in {Attempt(m), Nobody}

\* No handler takes up an attempt again that it has left.
NoReturn ==
  \A o \in Incoming :
    /\ tries'[o] \in Nat /\ tries[o] <= tries'[o]
    /\ tries'[o] = tries[o] /\ pc[o] \notin Working \union {"end"} =>
         pc'[o] \notin Working \union {"end"}

\* Nothing of the handler changes.
Unmoved(o) ==
  /\ pc'[o] = pc[o] /\ phase'[o] = phase[o] /\ injected'[o] = injected[o]
  /\ view'[o] = view[o] /\ fresh'[o] = fresh[o] /\ todo'[o] = todo[o]
  /\ rounds'[o] = rounds[o] /\ offset'[o] = offset[o] /\ tries'[o] = tries[o]

\* What was recorded stays in its place.
LEMMA Behind ==
  ASSUME CInv, NEW m \in Incoming, Appends(m), NEW s \in Sessions,
         NEW l, l = log[s], NEW k, k = log'[s]
  PROVE  /\ l \in Seq(Messages) /\ k \in Seq(Messages) /\ Len(l) \in Nat /\ Len(k) \in Nat
         /\ Len(l) <= Len(k) /\ \A i \in 1..Len(l) : k[i] = l[i]
         /\ \A x \in ToSet(k) :
              \/ x \in ToSet(l)
              \/ /\ s = SessionOf[m] /\ pc[m] \in Working
                 /\ x.by \in {Attempt(m), Nobody}
<1>1. l \in Seq(Messages)
  BY DEF CInv, Types
<1>2. CASE k = l
  BY <1>1, <1>2
<1>3. CASE k # l
  <2>1. s = SessionOf[m] /\ pc[m] \in Working
    BY <1>3 DEF Appends
  <2>2. PICK t \in Seq(Messages) : /\ k = l \o t
                                   /\ \A x \in ToSet(t) : x.by \in {Attempt(m), Nobody}
    BY <1>3, <2>1 DEF Appends
  <2>3. PICK j : l \o t = j
    OBVIOUS
  <2>4. /\ j \in Seq(Messages) /\ Len(l) \in Nat /\ Len(t) \in Nat /\ Len(j) = Len(l) + Len(t)
        /\ \A i \in 1..Len(l) : j[i] = l[i]
    <3>1. /\ l \o t \in Seq(Messages) /\ Len(l) \in Nat /\ Len(t) \in Nat
          /\ Len(l \o t) = Len(l) + Len(t)
          /\ \A i \in 1..Len(l) : (l \o t)[i] = l[i]
      BY <1>1, Joined
    <3> QED
      BY <2>3, <3>1
  <2>5. ToSet(j) = ToSet(l) \union ToSet(t)
    BY <1>1, <2>3, Elements
  <2>6. Len(j) \in Nat /\ Len(l) <= Len(j) /\ k = j
    BY <2>2, <2>3, <2>4
  <2> QED
    BY <1>1, <2>1, <2>2, <2>4, <2>5, <2>6
<1> QED
  BY <1>2, <1>3

\* Nothing is recorded for a turn that has ended, and what was stays in its place.
LEMMA EndStays ==
  ASSUME CInv, NEW m \in Incoming, Appends(m), NoReturn, NEW t \in EndRecords, EndInOrder(t)
  PROVE  EndInOrder(t)'
<1>1. PICK a, o, n, s : /\ t.attempt = a /\ a[1] = o /\ a[2] = n /\ t.session = s
                        /\ a \in Attempts /\ o \in Incoming /\ n \in Nat /\ s \in Sessions
  BY DEF EndRecords, Attempts
<1>2. SessionOf[o] = s /\ n <= tries[o] /\ (n = tries[o] => pc[o] \notin Working \union {"end"})
  BY <1>1 DEF EndInOrder, Over
<1>3. tries[o] \in Nat /\ tries'[o] \in Nat /\ tries[o] <= tries'[o]
  BY <1>1 DEF CInv, Types, NoReturn
<1>4. n <= tries'[o] /\ (n = tries'[o] => tries'[o] = tries[o] /\ n = tries[o])
  BY <1>1, <1>2, <1>3
<1>5. Over(t)'
  BY <1>1, <1>2, <1>4 DEF Over, NoReturn
<1>6. ASSUME s \notin disturbed' PROVE StartOf(t, log'[s]) /\ FactsOf(t, log'[s])
  <2>1. s \notin disturbed
    BY <1>6 DEF Appends
  <2>2. PICK l, k : l = log[s] /\ k = log'[s]
    OBVIOUS
  <2>3. /\ l \in Seq(Messages) /\ k \in Seq(Messages) /\ Len(l) \in Nat /\ Len(k) \in Nat
        /\ Len(l) <= Len(k) /\ \A i \in 1..Len(l) : k[i] = l[i]
        /\ \A x \in ToSet(k) :
             \/ x \in ToSet(l)
             \/ /\ s = SessionOf[m] /\ pc[m] \in Working
                /\ x.by \in {Attempt(m), Nobody}
    <3>1. s \in Sessions
      BY <1>1
    <3> QED
      BY <2>2, <3>1, Behind, SMTT(30)
  <2>4. StartOf(t, l) /\ FactsOf(t, l) /\ t.offset \in Nat
    BY <1>1, <2>1, <2>2 DEF EndInOrder, EndRecords
  <2>5. StartOf(t, k)
    <3>1. t.offset < Len(l) /\ l[t.offset + 1] = UserMessage(t.attempt)
      BY <2>4 DEF StartOf
    <3>2. t.offset < Len(k) /\ t.offset + 1 \in 1..Len(l)
      BY <2>3, <2>4, <3>1
    <3>3. ASSUME NEW i \in 1..Len(k), k[i].by = t.attempt PROVE i > t.offset
      <4>1. CASE i \in 1..Len(l)
        BY <2>3, <2>4, <3>3, <4>1 DEF StartOf
      <4>2. CASE i \notin 1..Len(l)
        BY <2>3, <2>4, <3>1, <4>2
      <4> QED
        BY <4>1, <4>2
    <3> QED
      BY <2>3, <3>1, <3>2, <3>3 DEF StartOf
  <2>6. ASSUME NEW x \in ToSet(k), x.by = t.attempt PROVE x \in ToSet(l)
    <3>1. SUFFICES ASSUME pc[m] \in Working, t.attempt = Attempt(m) PROVE FALSE
      BY <1>1, <2>3, <2>6, NobodyMakesNone
    <3>2. o = m /\ n = tries[m]
      BY <1>1, <3>1 DEF Attempt
    <3> QED
      BY <1>2, <3>1, <3>2
  <2> QED
    BY <2>2, <2>4, <2>5, <2>6 DEF FactsOf
<1> QED
  BY <1>1, <1>5, <1>6 DEF EndInOrder

\* Another handler of the session has returned, or nothing is recorded.
LEMMA TurnStays ==
  ASSUME CInv, TInv, NEW m \in Incoming, Appends(m),
         NEW o \in Incoming, o # m, Unmoved(o), SessionOf[o] \notin disturbed'
  PROVE  TurnInOrder(o)'
<1>1. PICK s, l, k : SessionOf[o] = s /\ l = log[s] /\ k = log'[s] /\ s \in Sessions
  BY DEF Sessions
<1>2. s \notin disturbed /\ TurnInOrder(o)
  BY <1>1 DEF Appends, TInv, TurnsInOrder
<1>3. Attempt(o)' = Attempt(o) /\ (Ended(o)' <=> Ended(o))
  BY DEF Attempt, Ended, Unmoved
<1>4. CASE k = l
  BY <1>1, <1>2, <1>3, <1>4 DEF TurnInOrder, Unmoved
<1>5. CASE k # l
  <2>1. s = SessionOf[m] /\ pc[m] \in Working
    BY <1>1, <1>5 DEF Appends
  <2>2. o \notin Active
    <3>1. m \in Active
      BY <2>1 DEF Active, Working, Before, Resting
    <3> QED
      BY <1>1, <1>2, <2>1, <3>1 DEF TInv, OneTurnAtATime
  <2>3. pc[o] \in Resting
    BY <2>2 DEF Active
  <2>4. /\ l \in Seq(Messages) /\ Len(l) \in Nat /\ Len(k) \in Nat
        /\ Len(l) <= Len(k) /\ \A i \in 1..Len(l) : k[i] = l[i]
    BY <1>1, Behind
  <2>5. view[o] \in Seq(Messages)
    BY DEF CInv, Types
  <2>6. Ended(o) => Begins(view[o], Len(view[o]), k)
    <3>1. SUFFICES ASSUME Ended(o) PROVE Begins(view[o], Len(view[o]), k)
      OBVIOUS
    <3>2. PICK n \in Nat : Len(view[o]) = n
      BY <2>5
    <3>3. Begins(view[o], n, l)
      BY <1>1, <1>2, <3>1, <3>2 DEF TurnInOrder
    <3> QED
      BY <2>4, <3>2, <3>3 DEF Begins
  <2> QED
    BY <1>1, <1>2, <1>3, <2>3, <2>6 DEF TurnInOrder, Unmoved, Resting
<1> QED
  BY <1>4, <1>5

\* A step of m keeps TInv if it keeps what is about m and its session.
LEMMA TurnStep ==
  ASSUME CInv, TInv, NEW m \in Incoming, Appends(m), NoReturn,
         offset' \in [Incoming -> Nat], OneTurnAtATime', EndsInOrder',
         SessionOf[m] \notin disturbed' => InOrder(log'[SessionOf[m]]) /\ TurnInOrder(m)',
         \A o \in Incoming : o # m => Unmoved(o)
  PROVE  TInv'
<1>1. TurnsInOrder'
  <2>1. ASSUME NEW o \in Incoming, SessionOf[o] \notin disturbed' PROVE TurnInOrder(o)'
    <3>1. CASE o = m
      BY <2>1, <3>1
    <3>2. CASE o # m
      BY <2>1, <3>2, TurnStays
    <3> QED
      BY <3>1, <3>2
  <2> QED
    BY <2>1 DEF TurnsInOrder
<1>2. TranscriptsInOrder'
  <2>1. ASSUME NEW s \in Sessions, s \notin disturbed' PROVE InOrder(log'[s])
    <3>1. CASE s = SessionOf[m]
      BY <2>1, <3>1
    <3>2. CASE s # SessionOf[m]
      BY <2>1, <3>2 DEF Appends, TInv, TranscriptsInOrder
    <3> QED
      BY <3>1, <3>2
  <2> QED
    BY <2>1 DEF TranscriptsInOrder
<1> QED
  BY <1>1, <1>2 DEF TInv

\* Handlers that return leave no more of them active than there were.
LEMMA OneTurnStays ==
  ASSUME CInv, TInv, disturbed \subseteq disturbed',
         \A o \in Incoming : pc[o] \in Resting => pc'[o] \in Resting
  PROVE  OneTurnAtATime'
  BY DEF TInv, OneTurnAtATime, Active

\* No turn ends.
LEMMA EndsStay ==
  ASSUME CInv, TInv, NEW m \in Incoming, Appends(m), NoReturn, ends' = ends
  PROVE  EndsInOrder'
<1>1. ASSUME NEW e \in DOMAIN ends PROVE EndInOrder(ends[e])'
  <2>1. PICK t : t = ends[e] /\ t \in EndRecords /\ EndInOrder(t)
    BY DEF TInv, EndsInOrder
  <2>2. EndInOrder(t)'
    BY <2>1, EndStays
  <2> QED
    BY <2>1, <2>2
<1> QED
  BY <1>1 DEF TInv, EndsInOrder

-----------------------------------------------------------------------------
(* The steps of a turn.                                                       *)

\* A step of a handler that is under way, or that is settled.
LEMMA TurnGoesOn ==
  ASSUME CInv, TInv, NEW m \in Incoming, Appends(m), tries' = tries, ends' = ends,
         offset' \in [Incoming -> Nat],
         pc[m] \in Working \/ (pc[m] \in {"nil", "error"} /\ pc'[m] \in Resting),
         SessionOf[m] \notin disturbed' => InOrder(log'[SessionOf[m]]) /\ TurnInOrder(m)',
         \A o \in Incoming : o # m => Unmoved(o)
  PROVE  TInv'
<1>1. \A o \in Incoming : pc[o] \in Resting => pc'[o] \in Resting
  BY DEF Unmoved, Working, Before, Resting
<1>2. NoReturn
  <2>1. ASSUME NEW o \in Incoming, pc[o] \notin Working \union {"end"}
        PROVE  pc'[o] \notin Working \union {"end"}
    BY <2>1 DEF Unmoved, Working, Before, Resting
  <2>2. tries \in [Incoming -> Nat]
    BY DEF CInv, Types
  <2> QED
    BY <2>1, <2>2 DEF NoReturn
<1>3. OneTurnAtATime'
  BY <1>1, OneTurnStays DEF Appends
<1>4. EndsInOrder'
  BY <1>2, EndsStay
<1> QED
  BY <1>2, <1>3, <1>4, TurnStep

\* A step that leaves the transcripts as they are.
LEMMA QuietTurn ==
  ASSUME CInv, TInv, NEW m \in Incoming, log' = log, disturbed \subseteq disturbed',
         tries' = tries, ends' = ends, offset' \in [Incoming -> Nat],
         pc[m] \in Working \/ (pc[m] \in {"nil", "error"} /\ pc'[m] \in Resting),
         SessionOf[m] \notin disturbed' => TurnInOrder(m)',
         \A o \in Incoming : o # m => Unmoved(o)
  PROVE  TInv'
<1>1. Appends(m)
  BY DEF Appends
<1>2. SessionOf[m] \notin disturbed' => InOrder(log'[SessionOf[m]])
  BY DEF TInv, TranscriptsInOrder, Sessions
<1> QED
  BY <1>1, <1>2, TurnGoesOn

\* A second turn on the session of a turn under way disturbs it (Deliver).
LEMMA DeliverInOrder ==
  ASSUME CInv, CInv', TInv, NEW m \in Incoming, Deliver(m)
  PROVE  TInv'
<1>1. /\ pc[m] = "waiting" /\ log' = log /\ ends' = ends /\ disturbed \subseteq disturbed'
      /\ pc' = [pc EXCEPT ![m] = "read"] /\ tries' = [tries EXCEPT ![m] = @ + 1]
      /\ \A o \in Active : SessionOf[o] = SessionOf[m] => SessionOf[m] \in disturbed'
      /\ offset' = [offset EXCEPT ![m] = 0]
      /\ phase'[m] # "run"
  BY DEF Deliver, CInv, Types
<1>2. /\ pc \in [Incoming -> Working \union {"end", "nil", "error"} \union Resting]
      /\ tries \in [Incoming -> Nat] /\ offset \in [Incoming -> Nat]
  BY DEF CInv, Types, TInv
<1>3. pc'[m] = "read" /\ tries'[m] = tries[m] + 1 /\ offset' \in [Incoming -> Nat]
  BY <1>1, <1>2
<1>4. Appends(m)
  BY <1>1 DEF Appends
<1>5. \A o \in Incoming : o # m => Unmoved(o)
  BY <1>1, <1>2 DEF Unmoved, Deliver, CInv, Types
<1>6. NoReturn
  <2>1. ASSUME NEW o \in Incoming
        PROVE  /\ tries'[o] \in Nat /\ tries[o] <= tries'[o]
               /\ tries'[o] = tries[o] /\ pc[o] \notin Working \union {"end"} =>
                    pc'[o] \notin Working \union {"end"}
    <3>1. CASE o = m
      <4>1. tries[m] \in Nat /\ tries'[m] # tries[m]
        BY <1>2, <1>3
      <4> QED
        BY <1>3, <3>1, <4>1
    <3>2. CASE o # m
      BY <1>2, <1>5, <3>2 DEF Unmoved
    <3> QED
      BY <3>1, <3>2
  <2> QED
    BY <2>1 DEF NoReturn
<1>7. OneTurnAtATime'
  <2>1. SUFFICES ASSUME NEW o \in Incoming, NEW p \in Incoming,
                        pc'[o] \notin Resting, pc'[p] \notin Resting,
                        SessionOf[o] = SessionOf[p], SessionOf[o] \notin disturbed'
                 PROVE  o = p
    BY DEF OneTurnAtATime, Active
  <2>2. \A x \in {o, p} : x # m => x \in Active
    BY <1>5, <2>1 DEF Unmoved, Active
  <2>3. CASE o # m /\ p # m
    BY <1>1, <2>1, <2>2, <2>3 DEF TInv, OneTurnAtATime
  <2>4. CASE o = m \/ p = m
    BY <1>1, <2>1, <2>2, <2>4
  <2> QED
    BY <2>3, <2>4
<1>8. EndsInOrder'
  BY <1>1, <1>4, <1>6, EndsStay
<1>9. TurnInOrder(m)'
  BY <1>1, <1>3 DEF TurnInOrder, Ended
<1>10. SessionOf[m] \notin disturbed' => InOrder(log'[SessionOf[m]])
  BY <1>1 DEF TInv, TranscriptsInOrder, Sessions
<1> QED
  BY <1>3, <1>4, <1>5, <1>6, <1>7, <1>8, <1>9, <1>10, TurnStep

\* Of this attempt nothing is on record before its first request.
LEMMA NothingSaid ==
  ASSUME CInv, NEW m \in Incoming, pc[m] \in Before, NEW x \in Logged(SessionOf[m])
  PROVE  x.by # Attempt(m)
<1>1. SUFFICES ASSUME x.by = Attempt(m) PROVE FALSE
  OBVIOUS
<1>2. rounds[m] = 0 /\ Said(rounds[m], x)
  BY <1>1 DEF CInv, Handler, FirstRound, OfEarlierRounds, Working
<1>3. x \in Messages
  <2>1. SessionOf[m] \in Sessions /\ log \in [Sessions -> Seq(Messages)]
    BY DEF CInv, Types, Sessions
  <2>2. PICK l \in Seq(Messages) : log[SessionOf[m]] = l
    BY <2>1
  <2> QED
    BY <2>2 DEF Logged, ToSet
<1>4. x.calls \in Seq(Ids) /\ (x.callID \in Ids => x.callID[3] \in Nat)
  BY <1>3 DEF Messages, Ids
<1>5. x.calls # <<>> => x.calls[1][3] \in Nat
  <2>1. x.calls # <<>> => x.calls[1] \in Ids
    BY <1>4
  <2> QED
    BY <2>1 DEF Ids
<1>6. PICK c, d : c = x.callID[3] /\ d = x.calls[1][3]
  OBVIOUS
<1> QED
  BY <1>2, <1>4, <1>5, <1>6 DEF Said

\* The first request of a turn.
LEMMA FirstRequest ==
  ASSUME NEW h \in Seq(Messages), NEW a \in Attempts, Tidy(h),
         \A i \in 1..Len(h) : h[i].by # a,
         NEW w, w = Append(h, UserMessage(a))
  PROVE  Tidy(w) /\ StartsAt(w, Len(h), a) /\ Begins(w, Len(h), h)
<1>1. PICK u : /\ UserMessage(a) = u /\ u \in Messages
               /\ u.by = a /\ u.role = "user" /\ u.calls = <<>>
  BY UserMessageIs
<1>2. /\ w \in Seq(Messages) /\ Len(h) \in Nat /\ Len(w) = Len(h) + 1 /\ w[Len(h) + 1] = u
      /\ \A i \in 1..Len(h) : w[i] = h[i]
  BY <1>1
<1>3. Tidy(w)
  <2>1. Tidy(Append(h, u) \o ResultsOf(u.calls))
    BY <1>1, TidyGrows
  <2>2. ResultsOf(u.calls) = <<>>
    BY <1>1 DEF ResultsOf
  <2>3. w \o <<>> = w
    BY <1>2
  <2> QED
    BY <1>1, <2>1, <2>2, <2>3
<1>4. StartsAt(w, Len(h), a)
  <2>1. ASSUME NEW i \in 1..Len(w), w[i].by = a PROVE i > Len(h)
    <3>1. i \notin 1..Len(h)
      BY <1>2, <2>1
    <3> QED
      BY <1>2, <3>1
  <2> QED
    BY <1>1, <1>2, <2>1 DEF StartsAt
<1>5. Begins(w, Len(h), h)
  BY <1>2 DEF Begins
<1> QED
  BY <1>3, <1>4, <1>5

\* What follows a read moves no other handler.
LEMMA AfterReadMoves ==
  ASSUME CInv, TInv, NEW m \in Incoming, NEW h \in Seq(Messages), NEW ok, AfterRead(m, h, ok),
         NEW x, injected' = injected \/ injected' = [injected EXCEPT ![m] = x],
         UNCHANGED <<tries, todo, rounds>>
  PROVE  offset' \in [Incoming -> Nat] /\ \A o \in Incoming : o # m => Unmoved(o)
<1>1. /\ pc' = [pc EXCEPT ![m] = pc'[m]] /\ phase' = [phase EXCEPT ![m] = phase'[m]]
      /\ view' = [view EXCEPT ![m] = view'[m]] /\ fresh' = [fresh EXCEPT ![m] = fresh'[m]]
      /\ offset' = [offset EXCEPT ![m] = offset'[m]] /\ offset'[m] \in Nat
  <2>1. /\ pc \in [Incoming -> Working \union {"end", "nil", "error"} \union Resting]
        /\ phase \in [Incoming -> {"assess", "offset", "run"}]
        /\ view \in [Incoming -> Seq(Messages)] /\ fresh \in [Incoming -> Nat]
        /\ offset \in [Incoming -> Nat] /\ Len(h) \in Nat
    BY DEF CInv, Types, TInv
  <2>2. CASE phase[m] = "assess"
    BY <2>1, <2>2 DEF AfterRead
  <2>3. CASE phase[m] = "offset"
    BY <2>1, <2>3 DEF AfterRead, TurnOffset
  <2>4. CASE phase[m] = "run"
    BY <2>1, <2>4 DEF AfterRead
  <2> QED
    BY <2>1, <2>2, <2>3, <2>4
<1>2. \A o \in Incoming : o # m => injected'[o] = injected[o]
  BY DEF CInv, Types
<1>3. offset' \in [Incoming -> Nat]
  BY <1>1 DEF TInv
<1> QED
  BY <1>1, <1>2, <1>3 DEF Unmoved, CInv, Types, TInv

\* What follows a read of the transcript h, which is what is then on record.
LEMMA AfterReadInOrder ==
  ASSUME CInv, TInv, NEW m \in Incoming, pc[m] \in {"read", "repair"},
         NEW h \in Seq(Messages), h = log'[SessionOf[m]], AllBut(h, {}), Tidy(h),
         NEW ok, AfterRead(m, h, ok),
         phase[m] = "run" => offset[m] = Len(h),
         \A x \in ToSet(h) : x \in Logged(SessionOf[m]) \/ x.by = Nobody,
         UNCHANGED <<tries, todo, rounds>>
  PROVE  TurnInOrder(m)'
<1>1. /\ pc \in [Incoming -> Working \union {"end", "nil", "error"} \union Resting]
      /\ phase \in [Incoming -> {"assess", "offset", "run"}]
      /\ tries \in [Incoming -> Nat] /\ rounds \in [Incoming -> Nat]
      /\ view \in [Incoming -> Seq(Messages)] /\ fresh \in [Incoming -> Nat]
      /\ offset \in [Incoming -> Nat]
  BY DEF CInv, Types, TInv
<1>2. Len(h) \in Nat
  OBVIOUS
<1>3. CASE phase[m] = "assess"
  <2>1. /\ pc' = [pc EXCEPT ![m] = IF ok THEN "perceive" ELSE "error"]
        /\ UNCHANGED <<phase, view, fresh, offset>>
    BY <1>3 DEF AfterRead
  <2>2. pc'[m] \in {"perceive", "error"}
    BY <1>1, <2>1
  <2>3. TurnInOrder(m)'
    BY <2>2 DEF TurnInOrder, Ended
  <2> QED
    BY <1>1, <2>1, <2>3
<1>4. CASE phase[m] = "offset"
  <2>1. /\ offset' = [offset EXCEPT ![m] = Len(h)]
        /\ pc' = [pc EXCEPT ![m] = "read"]
        /\ phase' = [phase EXCEPT ![m] = "run"]
        /\ UNCHANGED <<view, fresh>>
    BY <1>4 DEF AfterRead, TurnOffset
  <2>2. pc'[m] = "read" /\ offset'[m] = Len(h)
    BY <1>1, <2>1
  <2>3. TurnInOrder(m)'
    BY <2>2 DEF TurnInOrder, Ended
  <2> QED
    BY <1>1, <1>2, <2>1, <2>3
<1>5. CASE phase[m] = "run"
  <2> DEFINE w == Append(h, UserMessage(Attempt(m)))
  <2>1. /\ view' = [view EXCEPT ![m] = w]
        /\ fresh' = [fresh EXCEPT ![m] = Len(h)]
        /\ pc' = [pc EXCEPT ![m] = "ask"]
        /\ UNCHANGED <<phase, offset>>
    BY <1>5 DEF AfterRead, StartOfNew
  <2>2. /\ pc'[m] = "ask" /\ offset'[m] = Len(h) /\ fresh'[m] = Len(h) /\ view'[m] = w
        /\ Attempt(m)' = Attempt(m)
    BY <1>1, <1>5, <2>1 DEF Attempt
  <2>3. Attempt(m) \in Attempts
    BY <1>1 DEF Attempt, Attempts
  <2>4. ASSUME NEW i \in 1..Len(h) PROVE h[i].by # Attempt(m)
    <3>1. h[i] \in ToSet(h)
      BY DEF ToSet
    <3> QED
      BY <2>3, <3>1, NothingSaid, NobodyMakesNone DEF Before
  <2>5. Tidy(w) /\ StartsAt(w, Len(h), Attempt(m)) /\ Begins(w, Len(h), h)
    BY <2>3, <2>4, FirstRequest
  <2> HIDE DEF w
  <2>6. TurnInOrder(m)'
    BY <2>2, <2>5 DEF TurnInOrder, Ended
  <2> QED
    BY <1>1, <2>1, <2>6
<1> QED
  BY <1>1, <1>3, <1>4, <1>5

\* A turn reads the transcript as it is, with the results that are missing put in
\* (Read).
LEMMA ReadInOrder ==
  ASSUME CInv, CInv', TInv, NEW m \in Incoming, Read(m)
  PROVE  TInv'
<1>1. PICK s, l : SessionOf[m] = s /\ log[s] = l /\ s \in Sessions /\ l \in Seq(Messages)
  <2>1. SessionOf[m] \in Sessions /\ log[SessionOf[m]] \in Seq(Messages)
    BY DEF Sessions, CInv, Types
  <2> QED
    BY <2>1
<1>2. /\ pc[m] = "read" /\ disturbed \subseteq disturbed'
      /\ UNCHANGED <<log, tries, ends, todo, rounds>>
  BY DEF Read, StoreWorks, StoreFails
<1>3. s \notin disturbed => InOrder(l) /\ TurnInOrder(m)
  BY <1>1 DEF TInv, TranscriptsInOrder, TurnsInOrder
<1>4. pc[m] \in Working
  BY <1>2 DEF Working, Before
<1>5. CASE AfterRead(m, l, TRUE) /\ Injected(l) = <<>> /\ injected' = injected /\ StoreWorks
  <2>1. AllBut(l, {})
    BY <1>1, <1>5, NothingOpen
  <2>2. offset' \in [Incoming -> Nat] /\ \A o \in Incoming : o # m => Unmoved(o)
    BY <1>1, <1>2, <1>5, AfterReadMoves
  <2>3. ASSUME s \notin disturbed' PROVE TurnInOrder(m)'
    <3>1. s \notin disturbed
      BY <1>2, <2>3
    <3>2. Tidy(l)
      <4>1. Tidy(Repaired(l)) /\ Repaired(l) = l
        BY <1>1, <1>3, <2>1, <3>1, NoRepair DEF InOrder
      <4> QED
        BY <4>1
    <3>3. phase[m] = "run" => offset[m] = Len(l)
      BY <1>1, <1>2, <1>3, <3>1 DEF TurnInOrder
    <3>4. \A x \in ToSet(l) : x \in Logged(SessionOf[m]) \/ x.by = Nobody
      BY <1>1 DEF Logged
    <3>5. l = log'[SessionOf[m]]
      BY <1>1, <1>2
    <3> QED
      BY <1>1, <1>2, <1>5, <2>1, <3>2, <3>3, <3>4, <3>5, AfterReadInOrder
  <2> QED
    BY <1>1, <1>2, <1>4, <2>2, <2>3, QuietTurn
<1>6. CASE AfterRead(m, <<>>, FALSE) /\ injected' = injected /\ StoreFails(s)
  <2>1. s \in disturbed'
    BY <1>6 DEF StoreFails
  <2>2. offset' \in [Incoming -> Nat] /\ \A o \in Incoming : o # m => Unmoved(o)
    <3>1. <<>> \in Seq(Messages)
      OBVIOUS
    <3> QED
      BY <1>2, <1>6, <3>1, AfterReadMoves
  <2> QED
    BY <1>1, <1>2, <1>4, <2>1, <2>2, QuietTurn
<1>7. CASE /\ injected' = [injected EXCEPT ![m] = Injected(l)] /\ Injected(l) # <<>>
           /\ view' = [view EXCEPT ![m] = Repaired(l)]
           /\ pc' = [pc EXCEPT ![m] = "repair"]
           /\ UNCHANGED <<phase, fresh, offset>>
  <2>1. offset' \in [Incoming -> Nat] /\ \A o \in Incoming : o # m => Unmoved(o)
    BY <1>2, <1>7 DEF Unmoved, CInv, Types, TInv
  <2>2. /\ pc'[m] = "repair" /\ view'[m] = Repaired(l) /\ injected'[m] = Injected(l)
        /\ phase'[m] = phase[m] /\ log'[s] = l
    BY <1>1, <1>2, <1>7 DEF CInv, Types
  <2>3. ASSUME s \notin disturbed' PROVE phase[m] # "run"
    <3>1. ~AllBut(l, {})
      BY <1>1, <1>7, NothingOpen
    <3>2. s \notin disturbed
      BY <1>2, <2>3
    <3> QED
      BY <1>1, <1>2, <1>3, <3>1, <3>2 DEF TurnInOrder
  <2>4. s \notin disturbed' => TurnInOrder(m)'
    BY <1>1, <2>2, <2>3 DEF TurnInOrder, Ended
  <2> QED
    BY <1>1, <1>2, <1>4, <2>1, <2>4, QuietTurn
<1> QED
  BY <1>1, <1>5, <1>6, <1>7 DEF Read, Transcript

\* What AppendToLog does to the transcripts.
LEMMA AppendInOrder ==
  ASSUME CInv, NEW m \in Incoming, pc[m] \in Working, NEW t \in Seq(Messages),
         AppendToLog(SessionOf[m], t), \A x \in ToSet(t) : x.by \in {Attempt(m), Nobody}
  PROVE  /\ Appends(m)
         /\ SessionOf[m] \notin disturbed' =>
              log'[SessionOf[m]] = log[SessionOf[m]] \o t
<1>1. SessionOf[m] \in Sessions /\ log \in [Sessions -> Seq(Messages)]
  BY DEF Sessions, CInv, Types
<1>2. CASE log' = [log EXCEPT ![SessionOf[m]] = @ \o t] /\ StoreWorks
  BY <1>1, <1>2 DEF StoreWorks, Appends
<1>3. CASE StoreFails(SessionOf[m]) /\ log' = log
  BY <1>1, <1>3 DEF StoreFails, Appends
<1> QED
  BY <1>2, <1>3 DEF AppendToLog

\* With the synthetic results on record the transcript is what the turn goes on
\* from (Repair).
LEMMA RepairInOrder ==
  ASSUME CInv, CInv', TInv, NEW m \in Incoming, Repair(m)
  PROVE  TInv'
<1>1. PICK s, l, t, h : /\ SessionOf[m] = s /\ log[s] = l /\ injected[m] = t /\ view[m] = h
                        /\ s \in Sessions /\ l \in Seq(Messages) /\ h \in Seq(Messages)
  <2>1. /\ SessionOf[m] \in Sessions /\ log[SessionOf[m]] \in Seq(Messages)
        /\ view[m] \in Seq(Messages)
    BY DEF Sessions, CInv, Types
  <2> QED
    BY <2>1
<1>2. /\ pc[m] = "repair" /\ UNCHANGED <<tries, ends, todo, rounds>>
      /\ injected' = [injected EXCEPT ![m] = <<>>]
      /\ AppendToLog(s, t) /\ AfterRead(m, h, TRUE)
  BY <1>1 DEF Repair
<1>3. pc[m] \in Working
  BY <1>2 DEF Working, Before
<1>4. t \in Seq(Messages) /\ \A x \in ToSet(t) : x.by = Nobody
  <2>1. t \in Seq(Results)
    BY <1>1 DEF CInv, Types
  <2>2. t \in Seq(Messages) /\ \A x \in ToSet(t) : x \in Results
    BY <2>1 DEF Results, ToSet
  <2> QED
    BY <2>2 DEF Results
<1>5. Appends(m) /\ (s \notin disturbed' => log'[s] = l \o t)
  <2>1. /\ Appends(m)
        /\ SessionOf[m] \notin disturbed' => log'[SessionOf[m]] = log[SessionOf[m]] \o t
    BY <1>1, <1>2, <1>3, <1>4, AppendInOrder
  <2> QED
    BY <1>1, <2>1
<1>6. /\ offset' \in [Incoming -> Nat]
      /\ \A o \in Incoming : o # m => Unmoved(o)
  BY <1>1, <1>2, AfterReadMoves
<1>7. ASSUME s \notin disturbed' PROVE InOrder(log'[s]) /\ TurnInOrder(m)'
  <2>1. s \notin disturbed
    BY <1>5, <1>7 DEF Appends
  <2>2. phase[m] # "run" /\ h = Repaired(l) /\ t = Injected(l)
    BY <1>1, <1>2, <2>1 DEF TInv, TurnsInOrder, TurnInOrder
  <2>3. OpenAtEnd(l) /\ Tidy(h)
    BY <1>1, <2>1, <2>2 DEF TInv, TranscriptsInOrder, InOrder
  <2>4. h = l \o t
    <3>1. PICK r : r = ResultsOf(OpenCalls(l))
      OBVIOUS
    <3>2. Injected(l) = r /\ Repaired(l) = l \o r
      BY <1>1, <2>3, <3>1, RepairAtEnd
    <3> QED
      BY <2>2, <3>2
  <2>5. h = log'[s]
    BY <1>5, <1>7, <2>4
  <2>6. AllBut(h, {})
    BY <1>1, <1>2 DEF CInv, Handler, NoOpenCalls
  <2>7. InOrder(h)
    BY <1>1, <2>3, <2>6, NoRepair DEF InOrder
  <2>8. \A x \in ToSet(h) : x \in Logged(SessionOf[m]) \/ x.by = Nobody
    BY <1>1, <1>4, <2>4, Elements DEF Logged
  <2>9. TurnInOrder(m)'
    BY <1>1, <1>2, <2>2, <2>3, <2>5, <2>6, <2>8, AfterReadInOrder
  <2> QED
    BY <2>5, <2>7, <2>9
<1> QED
  BY <1>1, <1>2, <1>3, <1>5, <1>6, <1>7, TurnGoesOn

\* A message that is judged has no reply yet (Perceive).
LEMMA PerceiveInOrder ==
  ASSUME CInv, CInv', TInv, NEW m \in Incoming, Perceive(m)
  PROVE  TInv'
<1>1. /\ pc[m] = "perceive" /\ pc[m] \in Working
      /\ UNCHANGED <<log, tries, injected, view, fresh, todo, rounds, offset, ends, disturbed>>
  BY DEF Perceive, Working, Before
<1>2. rounds'[m] = 0
  BY <1>1 DEF CInv, Handler, FirstRound, Before
<1>3. offset' \in [Incoming -> Nat]
  BY <1>1 DEF TInv
<1>4. CASE pc' = [pc EXCEPT ![m] = "read"] /\ phase' = [phase EXCEPT ![m] = "offset"]
  <2>1. \A o \in Incoming : o # m => Unmoved(o)
    BY <1>1, <1>4 DEF Unmoved, CInv, Types
  <2>2. pc'[m] = "read" /\ phase'[m] = "offset"
    BY <1>4 DEF CInv, Types
  <2>3. TurnInOrder(m)'
    BY <2>2 DEF TurnInOrder, Ended
  <2> QED
    BY <1>1, <1>3, <2>1, <2>3, QuietTurn
<1>5. CASE pc' = [pc EXCEPT ![m] = "nil"] \/ pc' = [pc EXCEPT ![m] = "error"]
  <2>1. phase' = phase
    BY <1>5 DEF Perceive, CInv, Types
  <2>2. \A o \in Incoming : o # m => Unmoved(o)
    BY <1>1, <1>5, <2>1 DEF Unmoved, CInv, Types
  <2>3. pc'[m] \in {"nil", "error"}
    BY <1>5 DEF CInv, Types
  <2>4. TurnInOrder(m)'
    BY <1>2, <2>3 DEF TurnInOrder, Ended
  <2> QED
    BY <1>1, <1>3, <2>2, <2>4, QuietTurn
<1> QED
  BY <1>4, <1>5 DEF Perceive

\* What is left of a sequence behind its first f elements.
LEMMA Suffix ==
  ASSUME NEW S, NEW v \in Seq(S), NEW f \in Nat, f <= Len(v)
  PROVE  /\ SubSeq(v, f + 1, Len(v)) \in Seq(S)
         /\ Len(SubSeq(v, f + 1, Len(v))) = Len(v) - f
         /\ \A i \in 1..(Len(v) - f) : SubSeq(v, f + 1, Len(v))[i] = v[f + i]
<1>1. PICK n \in Nat : Len(v) = n
  OBVIOUS
<1>2. PICK b : SubSeq(v, f + 1, n) = b
  OBVIOUS
<1>3. f + 1 \in Int /\ n \in Int /\ \A i \in (f + 1)..n : v[i] \in S
  BY <1>1
<1>4. /\ SubSeq(v, f + 1, n) \in Seq(S)
      /\ Len(SubSeq(v, f + 1, n)) = IF f + 1 <= n THEN n - (f + 1) + 1 ELSE 0
      /\ \A i \in 1..(n - (f + 1) + 1) : SubSeq(v, f + 1, n)[i] = v[(f + 1) + i - 1]
  BY ONLY <1>3, SubSeqProperties
<1>5. b \in Seq(S) /\ Len(b) = IF f + 1 <= n THEN n - (f + 1) + 1 ELSE 0
  BY <1>2, <1>4
<1>6. Len(b) = n - f
  BY <1>1, <1>5
<1>7. ASSUME NEW i \in 1..(n - f) PROVE b[i] = v[f + i]
  <2>1. i \in 1..(n - (f + 1) + 1) /\ (f + 1) + i - 1 = f + i
    BY <1>1, <1>7
  <2>2. SubSeq(v, f + 1, n)[i] = v[(f + 1) + i - 1]
    BY ONLY <1>4, <2>1, Zenon
  <2> QED
    BY ONLY <1>2, <2>1, <2>2, Zenon
<1> QED
  BY <1>1, <1>2, <1>5, <1>6, <1>7

\* What is new of the request, behind what is on record of it, is the request.
LEMMA NewJoins ==
  ASSUME NEW v \in Seq(Messages), NEW l \in Seq(Messages), Len(l) <= Len(v),
         Begins(v, Len(l), l)
  PROVE  l \o SubSeq(v, Len(l) + 1, Len(v)) = v
<1>1. PICK f \in Nat, n \in Nat : Len(l) = f /\ Len(v) = n /\ f <= n
  OBVIOUS
<1>2. PICK b : SubSeq(v, f + 1, n) = b
  OBVIOUS
<1>3. /\ b \in Seq(Messages) /\ Len(b) = n - f
      /\ \A i \in 1..(n - f) : b[i] = v[f + i]
  <2>1. f <= Len(v)
    BY <1>1
  <2>2. /\ SubSeq(v, f + 1, Len(v)) \in Seq(Messages)
        /\ Len(SubSeq(v, f + 1, Len(v))) = Len(v) - f
        /\ \A i \in 1..(Len(v) - f) : SubSeq(v, f + 1, Len(v))[i] = v[f + i]
    BY <2>1, Suffix
  <2> QED
    BY <1>1, <1>2, <2>2
<1>4. PICK j : l \o b = j
  OBVIOUS
<1>5. /\ j \in Seq(Messages) /\ Len(j) = n
      /\ \A i \in 1..f : j[i] = l[i]
      /\ \A i \in 1..(n - f) : j[f + i] = b[i]
  <2>1. /\ l \o b \in Seq(Messages) /\ Len(l \o b) = Len(l) + Len(b)
        /\ \A i \in 1..Len(l) : (l \o b)[i] = l[i]
        /\ \A i \in 1..Len(b) : (l \o b)[Len(l) + i] = b[i]
    <3>1. l \in Seq(Messages) /\ b \in Seq(Messages)
      BY <1>3
    <3> QED
      BY ONLY <3>1, Joined
  <2> QED
    BY <1>1, <1>3, <1>4, <2>1
<1>6. ASSUME NEW i \in 1..n PROVE j[i] = v[i]
  <2>1. CASE i <= f
    BY <1>1, <1>5, <2>1 DEF Begins
  <2>2. CASE ~(i <= f)
    <3>1. PICK k \in Int : i - f = k
      BY <1>1
    <3>2. k \in 1..(n - f) /\ f + k = i
      BY <1>1, <2>2, <3>1
    <3>3. j[f + k] = b[k] /\ b[k] = v[f + k]
      BY <1>3, <1>5, <3>2
    <3> QED
      BY <3>2, <3>3
  <2> QED
    BY <2>1, <2>2
<1>7. j = v
  BY <1>1, <1>5, <1>6, SeqEqual
<1> QED
  BY <1>1, <1>2, <1>4, <1>7

\* One message more of the attempt, behind where its turn starts.
LEMMA StartsGrows ==
  ASSUME NEW v \in Seq(Messages), NEW x \in Messages, NEW n \in Nat, NEW a,
         StartsAt(v, n, a)
  PROVE  StartsAt(Append(v, x), n, a)
<1>1. PICK w : Append(v, x) = w
  OBVIOUS
<1>2. /\ Len(v) \in Nat /\ Len(w) = Len(v) + 1 /\ \A i \in 1..Len(v) : w[i] = v[i]
  BY <1>1
<1>3. n < Len(v) /\ v[n + 1] = UserMessage(a) /\ n + 1 \in 1..Len(v)
  BY <1>2 DEF StartsAt
<1>4. ASSUME NEW i \in 1..Len(w), w[i].by = a PROVE i > n
  <2>1. CASE i \in 1..Len(v)
    BY <1>2, <1>4, <2>1 DEF StartsAt
  <2>2. CASE i \notin 1..Len(v)
    BY <1>2, <1>3, <2>2
  <2> QED
    BY <2>1, <2>2
<1> QED
  BY <1>1, <1>2, <1>3, <1>4 DEF StartsAt

\* The exchange makes the transcript what the model was told, and its reply (Ask).
LEMMA AskInOrder ==
  ASSUME CInv, CInv', TInv, NEW m \in Incoming, Ask(m)
  PROVE  TInv'
<1>1. PICK s, l, v, f : /\ SessionOf[m] = s /\ log[s] = l /\ view[m] = v /\ fresh[m] = f
                        /\ s \in Sessions /\ l \in Seq(Messages) /\ v \in Seq(Messages)
  <2>1. /\ SessionOf[m] \in Sessions /\ log[SessionOf[m]] \in Seq(Messages)
        /\ view[m] \in Seq(Messages)
    BY DEF Sessions, CInv, Types
  <2> QED
    BY <2>1
<1>2. PICK r \in Replies(world.provider, view[m], ReplyTool, world.calls) : Answered(m, r)
  BY DEF Ask
<1>3. /\ pc[m] = "ask" /\ pc[m] \in Working
      /\ UNCHANGED <<tries, ends, phase, injected, offset>>
  BY DEF Ask, Working
<1>4. /\ r.text \in BOOLEAN /\ r.calls \in Nat
      /\ r.finish = "tool_calls" => r.calls > 0
  BY ReplyKinds
<1>5. PICK n, cs, x, e :
        /\ n = r.calls /\ n \in Nat /\ cs = CallIDs(m, n)
        /\ x = AssistantMessage(r.text, cs, Attempt(m)) /\ e = Exchange(m, x)
  BY <1>4
<1>6. /\ cs \in Seq(Ids) /\ Len(cs) = n
      /\ x \in Messages /\ x.role = "assistant" /\ x.calls = cs /\ x.by = Attempt(m)
  <2>1. PICK t \in BOOLEAN : t = r.text
    BY <1>4
  <2>2. n \in Nat /\ cs = CallIDs(m, n) /\ x = AssistantMessage(t, cs, Attempt(m))
    BY <1>5, <2>1
  <2> QED
    BY ONLY CInv, m \in Incoming, <2>2, t \in BOOLEAN, ReplyIs
<1>7. e \in Seq(Messages) /\ \A y \in ToSet(e) : y.by \in {Attempt(m), Nobody}
  <2>1. e \in Seq(Messages) /\ \A y \in ToSet(e) : y.by = Attempt(m)
    BY <1>3, <1>5, <1>6, ExchangeIs
  <2> QED
    BY <2>1
<1>8. /\ AppendToLog(SessionOf[m], e)
      /\ rounds' = [rounds EXCEPT ![m] = @ + 1]
      /\ \/ /\ pc' = [pc EXCEPT ![m] = "end"] \/ pc' = [pc EXCEPT ![m] = "error"]
            /\ UNCHANGED <<view, fresh, todo>>
         \/ /\ r.finish = "tool_calls"
            /\ view' = [view EXCEPT ![m] = Append(@, x)]
            /\ fresh' = [fresh EXCEPT ![m] = Len(view[m]) + 1]
            /\ todo' = [todo EXCEPT ![m] = cs]
            /\ pc' = [pc EXCEPT ![m] = IF n = 0 THEN "ask"
                                       ELSE IF ReplyTool THEN "tool" ELSE "error"]
  <2>1. x.calls = cs
    BY <1>6
  <2> QED
    BY <1>2, <1>5, <2>1 DEF Answered, NextStart
<1>9. Appends(m) /\ (s \notin disturbed' => log'[s] = l \o e)
  <2>1. /\ Appends(m)
        /\ SessionOf[m] \notin disturbed' => log'[SessionOf[m]] = log[SessionOf[m]] \o e
    BY <1>3, <1>7, <1>8, AppendInOrder
  <2> QED
    BY <1>1, <2>1
<1>10. /\ offset' \in [Incoming -> Nat]
       /\ \A o \in Incoming : o # m => Unmoved(o)
  <2>1. /\ pc \in [Incoming -> Working \union {"end", "nil", "error"} \union Resting]
        /\ view \in [Incoming -> Seq(Messages)] /\ fresh \in [Incoming -> Nat]
        /\ todo \in [Incoming -> Seq(Ids)] /\ rounds \in [Incoming -> Nat]
        /\ offset \in [Incoming -> Nat]
    BY DEF CInv, Types, TInv
  <2>2. ASSUME NEW o \in Incoming, o # m
        PROVE  /\ pc'[o] = pc[o] /\ view'[o] = view[o] /\ fresh'[o] = fresh[o]
               /\ todo'[o] = todo[o] /\ rounds'[o] = rounds[o]
    BY <1>8, <2>1, <2>2
  <2> QED
    BY <1>3, <2>1, <2>2 DEF Unmoved
<1>11. ASSUME s \notin disturbed' PROVE InOrder(log'[s]) /\ TurnInOrder(m)'
  <2>1. s \notin disturbed
    BY <1>9, <1>11 DEF Appends
  <2>2. TurnInOrder(m)
    BY <1>1, <2>1 DEF TInv, TurnsInOrder
  <2>3. /\ f = Len(l) /\ Begins(v, f, l) /\ Tidy(v) /\ StartsAt(v, offset[m], Attempt(m))
        /\ f <= Len(v) /\ AllBut(v, {}) /\ offset[m] \in Nat
    BY <1>1, <1>3, <2>2 DEF TurnInOrder, CInv, Handler, ToRecord, NoOpenCalls, TInv
  <2>4. PICK b, c : /\ SubSeq(v, f + 1, Len(v)) = b
                    /\ (IF x.text \/ x.calls # <<>> THEN <<x>> ELSE <<>>) = c
    OBVIOUS
  <2>5. l \o b = v
    BY <1>1, <2>3, <2>4, NewJoins
  <2>6. l \o e = v \o c
    <3>1. e = b \o c
      BY <1>1, <1>5, <2>4 DEF Exchange
    <3>2. b \in Seq(Messages) /\ c \in Seq(Messages)
      <4>1. Len(l) \in Nat /\ Len(v) \in Nat
        BY <1>1
      <4>2. b \in Seq(Messages)
        <5>1. f \in Nat /\ f <= Len(v)
          BY <2>3, <4>1
        <5>2. SubSeq(v, f + 1, Len(v)) \in Seq(Messages)
          BY <1>1, <5>1, Suffix
        <5> QED
          BY <2>4, <5>2
      <4>3. <<x>> \in Seq(Messages) /\ <<>> \in Seq(Messages)
        BY <1>6
      <4> QED
        BY <2>4, <4>2, <4>3
    <3>3. l \o (b \o c) = (l \o b) \o c
      BY <1>1, <3>2
    <3> QED
      BY <2>5, <3>1, <3>3
  <2>7. PICK w, k : Append(v, x) = w /\ log'[s] = k
    OBVIOUS
  <2>8. /\ w \in Seq(Messages) /\ Len(v) \in Nat /\ Len(w) = Len(v) + 1
        /\ \A i \in 1..Len(v) : w[i] = v[i]
    <3>1. /\ Append(v, x) \in Seq(Messages) /\ Len(v) \in Nat
          /\ Len(Append(v, x)) = Len(v) + 1
          /\ \A i \in 1..Len(v) : Append(v, x)[i] = v[i]
      BY <1>1, <1>6
    <3> QED
      BY <2>7, <3>1
  <2>9. \/ k = w
        \/ k = v /\ x.calls = <<>>
    <3>1. v \o <<x>> = w /\ v \o <<>> = v
      <4>1. v \o <<x>> = Append(v, x) /\ v \o <<>> = v
        BY <1>1, <1>6
      <4> QED
        BY <2>7, <4>1
    <3> QED
      BY <1>9, <1>11, <2>4, <2>6, <2>7, <3>1
  <2>10. Tidy(w \o ResultsOf(cs))
    BY <1>1, <1>6, <2>3, <2>7, TidyGrows
  <2>11. InOrder(k)
    <3>1. CASE k = w
      BY <1>1, <1>6, <2>3, <2>7, <2>10, <3>1, RepairOfAppend DEF InOrder
    <3>2. CASE k = v
      BY <1>1, <2>3, <3>2, NoRepair DEF InOrder
    <3> QED
      BY <2>9, <3>1, <3>2
  <2>12. Begins(v, Len(v), k)
    BY <2>8, <2>9 DEF Begins
  <2>13. /\ Attempt(m)' = Attempt(m) /\ offset'[m] = offset[m] /\ rounds'[m] > 0
    BY <1>3, <1>8 DEF Attempt, CInv, Types
  <2>14. ASSUME pc'[m] \in {"end", "error"}, view'[m] = v PROVE TurnInOrder(m)'
    <3>1. log'[SessionOf[m]] = k
      BY <1>1, <2>7
    <3>2. StartsAt(v, offset[m], Attempt(m))
      BY <2>3
    <3> QED
      BY <2>12, <2>13, <2>14, <3>1, <3>2 DEF TurnInOrder, Ended
  <2>15. ASSUME pc'[m] \in {"tool", "error"}, view'[m] = w, fresh'[m] = Len(v) + 1,
                todo'[m] = cs, n > 0
         PROVE  TurnInOrder(m)'
    <3>1. k = w
      BY <1>6, <2>9, <2>15
    <3>2. Begins(w, Len(w), k)
      BY <2>8, <3>1 DEF Begins
    <3>3. StartsAt(w, offset[m], Attempt(m))
      BY <1>1, <1>6, <2>3, <2>7, StartsGrows
    <3>4. fresh'[m] = Len(w)
      BY <2>8, <2>15
    <3>5. log'[SessionOf[m]] = k
      BY <1>1, <2>7
    <3>6. CASE pc'[m] = "error"
      BY <3>6 DEF TurnInOrder, Ended
    <3>7. CASE pc'[m] = "tool"
      <4>1. /\ fresh'[m] = Len(log'[SessionOf[m]])
            /\ Begins(view'[m], fresh'[m], log'[SessionOf[m]])
        BY <2>15, <3>1, <3>2, <3>4, <3>5
      <4>2. Tidy(view'[m] \o ResultsOf(todo'[m]))
        BY <2>10, <2>15
      <4>3. StartsAt(view'[m], offset'[m], Attempt(m)')
        BY <2>13, <2>15, <3>3
      <4> QED
        BY <3>7, <4>1, <4>2, <4>3 DEF TurnInOrder, Ended
    <3> QED
      BY <2>15, <3>6, <3>7
  <2>16. \/ pc'[m] \in {"end", "error"} /\ view'[m] = v
         \/ /\ pc'[m] \in {"tool", "error"} /\ view'[m] = w /\ fresh'[m] = Len(v) + 1
            /\ todo'[m] = cs /\ n > 0
    <3>1. /\ pc \in [Incoming -> Working \union {"end", "nil", "error"} \union Resting]
          /\ view \in [Incoming -> Seq(Messages)] /\ fresh \in [Incoming -> Nat]
          /\ todo \in [Incoming -> Seq(Ids)]
      BY DEF CInv, Types
    <3>2. r.finish = "tool_calls" => n > 0 /\ n # 0
      BY <1>4, <1>5
    <3> QED
      BY <1>1, <1>8, <2>7, <3>1, <3>2
  <2> QED
    BY <2>7, <2>11, <2>14, <2>15, <2>16
<1> QED
  BY <1>1, <1>3, <1>9, <1>10, <1>11, TurnGoesOn

\* A result in place of the synthetic one says the same to a service.
LEMMA ResultInPlace ==
  ASSUME NEW v \in Seq(Messages), NEW q \in Seq(Ids), q # <<>>, NEW a \in Attempts,
         NEW y, y = ToolResultMessage(Head(q), a), Tidy(v \o ResultsOf(q))
  PROVE  Tidy(Append(v, y) \o ResultsOf(Tail(q)))
<1>14. PICK n \in Nat, l \in Nat : Len(q) = n /\ Len(v) = l
  OBVIOUS
<1>15. PICK id, t : Head(q) = id /\ Tail(q) = t
  OBVIOUS
<1>1. /\ Len(q) = n /\ n > 0 /\ Len(v) = l /\ Head(q) = id /\ Tail(q) = t
      /\ id \in Ids /\ id = q[1]
      /\ t \in Seq(Ids) /\ Len(t) = n - 1 /\ \A i \in 1..(n - 1) : t[i] = q[i + 1]
  <2>1. /\ Len(q) > 0 /\ Head(q) \in Ids /\ Head(q) = q[1]
        /\ Tail(q) \in Seq(Ids) /\ Len(Tail(q)) = Len(q) - 1
        /\ \A i \in 1..(Len(q) - 1) : Tail(q)[i] = q[i + 1]
    OBVIOUS
  <2> QED
    BY <1>14, <1>15, <2>1
<1>2. y \in Messages /\ y.role = "tool" /\ y.calls = <<>> /\ y.callID = id
  BY <1>1, ResultIs
<1>3. PICK b, c : ResultsOf(q) = b /\ ResultsOf(t) = c
  OBVIOUS
<1>4. /\ b \in Seq(Messages) /\ Len(b) = n
      /\ \A k \in 1..n : b[k].role = "tool" /\ b[k].callID = q[k] /\ b[k].calls = <<>>
  BY <1>1, <1>3, ResultsOfCalls
<1>5. /\ c \in Seq(Messages) /\ Len(c) = n - 1
      /\ \A k \in 1..(n - 1) : c[k].role = "tool" /\ c[k].callID = t[k] /\ c[k].calls = <<>>
  BY <1>1, <1>3, ResultsOfCalls, ZenonT(40)
<1>6. PICK w : Append(v, y) = w
  OBVIOUS
<1>7. /\ w \in Seq(Messages) /\ Len(w) = l + 1 /\ w[l + 1] = y /\ \A i \in 1..l : w[i] = v[i]
  <2>1. /\ Append(v, y) \in Seq(Messages) /\ Len(Append(v, y)) = Len(v) + 1
        /\ Append(v, y)[Len(v) + 1] = y /\ \A i \in 1..Len(v) : Append(v, y)[i] = v[i]
    BY <1>2
  <2> QED
    BY <1>1, <1>6, <2>1
<1>8. PICK old, new : v \o b = old /\ w \o c = new
  OBVIOUS
<1>9. /\ old \in Seq(Messages) /\ Len(old) = l + n
      /\ \A i \in 1..l : old[i] = v[i]
      /\ \A k \in 1..n : old[l + k] = b[k]
  <2>1. /\ v \o b \in Seq(Messages) /\ Len(v \o b) = Len(v) + Len(b)
        /\ \A i \in 1..Len(v) : (v \o b)[i] = v[i]
        /\ \A k \in 1..Len(b) : (v \o b)[Len(v) + k] = b[k]
    <3>1. v \in Seq(Messages) /\ b \in Seq(Messages)
      BY <1>4
    <3> QED
      BY ONLY <3>1, Joined
  <2> QED
    BY <1>1, <1>4, <1>8, <2>1
<1>10. /\ Len(new) = l + n
       /\ \A i \in 1..(l + 1) : new[i] = w[i]
       /\ \A k \in 1..(n - 1) : new[l + 1 + k] = c[k]
  <2>1. /\ Len(w \o c) = Len(w) + Len(c)
        /\ \A i \in 1..Len(w) : (w \o c)[i] = w[i]
        /\ \A k \in 1..Len(c) : (w \o c)[Len(w) + k] = c[k]
    <3>1. w \in Seq(Messages) /\ c \in Seq(Messages)
      BY <1>5, <1>7
    <3> QED
      BY ONLY <3>1, Joined
  <2>2. Len(w) = l + 1 /\ Len(c) = n - 1
    BY <1>5, <1>7
  <2>3. Len(new) = l + n
    BY <1>1, <1>8, <2>1, <2>2
  <2> QED
    BY <1>8, <2>1, <2>2, <2>3
<1>11. ASSUME NEW i \in 1..Len(old) PROVE Alike(new[i], old[i])
  <2>1. CASE i <= l
    BY <1>1, <1>7, <1>9, <1>10, <2>1 DEF Alike
  <2>2. CASE i = l + 1
    <3>1. 1 \in 1..n /\ old[l + 1] = b[1] /\ new[l + 1] = y
      BY <1>1, <1>7, <1>9, <1>10
    <3>2. b[1].role = "tool" /\ b[1].callID = q[1] /\ b[1].calls = <<>>
      BY <1>4, <3>1
    <3> QED
      BY <1>1, <1>2, <2>2, <3>1, <3>2 DEF Alike
  <2>3. CASE i > l + 1
    <3>1. PICK k \in Int : i - (l + 1) = k
      BY <1>1
    <3>2. k \in 1..(n - 1) /\ i = l + 1 + k /\ k + 1 \in 1..n /\ i = l + (k + 1)
      <4>1. l \in Nat /\ n \in Nat /\ i \in 1..(l + n)
        BY <1>9
      <4> QED
        BY ONLY <2>3, <3>1, <4>1, k \in Int
    <3>3. new[i] = c[k] /\ old[i] = b[k + 1]
      BY <1>9, <1>10, <3>2
    <3>4. /\ c[k].role = "tool" /\ c[k].callID = t[k] /\ c[k].calls = <<>> /\ t[k] = q[k + 1]
          /\ b[k + 1].role = "tool" /\ b[k + 1].callID = q[k + 1] /\ b[k + 1].calls = <<>>
      BY <1>1, <1>4, <1>5, <3>2
    <3> QED
      BY <3>3, <3>4 DEF Alike
  <2> QED
    BY <1>1, <1>9, <2>1, <2>2, <2>3
<1>12. Tidy(old)
  BY <1>3, <1>8
<1>13. Tidy(new)
  BY <1>9, <1>10, <1>11, <1>12, TidyAlike
<1> QED
  BY <1>1, <1>3, <1>6, <1>8, <1>13

\* A tool's result takes the place of the synthetic one in the request (RunTool).
LEMMA RunToolInOrder ==
  ASSUME CInv, CInv', TInv, NEW m \in Incoming, RunTool(m)
  PROVE  TInv'
<1>1. PICK l, v, q, a : /\ log[SessionOf[m]] = l /\ view[m] = v /\ todo[m] = q
                        /\ Attempt(m) = a
  OBVIOUS
<1>2. /\ l \in Seq(Messages) /\ v \in Seq(Messages) /\ q \in Seq(Ids) /\ a \in Attempts
      /\ SessionOf[m] \in Sessions
  BY <1>1 DEF Sessions, CInv, Types, Attempt, Attempts
<1>3. /\ pc[m] = "tool" /\ pc[m] \in Working
      /\ UNCHANGED <<log, tries, phase, injected, fresh, rounds, offset, ends, disturbed>>
  BY DEF RunTool, Working
<1>4. q # <<>> /\ fresh[m] <= Len(v) /\ fresh[m] \in Nat
  BY <1>1, <1>3 DEF CInv, Types, Handler, NoOpenCalls, ToRecord
<1>5. PICK y, w, t : /\ ToolResultMessage(Head(q), a) = y /\ Append(v, y) = w
                     /\ Tail(q) = t
  OBVIOUS
<1>6. y \in Messages
  <2>1. Head(q) \in Ids
    BY <1>2, <1>4
  <2> QED
    BY <1>2, <1>5, <2>1, ResultIs
<1>7. /\ w \in Seq(Messages) /\ Len(v) \in Nat /\ Len(w) = Len(v) + 1
      /\ \A i \in 1..Len(v) : w[i] = v[i]
  <2>1. /\ Append(v, y) \in Seq(Messages) /\ Len(v) \in Nat
        /\ Len(Append(v, y)) = Len(v) + 1
        /\ \A i \in 1..Len(v) : Append(v, y)[i] = v[i]
    BY <1>2, <1>6
  <2> QED
    BY <1>5, <2>1
<1>8. t \in Seq(Ids) /\ (Len(q) = 1 => t = <<>>)
  <2>1. Tail(q) \in Seq(Ids) /\ Len(Tail(q)) = Len(q) - 1 /\ Len(q) \in Nat
    BY <1>2, <1>4
  <2>2. Len(q) = 1 => Len(Tail(q)) = 0
    BY <2>1
  <2>3. t \in Seq(Ids) /\ (Len(t) = 0 => t = <<>>)
    <3>1. t \in Seq(Ids)
      BY <1>5, <2>1
    <3> QED
      BY ONLY <3>1
  <2> QED
    BY <1>5, <2>1, <2>2, <2>3
<1>9. /\ view' = [view EXCEPT ![m] = w] /\ todo' = [todo EXCEPT ![m] = t]
      /\ pc' = [pc EXCEPT ![m] = IF Len(q) = 1 THEN "ask" ELSE "tool"]
  BY <1>1, <1>5 DEF RunTool
<1>10. /\ view'[m] = w /\ todo'[m] = t /\ pc'[m] = IF Len(q) = 1 THEN "ask" ELSE "tool"
       /\ fresh'[m] = fresh[m] /\ offset'[m] = offset[m] /\ Attempt(m)' = a
       /\ log'[SessionOf[m]] = l
  BY <1>1, <1>3, <1>9 DEF CInv, Types, Attempt
<1>11. /\ offset' \in [Incoming -> Nat]
       /\ \A o \in Incoming : o # m => Unmoved(o)
  <2>1. offset' \in [Incoming -> Nat]
    BY <1>3 DEF TInv
  <2>2. ASSUME NEW o \in Incoming, o # m
        PROVE  pc'[o] = pc[o] /\ view'[o] = view[o] /\ todo'[o] = todo[o]
    BY <1>9, <2>2 DEF CInv, Types
  <2> QED
    BY <1>3, <2>1, <2>2 DEF Unmoved
<1>12. ASSUME SessionOf[m] \notin disturbed PROVE TurnInOrder(m)'
  <2>1. TurnInOrder(m)
    BY <1>12 DEF TInv, TurnsInOrder
  <2>2. /\ fresh[m] = Len(l) /\ Begins(v, fresh[m], l) /\ Tidy(v \o ResultsOf(q))
        /\ StartsAt(v, offset[m], a) /\ offset[m] \in Nat
    BY <1>1, <1>3, <2>1 DEF TurnInOrder, TInv
  <2>3. Begins(w, fresh[m], l)
    BY <1>4, <1>7, <2>2 DEF Begins
  <2>4. Tidy(w \o ResultsOf(t))
    BY <1>2, <1>4, <1>5, <2>2, ResultInPlace
  <2>5. StartsAt(w, offset[m], a)
    BY <1>2, <1>5, <1>6, <2>2, StartsGrows
  <2>6. Len(q) = 1 => Tidy(w)
    <3>1. ResultsOf(<<>>) = <<>> /\ w \o <<>> = w
      BY <1>7 DEF ResultsOf
    <3> QED
      BY <1>8, <2>4, <3>1
  <2> QED
    BY <1>10, <2>2, <2>3, <2>4, <2>5, <2>6 DEF TurnInOrder, Ended
<1> QED
  BY <1>3, <1>11, <1>12, QuietTurn

\* A turn that fails or is settled is not asked for more.
LEMMA ReturnInOrder ==
  ASSUME CInv, CInv', TInv, NEW m \in Incoming, AskFails(m) \/ Settle(m)
  PROVE  TInv'
<1>1. /\ UNCHANGED <<log, tries, phase, injected, view, fresh, todo, rounds, offset,
                     ends, disturbed>>
      /\ \/ pc[m] \in Working /\ pc' = [pc EXCEPT ![m] = "error"]
         \/ pc[m] = "nil" /\ pc' = [pc EXCEPT ![m] = "succeeded"]
         \/ pc[m] = "error" /\ pc' = [pc EXCEPT ![m] = "failed"]
  <2>1. CASE AskFails(m)
    BY <2>1 DEF AskFails, Working
  <2>2. CASE Settle(m)
    <3>1. DOMAIN Settled = {"nil", "error"}
      BY DEF Settled
    <3>2. Settled["nil"] = "succeeded" /\ Settled["error"] = "failed"
      BY DEF Settled
    <3> QED
      BY <2>2, <3>1, <3>2 DEF Settle
  <2> QED
    BY <2>1, <2>2
<1>2. \/ pc[m] \in Working /\ pc'[m] = "error"
      \/ pc[m] = "nil" /\ pc'[m] = "succeeded"
      \/ pc[m] = "error" /\ pc'[m] = "failed"
  BY <1>1 DEF CInv, Types
<1>3. offset' \in [Incoming -> Nat] /\ \A o \in Incoming : o # m => Unmoved(o)
  <2>1. \A o \in Incoming : o # m => pc'[o] = pc[o]
    BY <1>1 DEF CInv, Types
  <2> QED
    BY <1>1, <2>1 DEF TInv, Unmoved
<1>4. ASSUME SessionOf[m] \notin disturbed PROVE TurnInOrder(m)'
  <2>1. TurnInOrder(m)
    BY <1>4 DEF TInv, TurnsInOrder
  <2>2. Attempt(m)' = Attempt(m)
    BY <1>1 DEF Attempt
  <2>3. CASE pc'[m] \in {"error", "failed"}
    BY <2>3 DEF TurnInOrder, Ended
  <2>4. CASE pc[m] = "nil" /\ pc'[m] = "succeeded"
    BY <1>1, <2>1, <2>2, <2>4 DEF TurnInOrder, Ended
  <2> QED
    BY <1>2, <2>3, <2>4
<1>5. pc[m] \in Working \/ (pc[m] \in {"nil", "error"} /\ pc'[m] \in Resting)
  BY <1>2 DEF Resting
<1> QED
  BY <1>1, <1>3, <1>4, <1>5, QuietTurn

\* The record of a turn that ended says where its messages are (EndTurn).
LEMMA EndTurnInOrder ==
  ASSUME CInv, CInv', TInv, NEW m \in Incoming, EndTurn(m)
  PROVE  TInv'
<1>1. PICK s, l, v, a : /\ SessionOf[m] = s /\ log[s] = l /\ view[m] = v /\ Attempt(m) = a
  OBVIOUS
<1>2. /\ s \in Sessions /\ l \in Seq(Messages) /\ v \in Seq(Messages) /\ a \in Attempts
      /\ a[1] = m /\ a[2] = tries[m] /\ tries[m] \in Nat /\ offset[m] \in Nat
  BY <1>1 DEF Sessions, CInv, Types, Attempt, Attempts, TInv
<1>3. /\ pc[m] = "end" /\ pc' = [pc EXCEPT ![m] = "nil"]
      /\ UNCHANGED <<log, tries, phase, injected, view, fresh, todo, rounds, offset>>
      /\ disturbed \subseteq disturbed'
  BY DEF EndTurn, StoreWorks, StoreFails
<1>4. pc'[m] = "nil" /\ \A o \in Incoming : o # m => pc'[o] = pc[o]
  BY <1>3 DEF CInv, Types
<1>5. offset' \in [Incoming -> Nat] /\ \A o \in Incoming : o # m => Unmoved(o)
  BY <1>3, <1>4 DEF TInv, Unmoved
<1>6. Appends(m)
  BY <1>3 DEF Appends
<1>7. \A o \in Incoming : pc[o] \in Resting => pc'[o] \in Resting
  BY <1>3, <1>4 DEF Resting
<1>8. OneTurnAtATime'
  BY <1>3, <1>7, OneTurnStays
<1>9. NoReturn
  <2>1. ASSUME NEW o \in Incoming, pc[o] \notin Working \union {"end"}
        PROVE  pc'[o] \notin Working \union {"end"}
    BY <1>4, <2>1 DEF Working, Before
  <2>2. tries \in [Incoming -> Nat]
    BY DEF CInv, Types
  <2> QED
    BY <1>3, <2>1, <2>2 DEF NoReturn
<1>10. s \notin disturbed => TurnInOrder(m) /\ InOrder(l)
  BY <1>1, <1>2 DEF TInv, TurnsInOrder, TranscriptsInOrder
<1>11. s \notin disturbed => /\ StartsAt(v, offset[m], a) /\ Begins(v, Len(v), l)
                             /\ rounds[m] > 0
  BY <1>1, <1>3, <1>10 DEF TurnInOrder, Ended
<1>12. s \notin disturbed' => InOrder(log'[SessionOf[m]]) /\ TurnInOrder(m)'
  <2>1. SUFFICES ASSUME s \notin disturbed PROVE InOrder(log'[SessionOf[m]]) /\ TurnInOrder(m)'
    BY <1>3
  <2>2. log'[SessionOf[m]] = l /\ view'[m] = v /\ offset'[m] = offset[m] /\ Attempt(m)' = a
    BY <1>1, <1>3 DEF Attempt
  <2>3. TurnInOrder(m)'
    BY <1>4, <1>11, <2>1, <2>2 DEF TurnInOrder, Ended
  <2> QED
    BY <1>10, <2>1, <2>2, <2>3
<1>13. CASE ends' = ends
  <2>1. EndsInOrder'
    BY <1>6, <1>9, <1>13, EndsStay
  <2> QED
    BY <1>1, <1>5, <1>6, <1>8, <1>9, <1>12, <2>1, TurnStep
<1>14. CASE ends' = Append(ends, [attempt |-> Attempt(m), session |-> SessionOf[m],
                                  offset |-> offset[m], state |-> "pending",
                                  facts |-> <<>>])
            /\ StoreWorks
  <2>1. PICK t : t = [attempt |-> a, session |-> s, offset |-> offset[m],
                      state |-> "pending", facts |-> <<>>]
    OBVIOUS
  <2>2. /\ t \in EndRecords /\ t.attempt = a /\ t.session = s /\ t.offset = offset[m]
        /\ DOMAIN t.facts = {}
    <3>1. <<>> \in Seq(Seq(Messages)) /\ DOMAIN <<>> = {}
      OBVIOUS
    <3> QED
      BY <1>2, <2>1, <3>1 DEF EndRecords
  <2>3. Over(t)'
    BY <1>1, <1>2, <1>3, <1>4, <2>2 DEF Over, Working, Before
  <2>4. ASSUME s \notin disturbed' PROVE StartOf(t, l) /\ FactsOf(t, l)
    <3>1. StartsAt(v, offset[m], a) /\ Begins(v, Len(v), l)
      BY <1>3, <1>11, <2>4
    <3>2. Len(v) \in Nat /\ Len(l) \in Nat /\ DOMAIN l = 1..Len(l)
      BY <1>2
    <3>3. /\ offset[m] < Len(v) /\ v[offset[m] + 1] = UserMessage(a)
          /\ Len(v) <= Len(l) /\ \A i \in 1..Len(v) : l[i] = v[i]
      BY <3>1 DEF StartsAt, Begins
    <3>4. offset[m] + 1 \in 1..Len(v) /\ offset[m] < Len(l)
      BY <1>2, <3>2, <3>3
    <3>5. ASSUME NEW i \in 1..Len(l), l[i].by = a PROVE i > offset[m]
      <4>1. CASE i \in 1..Len(v)
        BY <3>1, <3>3, <3>5, <4>1 DEF StartsAt
      <4>2. CASE i \notin 1..Len(v)
        BY <1>2, <3>2, <3>3, <4>2
      <4> QED
        BY <4>1, <4>2
    <3> QED
      BY <2>2, <3>2, <3>3, <3>4, <3>5 DEF StartOf, FactsOf
  <2>5. EndInOrder(t)'
    <3>1. log'[s] = l
      BY <1>1, <1>3
    <3> QED
      BY <2>2, <2>3, <2>4, <3>1 DEF EndInOrder
  <2>6. ends \in Seq(EndRecords) /\ \A e \in DOMAIN ends : EndInOrder(ends[e])
    BY DEF TInv, EndsInOrder
  <2>7. ends' = Append(ends, t)
    BY <1>1, <1>14, <2>1
  <2>8. /\ ends' \in Seq(EndRecords) /\ Len(ends) \in Nat /\ DOMAIN ends' = 1..(Len(ends) + 1)
        /\ ends'[Len(ends) + 1] = t /\ DOMAIN ends = 1..Len(ends)
        /\ \A e \in 1..Len(ends) : ends'[e] = ends[e]
    BY <2>2, <2>6, <2>7
  <2>9. ASSUME NEW e \in DOMAIN ends PROVE EndInOrder(ends[e])'
    <3>1. PICK u : u = ends[e] /\ u \in EndRecords /\ EndInOrder(u)
      BY <2>6
    <3>2. EndInOrder(u)'
      BY <1>6, <1>9, <3>1, EndStays
    <3>3. ends'[e] = u
      BY <2>8, <3>1
    <3> QED
      BY <3>2, <3>3
  <2>10. EndsInOrder'
    <3>1. ASSUME NEW e \in DOMAIN ends' PROVE EndInOrder(ends[e])'
      <4>1. e \in 1..Len(ends) \/ e = Len(ends) + 1
        BY <2>8
      <4> QED
        BY <2>5, <2>8, <2>9, <4>1
    <3> QED
      BY <2>8, <3>1 DEF EndsInOrder
  <2> QED
    BY <1>1, <1>5, <1>6, <1>8, <1>9, <1>12, <2>10, TurnStep
<1> QED
  BY <1>13, <1>14 DEF EndTurn

\* A step of the memory module or of the process: no handler goes on, and what the
\* records of ends say stays true.
LEMMA RestInOrder ==
  ASSUME CInv, TInv, disturbed \subseteq disturbed',
         UNCHANGED <<log, tries, phase, injected, view, fresh, todo, rounds, offset>>,
         \A o \in Incoming : pc'[o] = pc[o] \/ pc'[o] = "waiting",
         ends' \in Seq(EndRecords), \A e \in DOMAIN ends' : EndInOrder(ends[e])'
  PROVE  TInv'
<1>1. OneTurnAtATime'
  <2>1. \A o \in Incoming : pc[o] \in Resting => pc'[o] \in Resting
    BY DEF Resting
  <2> QED
    BY <2>1, OneTurnStays
<1>2. TranscriptsInOrder'
  BY DEF TInv, TranscriptsInOrder
<1>3. ASSUME NEW o \in Incoming, SessionOf[o] \notin disturbed' PROVE TurnInOrder(o)'
  <2>1. TurnInOrder(o)
    BY <1>3 DEF TInv, TurnsInOrder
  <2>2. Attempt(o)' = Attempt(o)
    BY DEF Attempt
  <2>3. CASE pc'[o] = pc[o]
    BY <2>1, <2>2, <2>3 DEF TurnInOrder, Ended
  <2>4. CASE pc'[o] = "waiting"
    BY <2>4 DEF TurnInOrder, Ended
  <2> QED
    BY <2>3, <2>4
<1>4. offset' \in [Incoming -> Nat] /\ EndsInOrder'
  BY DEF TInv, EndsInOrder
<1> QED
  BY <1>1, <1>2, <1>3, <1>4 DEF TInv, TurnsInOrder

\* A record of which the facts or the state of its reaction changed.
LEMMA RecordInOrder ==
  ASSUME CInv, NEW t \in EndRecords, EndInOrder(t), NEW u,
         u.attempt = t.attempt, u.session = t.session, u.offset = t.offset,
         UNCHANGED <<log, tries>>, disturbed \subseteq disturbed',
         \A o \in Incoming : pc'[o] = pc[o] \/ pc'[o] = "waiting",
         t.session \notin disturbed' /\ StartOf(t, log[t.session]) =>
           FactsOf(u, log[t.session])
  PROVE  EndInOrder(u)'
<1>1. t.attempt[1] \in Incoming
  BY DEF EndRecords, Attempts
<1>2. Over(u)'
  BY <1>1 DEF EndInOrder, Over, Working, Before
<1>3. ASSUME t.session \notin disturbed' PROVE StartOf(u, log[t.session]) /\ FactsOf(u, log[t.session])
  BY <1>3 DEF EndInOrder, StartOf
<1> QED
  BY <1>2, <1>3 DEF EndInOrder

\* The slice that facts are extracted from has what a turn put on record.
LEMMA TurnOfIsWhole ==
  ASSUME NEW l \in Seq(Messages), NEW t \in EndRecords, StartOf(t, l)
  PROVE  \A x \in ToSet(l) : x.by = t.attempt => x \in ToSet(TurnOf(l, t.offset))
<1>1. SUFFICES ASSUME NEW x \in ToSet(l), x.by = t.attempt, t.offset > 0
               PROVE  x \in ToSet(TurnOf(l, t.offset))
  <2>1. t.offset \in Nat /\ (~(t.offset > 0) => TurnOf(l, t.offset) = l)
    BY DEF EndRecords, TurnOf
  <2> QED
    BY <2>1
<1>2. PICK f \in Nat, n \in Nat : t.offset = f /\ Len(l) = n
  BY DEF EndRecords
<1>3. f > 0 /\ f < n /\ \A i \in 1..n : l[i].by = t.attempt => i > f
  <2>1. DOMAIN l = 1..n
    BY <1>2
  <2> QED
    BY <1>1, <1>2, <2>1 DEF StartOf
<1>4. PICK s : SubSeq(l, f + 1, n) = s
  OBVIOUS
<1>5. s \in Seq(Messages) /\ Len(s) = n - f /\ \A i \in 1..(n - f) : s[i] = l[f + i]
  <2>1. f <= Len(l)
    BY <1>2, <1>3
  <2>2. /\ SubSeq(l, f + 1, Len(l)) \in Seq(Messages)
        /\ Len(SubSeq(l, f + 1, Len(l))) = Len(l) - f
        /\ \A i \in 1..(Len(l) - f) : SubSeq(l, f + 1, Len(l))[i] = l[f + i]
    BY <2>1, Suffix
  <2> QED
    BY <1>2, <1>4, <2>2
<1>6. TurnOf(l, f) = s
  BY <1>2, <1>3, <1>4 DEF TurnOf
<1>7. PICK i \in 1..n : l[i] = x
  <2>1. DOMAIN l = 1..n
    BY <1>2
  <2> QED
    BY <2>1 DEF ToSet
<1>8. i > f
  BY <1>1, <1>3, <1>7
<1>9. PICK k \in Int : i - f = k
  OBVIOUS
<1>10. k \in 1..(n - f) /\ f + k = i
  BY <1>8, <1>9
<1>11. k \in DOMAIN s /\ s[k] = x
  BY <1>5, <1>7, <1>10, SMTT(30)
<1> QED
  BY <1>2, <1>6, <1>11 DEF ToSet

\* The facts of a turn are extracted from a slice that has all of it (Ingest).
LEMMA IngestInOrder ==
  ASSUME CInv, TInv, NEW e \in DOMAIN ends, Ingest(e)
  PROVE  TInv'
<1>1. PICK t, l : /\ ends[e] = t /\ log[t.session] = l
  OBVIOUS
<1>2. /\ ends \in Seq(EndRecords) /\ t \in EndRecords /\ EndInOrder(t)
      /\ l \in Seq(Messages) /\ \A d \in DOMAIN ends : EndInOrder(ends[d])
  <2>1. /\ ends \in Seq(EndRecords) /\ \A d \in DOMAIN ends : EndInOrder(ends[d])
        /\ log \in [Sessions -> Seq(Messages)]
    BY DEF TInv, EndsInOrder, CInv, Types
  <2>2. t \in EndRecords /\ EndInOrder(t)
    BY <1>1, <2>1
  <2>3. t.session \in Sessions
    BY <2>2 DEF EndRecords
  <2> QED
    BY <1>1, <2>1, <2>2, <2>3
<1>3. /\ UNCHANGED <<log, tries, handlerVars>> /\ disturbed \subseteq disturbed'
  BY DEF Ingest, StoreWorks, StoreFails
<1>4. UNCHANGED <<pc, phase, injected, view, fresh, todo, rounds, offset>>
  BY <1>3 DEF handlerVars
<1>5. PICK turn : TurnOf(l, t.offset) = turn
  OBVIOUS
<1>6. turn \in Seq(Messages)
  <2>1. PICK f \in Nat, n \in Nat : t.offset = f /\ Len(l) = n
    BY <1>2 DEF EndRecords
  <2>2. f < n => SubSeq(l, f + 1, Len(l)) \in Seq(Messages)
    <3>1. f < n => f <= Len(l)
      BY <2>1
    <3> QED
      BY <1>2, <3>1, Suffix
  <2> QED
    BY <1>2, <1>5, <2>1, <2>2 DEF TurnOf
<1>13. PICK fs \in Seq(Seq(Messages)) :
         /\ ends' = [ends EXCEPT ![e] =
                       [attempt |-> t.attempt, session |-> t.session,
                        offset |-> t.offset, state |-> "nil", facts |-> t.facts \o fs]]
         /\ t.session \notin disturbed' => \A i \in DOMAIN fs : fs[i] = turn
  <2>1. t = [attempt |-> t.attempt, session |-> t.session, offset |-> t.offset,
             state |-> t.state, facts |-> t.facts] /\ t.facts \in Seq(Seq(Messages))
    BY <1>2 DEF EndRecords
  <2>2. CASE StoreFails(t.session) /\ ends' = [ends EXCEPT ![e].state = "nil"]
    <3>1. t.session \in disturbed'
      BY <2>2 DEF StoreFails
    <3>2. <<>> \in Seq(Seq(Messages))
      OBVIOUS
    <3>3. t.facts \o <<>> = t.facts
      BY <2>1
    <3>4. ends' = [ends EXCEPT ![e] = [t EXCEPT !.state = "nil"]]
      BY <1>1, <2>2
    <3>5. [t EXCEPT !.state = "nil"] =
             [attempt |-> t.attempt, session |-> t.session, offset |-> t.offset,
              state |-> "nil", facts |-> t.facts]
      BY <2>1
    <3> QED
      BY <3>1, <3>2, <3>3, <3>4, <3>5
  <2>3. ASSUME NEW n \in Nat,
               ends' = [ends EXCEPT ![e].state = "nil",
                                    ![e].facts = @ \o [i \in 1..n |-> turn]]
        PROVE  \E fs \in Seq(Seq(Messages)) :
                 /\ ends' = [ends EXCEPT ![e] =
                               [attempt |-> t.attempt, session |-> t.session,
                                offset |-> t.offset, state |-> "nil",
                                facts |-> t.facts \o fs]]
                 /\ \A i \in DOMAIN fs : fs[i] = turn
    <3>1. PICK fs : fs = [i \in 1..n |-> turn]
      OBVIOUS
    <3>2. fs \in Seq(Seq(Messages)) /\ \A i \in DOMAIN fs : fs[i] = turn
      BY <1>6, <3>1
    <3>3. ends' = [ends EXCEPT ![e] = [t EXCEPT !.state = "nil", !.facts = @ \o fs]]
      BY <1>1, <2>3, <3>1
    <3>4. [t EXCEPT !.state = "nil", !.facts = @ \o fs] =
             [attempt |-> t.attempt, session |-> t.session, offset |-> t.offset,
              state |-> "nil", facts |-> t.facts \o fs]
      <4>1. PICK v : v = [t EXCEPT !.state = "nil"]
        OBVIOUS
      <4>2. v = [attempt |-> t.attempt, session |-> t.session, offset |-> t.offset,
                 state |-> "nil", facts |-> t.facts]
        BY <2>1, <4>1
      <4>3. [t EXCEPT !.state = "nil", !.facts = @ \o fs] = [v EXCEPT !.facts = @ \o fs]
        BY <4>1
      <4>4. v.facts = t.facts
        BY <4>2
      <4>5. PICK g : t.facts \o fs = g
        OBVIOUS
      <4>6. [v EXCEPT !.facts = @ \o fs] = [v EXCEPT !.facts = g]
        BY <4>4, <4>5
      <4>7. [v EXCEPT !.facts = g] =
              [attempt |-> t.attempt, session |-> t.session, offset |-> t.offset,
               state |-> "nil", facts |-> g]
        BY <4>2
      <4> QED
        BY <4>3, <4>5, <4>6, <4>7
    <3> QED
      BY <3>2, <3>3, <3>4
  <2>4. \/ StoreFails(t.session) /\ ends' = [ends EXCEPT ![e].state = "nil"]
        \/ \E n \in Nat : ends' = [ends EXCEPT ![e].state = "nil",
                                               ![e].facts = @ \o [i \in 1..n |-> turn]]
    <3> DEFINE Stores(of) ==
          \E x \in Extractions(0..MaxFacts) :
            LET stored == IF of = <<>> \/ x = Nothing THEN 0 ELSE x[1] IN
            ends' = [ends EXCEPT ![e].state = "nil",
                                 ![e].facts = @ \o [i \in 1..stored |-> of]]
    <3>0. PICK of : of = TurnOf(Transcript(ends[e].session), ends[e].offset)
      OBVIOUS
    <3>1. CASE Stores(of)
      <4>0. of = turn
        BY <1>1, <1>5, <3>0 DEF Transcript
      <4>5. Stores(turn)
        <5> HIDE DEF Stores
        <5> QED
          BY <3>1, <4>0
      <4>1. PICK x \in Extractions(0..MaxFacts) :
               LET stored == IF turn = <<>> \/ x = Nothing THEN 0 ELSE x[1] IN
               ends' = [ends EXCEPT ![e].state = "nil",
                                    ![e].facts = @ \o [i \in 1..stored |-> turn]]
        BY <4>5
      <4>2. PICK n : n = IF turn = <<>> \/ x = Nothing THEN 0 ELSE x[1]
        OBVIOUS
      <4>3. n \in Nat
        <5>1. x = Nothing \/ \E k \in 0..MaxFacts : x = <<k>>
          BY DEF Extractions
        <5>2. MaxFacts \in Nat
          BY ConversationAssumption
        <5> QED
          BY <4>2, <5>1, <5>2
      <4> QED
        BY <4>1, <4>2, <4>3
    <3>2. CASE StoreFails(t.session) /\ ends' = [ends EXCEPT ![e].state = "nil"]
      BY <3>2
    <3>3. \/ Stores(TurnOf(Transcript(ends[e].session), ends[e].offset))
          \/ StoreFails(ends[e].session) /\ ends' = [ends EXCEPT ![e].state = "nil"]
      BY <1>1 DEF Ingest
    <3>4. \/ Stores(of)
          \/ StoreFails(t.session) /\ ends' = [ends EXCEPT ![e].state = "nil"]
      <4> HIDE DEF Stores
      <4>1. Stores(TurnOf(Transcript(ends[e].session), ends[e].offset)) => Stores(of)
        BY <3>0
      <4>2. StoreFails(ends[e].session) => StoreFails(t.session)
        BY <1>1
      <4> QED
        BY <3>3, <4>1, <4>2
    <3> QED
      BY <3>1, <3>2, <3>4
  <2> QED
    BY <2>2, <2>3, <2>4
<1>14. PICK u : u = [attempt |-> t.attempt, session |-> t.session, offset |-> t.offset,
                     state |-> "nil", facts |-> t.facts \o fs]
  OBVIOUS
<1>7. /\ u = [attempt |-> t.attempt, session |-> t.session, offset |-> t.offset,
              state |-> "nil", facts |-> t.facts \o fs]
      /\ ends' = [ends EXCEPT ![e] = u]
      /\ t.session \notin disturbed' => \A i \in DOMAIN fs : fs[i] = turn
  <2>1. ends' = [ends EXCEPT ![e] = u]
    BY <1>13, <1>14
  <2>2. t.session \notin disturbed' => \A i \in DOMAIN fs : fs[i] = turn
    BY <1>13
  <2> QED
    BY <1>14, <2>1, <2>2
<1>8. /\ u \in EndRecords /\ u.attempt = t.attempt /\ u.session = t.session
      /\ u.offset = t.offset /\ u.facts = t.facts \o fs
  <2>1. /\ t.attempt \in Attempts /\ t.session \in Sessions /\ t.offset \in Nat
        /\ t.facts \in Seq(Seq(Messages))
    BY <1>2 DEF EndRecords
  <2>2. t.facts \o fs \in Seq(Seq(Messages))
    BY <2>1
  <2> QED
    BY <1>7, <2>1, <2>2 DEF EndRecords
<1>9. ASSUME t.session \notin disturbed', StartOf(t, l) PROVE FactsOf(u, l)
  <2>1. FactsOf(t, l)
    BY <1>1, <1>2, <1>3, <1>9 DEF EndInOrder
  <2>2. \A x \in ToSet(l) : x.by = t.attempt => x \in ToSet(turn)
    BY <1>2, <1>5, <1>9, TurnOfIsWhole
  <2>3. PICK old, new : t.facts = old /\ old \o fs = new
    OBVIOUS
  <2>4. old \in Seq(Seq(Messages)) /\ fs \in Seq(Seq(Messages))
    BY <1>2, <2>3 DEF EndRecords
  <2>5. /\ old \o fs \in Seq(Seq(Messages)) /\ Len(old) \in Nat /\ Len(fs) \in Nat
        /\ Len(old \o fs) = Len(old) + Len(fs)
        /\ \A i \in 1..Len(old) : (old \o fs)[i] = old[i]
        /\ \A i \in 1..Len(fs) : (old \o fs)[Len(old) + i] = fs[i]
    BY ONLY <2>4, Joined
  <2>6. ASSUME NEW i \in DOMAIN new PROVE new[i] = turn \/ \E j \in DOMAIN old : new[i] = old[j]
    <3>1. /\ i \in 1..(Len(old) + Len(fs)) /\ DOMAIN old = 1..Len(old)
          /\ DOMAIN fs = 1..Len(fs)
      BY <2>3, <2>4, <2>5
    <3>2. CASE i \in 1..Len(old)
      BY <2>3, <2>5, <3>1, <3>2
    <3>3. CASE i \notin 1..Len(old)
      <4>1. PICK k \in Int : i - Len(old) = k
        BY <2>5, <3>1
      <4>2. k \in 1..Len(fs) /\ Len(old) + k = i
        <5>1. PICK p \in Nat, q \in Nat : Len(old) = p /\ Len(fs) = q
          BY <2>5
        <5>2. i \in 1..(p + q) /\ i \notin 1..p /\ i - p = k
          BY <3>1, <3>3, <4>1, <5>1
        <5>3. k \in 1..q /\ p + k = i
          BY ONLY <5>2, p \in Nat, q \in Nat, k \in Int
        <5> QED
          BY <5>1, <5>3
      <4>3. new[i] = fs[k] /\ fs[k] = turn
        BY <1>7, <1>9, <2>3, <2>5, <3>1, <4>2
      <4> QED
        BY <4>3
    <3> QED
      BY <3>2, <3>3
  <2> QED
    BY <1>8, <2>1, <2>2, <2>3, <2>6 DEF FactsOf
<1>10. EndInOrder(u)'
  BY <1>1, <1>2, <1>3, <1>4, <1>8, <1>9, RecordInOrder
<1>11. ASSUME NEW d \in DOMAIN ends' PROVE EndInOrder(ends[d])'
  <2>1. DOMAIN ends' = DOMAIN ends
    BY <1>7
  <2>2. CASE d = e
    <3>1. ends'[d] = u
      BY <1>7, <2>2
    <3> QED
      BY <1>10, <3>1
  <2>3. CASE d # e
    <3>1. PICK v : ends[d] = v /\ v \in EndRecords /\ EndInOrder(v)
      BY <1>2, <2>1
    <3>2. EndInOrder(v)'
      <4>1. v.session \notin disturbed' => FactsOf(v, log[v.session])
        BY <1>3, <3>1 DEF EndInOrder
      <4> QED
        BY <1>3, <1>4, <3>1, <4>1, RecordInOrder
    <3>3. ends'[d] = v
      BY <1>7, <2>1, <2>3, <3>1
    <3> QED
      BY <3>2, <3>3
  <2> QED
    BY <2>2, <2>3
<1>12. ends' \in Seq(EndRecords)
  BY <1>2, <1>7, <1>8
<1> QED
  BY <1>3, <1>4, <1>11, <1>12, RestInOrder

\* Only the state of recorded ends changes, and handlers wait again (SettleEnd, Crash).
LEMMA StatesInOrder ==
  ASSUME CInv, TInv, disturbed' = disturbed,
         UNCHANGED <<log, tries, phase, injected, view, fresh, todo, rounds, offset>>,
         \A o \in Incoming : pc'[o] = pc[o] \/ pc'[o] = "waiting",
         ends' \in Seq(EndRecords), DOMAIN ends' = DOMAIN ends,
         \A e \in DOMAIN ends :
           /\ ends'[e].attempt = ends[e].attempt /\ ends'[e].session = ends[e].session
           /\ ends'[e].offset = ends[e].offset /\ ends'[e].facts = ends[e].facts
  PROVE  TInv'
<1>1. ASSUME NEW e \in DOMAIN ends' PROVE EndInOrder(ends[e])'
  <2>1. PICK t, u : ends[e] = t /\ ends'[e] = u
    OBVIOUS
  <2>2. t \in EndRecords /\ EndInOrder(t)
    BY <2>1 DEF TInv, EndsInOrder
  <2>3. /\ u.attempt = t.attempt /\ u.session = t.session /\ u.offset = t.offset
        /\ u.facts = t.facts
    BY <2>1
  <2>4. t.session \notin disturbed' => FactsOf(u, log[t.session])
    BY <2>2, <2>3 DEF EndInOrder, FactsOf
  <2>5. EndInOrder(u)'
    BY <2>2, <2>3, <2>4, RecordInOrder
  <2> QED
    BY <2>1, <2>5
<1> QED
  BY <1>1, RestInOrder

\* The reaction of a recorded end is settled (SettleEnd).
LEMMA SettleEndInOrder ==
  ASSUME CInv, TInv, NEW e \in DOMAIN ends, SettleEnd(e)
  PROVE  TInv'
<1>1. /\ ends' = [ends EXCEPT ![e].state = "succeeded"]
      /\ UNCHANGED <<log, tries, pc, phase, injected, view, fresh, todo, rounds, offset,
                     disturbed>>
  BY DEF SettleEnd, handlerVars
<1>2. ends \in Seq(EndRecords) /\ \A d \in DOMAIN ends : ends[d] \in EndRecords
  BY DEF TInv, EndsInOrder
<1>3. DOMAIN ends' = DOMAIN ends
  BY <1>1
<1>4. ASSUME NEW d \in DOMAIN ends
      PROVE  /\ ends'[d].attempt = ends[d].attempt /\ ends'[d].session = ends[d].session
             /\ ends'[d].offset = ends[d].offset /\ ends'[d].facts = ends[d].facts
             /\ ends'[d] \in EndRecords
  BY <1>1, <1>2 DEF EndRecords
<1>5. ends' \in Seq(EndRecords)
  BY <1>1, <1>2, <1>4, SMTT(30)
<1> QED
  BY <1>1, <1>3, <1>4, <1>5, StatesInOrder

\* A crash leaves what is recorded (Crash).
LEMMA CrashInOrder ==
  ASSUME CInv, TInv, Crash
  PROVE  TInv'
<1>1. /\ \A o \in Incoming : pc'[o] = pc[o] \/ pc'[o] = "waiting"
      /\ UNCHANGED <<log, tries, phase, injected, view, fresh, todo, rounds, offset,
                     disturbed>>
  BY DEF Crash
<1>2. ends' = [e \in DOMAIN ends |->
                 [ends[e] EXCEPT !.state = IF e \in Ingesting THEN "pending" ELSE @]]
  BY DEF Crash
<1>3. ends \in Seq(EndRecords) /\ \A d \in DOMAIN ends : ends[d] \in EndRecords
  BY DEF TInv, EndsInOrder
<1>4. DOMAIN ends' = DOMAIN ends
  BY <1>2
<1>5. ASSUME NEW d \in DOMAIN ends
      PROVE  /\ ends'[d].attempt = ends[d].attempt /\ ends'[d].session = ends[d].session
             /\ ends'[d].offset = ends[d].offset /\ ends'[d].facts = ends[d].facts
             /\ ends'[d] \in EndRecords
  BY <1>2, <1>3 DEF EndRecords
<1>6. ends' \in Seq(EndRecords)
  BY <1>2, <1>3, <1>5
<1> QED
  BY <1>1, <1>4, <1>5, <1>6, StatesInOrder

-----------------------------------------------------------------------------
(* The theorems.                                                              *)

\* Nothing is on record, and no turn has begun.
LEMMA InitTInv == Init => TInv
<1> SUFFICES ASSUME Init PROVE TInv
  OBVIOUS
<1>1. offset \in [Incoming -> Nat] /\ OneTurnAtATime /\ TurnsInOrder
  BY DEF Init, OneTurnAtATime, Active, Resting, TurnsInOrder, TurnInOrder, Ended
<1>2. ends \in Seq(EndRecords) /\ DOMAIN ends = {}
  BY DEF Init
<1>3. EndsInOrder
  BY <1>2 DEF EndsInOrder
<1>4. PICK l : l = <<>>
  OBVIOUS
<1>5. l \in Seq(Messages) /\ Len(l) = 0
  BY <1>4
<1>6. Tidy(l) /\ OpenAtEnd(l)
  BY <1>5 DEF Tidy, OpenAtEnd
<1>7. AllBut(l, {})
  BY <1>5 DEF AllBut
<1>8. InOrder(l)
  BY <1>5, <1>6, <1>7, NoRepair DEF InOrder
<1>9. TranscriptsInOrder
  BY <1>4, <1>8 DEF Init, TranscriptsInOrder
<1> QED
  BY <1>1, <1>3, <1>9 DEF TInv

\* Every step keeps TInv.
LEMMA NextTInv == CInv /\ CInv' /\ TInv /\ [Next]_vars => TInv'
<1> SUFFICES ASSUME CInv, CInv', TInv, [Next]_vars PROVE TInv'
  OBVIOUS
<1>1. ASSUME NEW m \in Incoming, Deliver(m) PROVE TInv'
  BY <1>1, DeliverInOrder
<1>2. ASSUME NEW m \in Incoming, Read(m) PROVE TInv'
  BY <1>2, ReadInOrder
<1>3. ASSUME NEW m \in Incoming, Repair(m) PROVE TInv'
  BY <1>3, RepairInOrder
<1>4. ASSUME NEW m \in Incoming, Perceive(m) PROVE TInv'
  BY <1>4, PerceiveInOrder
<1>5. ASSUME NEW m \in Incoming, Ask(m) PROVE TInv'
  BY <1>5, AskInOrder
<1>6. ASSUME NEW m \in Incoming, RunTool(m) PROVE TInv'
  BY <1>6, RunToolInOrder
<1>7. ASSUME NEW m \in Incoming, AskFails(m) \/ Settle(m) PROVE TInv'
  BY <1>7, ReturnInOrder
<1>8. ASSUME NEW m \in Incoming, EndTurn(m) PROVE TInv'
  BY <1>8, EndTurnInOrder
<1>9. ASSUME NEW e \in DOMAIN ends, Ingest(e) PROVE TInv'
  BY <1>9, IngestInOrder
<1>10. ASSUME NEW e \in DOMAIN ends, SettleEnd(e) PROVE TInv'
  BY <1>10, SettleEndInOrder
<1>11. CASE Crash
  BY <1>11, CrashInOrder
<1>12. CASE UNCHANGED vars
  <2>1. /\ UNCHANGED <<log, tries, pc, phase, injected, view, fresh, todo, rounds, offset>>
        /\ disturbed' = disturbed /\ ends' = ends
    BY <1>12 DEF vars, handlerVars
  <2>2. ends \in Seq(EndRecords)
    BY DEF TInv, EndsInOrder
  <2> QED
    BY <2>1, <2>2, StatesInOrder
<1> QED
  BY <1>1, <1>2, <1>3, <1>4, <1>5, <1>6, <1>7, <1>8, <1>9, <1>10, <1>11, <1>12 DEF Next

\* TInv is an invariant, beside CInv.
THEOREM TurnInvariant == Spec => []TInv
<1>1. Init => CInv /\ TInv
  BY InitCInv, InitTInv
<1>2. CInv /\ TInv /\ [Next]_vars => (CInv /\ TInv)'
  BY NextCInv, NextTInv
<1> QED
  BY <1>1, <1>2, PTL DEF Spec

\* What IsPrefix means.
LEMMA PrefixIs ==
  ASSUME NEW v \in Seq(Messages), NEW l \in Seq(Messages), Len(v) <= Len(l),
         \A i \in 1..Len(v) : l[i] = v[i]
  PROVE  IsPrefix(v, l)
  BY DEF IsPrefix

\* What the loop takes to be on record is on record, and when a turn has ended the
\* model was told exactly what the transcript says (loop.go newMessagesStart), as
\* long as turns of the session do not overlap and its store does not fail.
THEOREM ModelToldTheRecord == Spec => []RequestIsOnRecord
<1>1. CInv /\ TInv => RequestIsOnRecord
  <2>1. SUFFICES ASSUME CInv, TInv, NEW m \in Incoming, SessionOf[m] \notin disturbed
        PROVE  /\ pc[m] = "ask" => IsPrefix(SubSeq(view[m], 1, fresh[m]), log[SessionOf[m]])
               /\ rounds[m] > 0 /\ pc[m] \in {"end", "nil", "succeeded"} =>
                    IsPrefix(view[m], log[SessionOf[m]])
    BY DEF RequestIsOnRecord
  <2>2. TurnInOrder(m) /\ log[SessionOf[m]] \in Seq(Messages) /\ view[m] \in Seq(Messages)
        /\ fresh[m] \in Nat
    BY <2>1 DEF TInv, TurnsInOrder, CInv, Types, Sessions
  <2>3. PICK l, v, f : log[SessionOf[m]] = l /\ view[m] = v /\ fresh[m] = f
    OBVIOUS
  <2>4. l \in Seq(Messages) /\ v \in Seq(Messages) /\ f \in Nat
    BY <2>2, <2>3
  <2>5. ASSUME pc[m] = "ask" PROVE IsPrefix(SubSeq(v, 1, f), l)
    <3>1. Begins(v, f, l) /\ f <= Len(v)
      BY <2>1, <2>2, <2>3, <2>5 DEF TurnInOrder, CInv, Handler, ToRecord
    <3>2. PICK b : SubSeq(v, 1, f) = b
      OBVIOUS
    <3>3. b \in Seq(Messages) /\ Len(b) = f /\ \A i \in 1..f : b[i] = v[i]
      <4>1. 1 \in Int /\ f \in Int /\ \A i \in 1..f : v[i] \in Messages
        BY <2>4, <3>1
      <4>2. /\ SubSeq(v, 1, f) \in Seq(Messages)
            /\ Len(SubSeq(v, 1, f)) = IF 1 <= f THEN f - 1 + 1 ELSE 0
            /\ \A i \in 1..(f - 1 + 1) : SubSeq(v, 1, f)[i] = v[1 + i - 1]
        BY ONLY <4>1, SubSeqProperties
      <4>3. b \in Seq(Messages) /\ Len(b) = f
        BY <2>4, <3>2, <4>2
      <4>4. ASSUME NEW i \in 1..f PROVE b[i] = v[i]
        <5>1. i \in 1..(f - 1 + 1) /\ 1 + i - 1 = i
          BY <2>4
        <5>2. SubSeq(v, 1, f)[i] = v[1 + i - 1]
          BY ONLY <4>2, <5>1, Zenon
        <5> QED
          BY ONLY <3>2, <5>1, <5>2, Zenon
      <4> QED
        BY <4>3, <4>4
    <3>4. IsPrefix(b, l)
      BY <2>4, <3>1, <3>3, PrefixIs DEF Begins
    <3> QED
      BY <3>2, <3>4
  <2>6. ASSUME Ended(m) PROVE IsPrefix(v, l)
    <3>1. Begins(v, Len(v), l)
      BY <2>2, <2>3, <2>6 DEF TurnInOrder
    <3> QED
      BY <2>4, <3>1, PrefixIs DEF Begins
  <2> QED
    BY <2>3, <2>5, <2>6 DEF Ended
<1> QED
  BY <1>1, ConversationInvariant, TurnInvariant, PTL

\* TurnOffset is where the messages of the turn start in the transcript, as long as
\* turns of the session do not overlap and its store does not fail (events.go
\* TurnOffset).
THEOREM TurnsStartAtOffset == Spec => []OffsetIsTurnStart
<1>1. TInv => OffsetIsTurnStart
  BY DEF TInv, EndsInOrder, EndInOrder, StartOf, OffsetIsTurnStart
<1> QED
  BY <1>1, TurnInvariant, PTL

\* What the memory module extracts facts from contains the whole turn, whenever it
\* gets to read the transcript (memory/module.go onTurnEnd).
THEOREM FactsAreOfWholeTurns == Spec => []FactsSeeWholeTurn
<1>1. TInv => FactsSeeWholeTurn
  BY DEF TInv, EndsInOrder, EndInOrder, FactsOf, FactsSeeWholeTurn, Logged
<1> QED
  BY <1>1, TurnInvariant, PTL

\* As long as turns of the session did not overlap and its store did not fail,
\* crashes and failed turns notwithstanding, both services accept every request
\* (context.go repairHistory and Messages, loop.go Run, the request mappings).
THEOREM ServicesAccept == Spec => []RequestsAccepted
<1>1. CInv /\ TInv => RequestsAccepted
  <2>1. SUFFICES ASSUME CInv, TInv, NEW m \in Incoming, pc[m] = "ask",
                        SessionOf[m] \notin disturbed
                 PROVE  /\ AnthropicAccepts(AnthropicParams(view[m]))
                        /\ OpenAIAccepts(OpenAIParams(view[m]))
    BY DEF RequestsAccepted
  <2>2. view[m] \in Seq(Messages) /\ Tidy(view[m])
    BY <2>1 DEF CInv, Types, TInv, TurnsInOrder, TurnInOrder
  <2> QED
    BY <2>2, AnthropicAcceptsTidy, OpenAIAcceptsTidy
<1> QED
  BY <1>1, ConversationInvariant, TurnInvariant, PTL
===============================================================================
