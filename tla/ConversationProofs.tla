-------------------------- MODULE ConversationProofs --------------------------
(***************************************************************************)
(* Proofs about turns of the agent, for any messages, sessions, completers, *)
(* workers, crashes and faults: every request answers the calls in it,     *)
(* tools run for calls that are on record, and nothing is recorded twice.  *)
(***************************************************************************)
EXTENDS Conversation, SequenceTheorems, WellFoundedInduction, TLAPS

-----------------------------------------------------------------------------
(* Induction, from the order of the natural numbers.                          *)

\* A set of natural numbers has a least element.
LEMMA LeastElement ==
  ASSUME NEW T, T \subseteq Nat, T # {}
  PROVE  \E x \in T : \A y \in T : x <= y
<1> DEFINE R == OpToRel(<, Nat)
<1>1. \A x, y \in Nat : <<x, y>> \in R <=> x < y
  BY DEF OpToRel
<1>2. IsWellFoundedOn(R, Nat)
  BY NatLessThanWellFounded
<1> HIDE DEF R
<1>3. PICK x \in T : \A y \in T : ~(<<y, x>> \in R)
  BY <1>2, WFMin
<1>4. ASSUME NEW y \in T PROVE x <= y
  <2>1. x \in Nat /\ y \in Nat
    OBVIOUS
  <2>2. ~(y < x)
    BY <1>1, <1>3, <2>1
  <2> QED
    BY <2>1, <2>2
<1> QED
  BY <1>4

\* What holds of 0, and of n + 1 when it holds of n, holds of all.
LEMMA Inductively ==
  ASSUME NEW T, 0 \in T, \A n \in Nat : n \in T => n + 1 \in T
  PROVE  Nat \subseteq T
<1> SUFFICES ASSUME ~(Nat \subseteq T) PROVE FALSE
  OBVIOUS
<1>1. PICK x \in Nat \ T : \A y \in Nat \ T : x <= y
  BY LeastElement
<1>2. x # 0 /\ x - 1 \in Nat
  OBVIOUS
<1>3. x - 1 \in T
  BY <1>1, <1>2
<1> QED
  BY <1>1, <1>2, <1>3

-----------------------------------------------------------------------------
(* FlattenSeq: where the elements of its parts end up.                        *)

\* Partial concatenations of ss: f[k] is made of the first k parts.
Concatenates(f, ss, S) ==
  /\ f \in [0..Len(ss) -> Seq(S)]
  /\ f[0] = <<>>
  /\ \A k \in 1..Len(ss) : f[k] = f[k - 1] \o ss[k]

\* The function that FlattenSeq defines by recursion, with f[0] added.
LEMMA Concatenation ==
  ASSUME NEW S, NEW ss \in Seq(Seq(S))
  PROVE  \E f : Concatenates(f, ss, S) /\ FlattenSeq(ss) = f[Len(ss)]
<1>1. CASE Len(ss) = 0
  <2>1. ss = <<>> /\ FlattenSeq(ss) = ss
    BY <1>1 DEF FlattenSeq
  <2>2. Concatenates([k \in 0..0 |-> <<>>], ss, S)
    BY <1>1 DEF Concatenates
  <2> QED
    BY <1>1, <2>1, <2>2
<1>2. CASE Len(ss) # 0
  <2> DEFINE n == Len(ss)
             Put(g, i) == IF i = 1 THEN ss[i] ELSE g[i-1] \o ss[i]
             Eq(g) == g = [i \in 1..n |-> IF i = 1 THEN ss[i] ELSE g[i-1] \o ss[i]]
             Upto(k, g) == g \in [1..k -> Seq(S)] /\ \A i \in 1..k : g[i] = Put(g, i)
             E(k) == \E g : Upto(k, g)
             T == {k \in Nat : k <= n => E(k)}
  <2>1. n \in Nat \ {0} /\ \A i \in 1..n : ss[i] \in Seq(S)
    BY <1>2
  <2>2. E(0)
    <3>1. Upto(0, [i \in 1..0 |-> <<>>])
      OBVIOUS
    <3> QED
      BY <3>1
  <2>3. ASSUME NEW k \in Nat, E(k), k + 1 <= n PROVE E(k + 1)
    <3>2. PICK g : Upto(k, g)
      BY <2>3
    <3> DEFINE h == [i \in 1..(k+1) |-> IF i <= k THEN g[i]
                                       ELSE IF i = 1 THEN ss[i] ELSE g[k] \o ss[i]]
    <3>3. k # 0 => g[k] \o ss[k+1] \in Seq(S)
      <4> HAVE k # 0
      <4>1. g[k] \in Seq(S) /\ ss[k+1] \in Seq(S)
        BY <2>1, <2>3, <3>2
      <4> QED
        BY <4>1
    <3>4. h \in [1..(k+1) -> Seq(S)]
      BY <2>1, <2>3, <3>2, <3>3
    <3>5. ASSUME NEW i \in 1..(k+1) PROVE h[i] = Put(h, i)
      <4>1. CASE i <= k
        <5>1. h[i] = g[i] /\ i \in 1..k
          BY <4>1
        <5>2. i # 1 => h[i-1] = g[i-1]
          BY <4>1
        <5> QED
          BY <3>2, <5>1, <5>2
      <4>2. CASE i = k + 1
        <5>1. i # 1 => i - 1 = k /\ h[i-1] = g[k]
          BY <4>2
        <5>2. h[i] = IF i = 1 THEN ss[i] ELSE g[k] \o ss[i]
          BY <4>2
        <5> QED
          BY <5>1, <5>2
      <4> QED
        BY <4>1, <4>2
    <3>6. Upto(k+1, h)
      BY <3>4, <3>5
    <3> HIDE DEF h, Upto
    <3> QED
      BY <3>6
  <2>4. E(n)
    <3> HIDE DEF E
    <3>1. 0 \in T /\ \A k \in Nat : k \in T => k + 1 \in T
      BY <2>1, <2>2, <2>3
    <3> HIDE DEF T
    <3>2. Nat \subseteq T
      BY <3>1, Inductively
    <3> USE DEF T
    <3> QED
      BY <2>1, <3>2
  <2>5. PICK g : Upto(n, g)
    BY <2>4
  <2>6. Eq(g)
    BY <2>5
  <2> DEFINE f == CHOOSE h : Eq(h)
  <2>7. Eq(f)
    <3> HIDE DEF Eq
    <3> QED
      BY <2>6
  <2>12. ASSUME NEW i \in 1..n PROVE f[i] = IF i = 1 THEN ss[i] ELSE f[i-1] \o ss[i]
    <3> HIDE DEF f, n
    <3> DEFINE F == [j \in 1..n |-> IF j = 1 THEN ss[j] ELSE f[j-1] \o ss[j]]
    <3>1. F[i] = IF i = 1 THEN ss[i] ELSE f[i-1] \o ss[i]
      OBVIOUS
    <3>2. f = F
      BY <2>7
    <3> HIDE DEF F
    <3> QED
      BY ONLY <3>1, <3>2, Zenon
  <2>8. FlattenSeq(ss) = f[n]
    BY <1>2 DEF FlattenSeq
  <2> HIDE DEF f
  <2> DEFINE U == {k \in Nat : k \in 1..n => f[k] \in Seq(S)}
  <2>9. 0 \in U
    OBVIOUS
  <2>10. ASSUME NEW k \in Nat, k \in U PROVE k + 1 \in U
    <3>1. SUFFICES ASSUME k + 1 <= n PROVE f[k+1] \in Seq(S)
      OBVIOUS
    <3>2. f[k+1] = IF k = 0 THEN ss[k+1] ELSE f[k] \o ss[k+1]
      <4>1. k + 1 \in 1..n /\ (k + 1 = 1 <=> k = 0) /\ (k + 1) - 1 = k
        BY <2>1, <3>1
      <4>2. f[k+1] = IF k + 1 = 1 THEN ss[k+1] ELSE f[(k+1)-1] \o ss[k+1]
        BY ONLY <2>12, <4>1, Zenon
      <4> QED
        BY ONLY <4>1, <4>2, Zenon
    <3>3. CASE k = 0
      BY <2>1, <3>1, <3>2, <3>3
    <3>4. CASE k # 0
      <4>1. f[k] \in Seq(S) /\ ss[k+1] \in Seq(S)
        BY <2>1, <2>10, <3>1, <3>4
      <4>2. f[k+1] = f[k] \o ss[k+1]
        BY <3>2, <3>4
      <4> QED
        BY <4>1, <4>2
    <3> QED
      BY <3>3, <3>4
  <2> DEFINE c == [k \in 0..n |-> IF k = 0 THEN <<>> ELSE f[k]]
  <2>13. ASSUME NEW k \in 1..n PROVE f[k] \in Seq(S)
    <3> HIDE DEF U
    <3>1. Nat \subseteq U
      BY <2>9, <2>10, Inductively
    <3>2. k \in Nat /\ k \in U
      BY <2>1, <3>1
    <3> USE DEF U
    <3> QED
      BY <3>2
  <2>14. c \in [0..n -> Seq(S)]
    BY <2>1, <2>13
  <2>15. ASSUME NEW k \in 1..n PROVE c[k] = c[k - 1] \o ss[k]
    <3>1. c[k] = f[k] /\ k - 1 \in 0..n /\ ss[k] \in Seq(S)
      BY <2>1
    <3>2. CASE k = 1
      <4>1. c[k - 1] = <<>> /\ f[k] = ss[k]
        BY <2>1, <2>12, <3>2
      <4>2. <<>> \o ss[k] = ss[k]
        BY <3>1
      <4> QED
        BY <3>1, <4>1, <4>2
    <3>3. CASE k # 1
      <4>1. c[k - 1] = f[k - 1]
        BY <2>1, <3>3
      <4>2. f[k] = f[k - 1] \o ss[k]
        BY <2>12, <3>3
      <4> QED
        BY <3>1, <4>1, <4>2
    <3> QED
      BY <3>2, <3>3
  <2>16. c[0] = <<>> /\ c[n] = f[n]
    BY <2>1
  <2> HIDE DEF c
  <2>17. Concatenates(c, ss, S)
    BY <2>14, <2>15, <2>16 DEF Concatenates
  <2> QED
    BY <2>8, <2>16, <2>17
<1> QED
  BY <1>1, <1>2


\* What the elements of a concatenation are.
LEMMA Joined ==
  ASSUME NEW S, NEW s \in Seq(S), NEW t \in Seq(S)
  PROVE  /\ s \o t \in Seq(S)
         /\ Len(s) \in Nat /\ Len(t) \in Nat /\ Len(s \o t) = Len(s) + Len(t)
         /\ \A i \in 1..Len(s) : (s \o t)[i] = s[i]
         /\ \A j \in 1..Len(t) : (s \o t)[Len(s) + j] = t[j]
  OBVIOUS

\* off says behind how many elements each part of ss begins in t.
Places(off, ss, t) ==
  /\ off \in [1..(Len(ss) + 1) -> Nat]
  /\ off[1] = 0 /\ off[Len(ss) + 1] = Len(t)
  /\ \A i \in 1..Len(ss) : off[i + 1] = off[i] + Len(ss[i])
  /\ \A i \in 1..Len(ss) : \A j \in 1..Len(ss[i]) : t[off[i] + j] = ss[i][j]

\* Each part of ss is in FlattenSeq(ss), one behind the other.
LEMMA Flattened ==
  ASSUME NEW S, NEW ss \in Seq(Seq(S))
  PROVE  /\ FlattenSeq(ss) \in Seq(S)
         /\ \E off : Places(off, ss, FlattenSeq(ss))
<1> DEFINE n == Len(ss)
<1>1. n \in Nat /\ \A i \in 1..n : ss[i] \in Seq(S)
  OBVIOUS
<1>2. PICK f : Concatenates(f, ss, S) /\ FlattenSeq(ss) = f[n]
  BY Concatenation
<1> DEFINE off == [i \in 1..(n + 1) |-> Len(f[i - 1])]
<1> HIDE DEF n
<1>3. \A k \in 0..n : f[k] \in Seq(S)
  BY <1>2 DEF Concatenates, n
<1>4. f[0] = <<>> /\ \A k \in 1..n : f[k] = f[k - 1] \o ss[k]
  BY <1>2 DEF Concatenates, n
<1>5. off \in [1..(n + 1) -> Nat]
  <2>1. ASSUME NEW i \in 1..(n + 1) PROVE Len(f[i - 1]) \in Nat
    <3>1. f[i - 1] \in Seq(S)
      BY <1>1, <1>3
    <3> QED
      BY <3>1
  <2> QED
    BY <2>1
<1>6. off[1] = 0 /\ off[n + 1] = Len(f[n])
  BY <1>1, <1>4
<1>7. ASSUME NEW i \in 1..n PROVE off[i + 1] = off[i] + Len(ss[i])
  <2>1. f[i - 1] \in Seq(S) /\ ss[i] \in Seq(S) /\ f[i] = f[i - 1] \o ss[i]
    <3>1. i - 1 \in 0..n
      BY <1>1
    <3> QED
      BY <1>1, <1>3, <1>4, <3>1
  <2>2. Len(f[i]) = Len(f[i - 1]) + Len(ss[i])
    BY <2>1
  <2>3. off[i + 1] = Len(f[i]) /\ off[i] = Len(f[i - 1])
    BY <1>1
  <2> QED
    BY <2>2, <2>3
\* What the first k parts make up stays in front.
<1>8. ASSUME NEW i \in 1..n, NEW j \in 1..Len(ss[i]) PROVE f[n][off[i] + j] = ss[i][j]
  <2> DEFINE p == off[i] + j
             T == {k \in Nat : i + k <= n => p \in 1..Len(f[i + k]) /\ f[i + k][p] = ss[i][j]}
  <2>1. off[i] \in Nat /\ off[i] = Len(f[i - 1]) /\ p \in Nat
    BY <1>1, <1>5
  <2>2. 0 \in T
    <3>1. f[i - 1] \in Seq(S) /\ ss[i] \in Seq(S) /\ f[i] = f[i - 1] \o ss[i]
      <4>1. i - 1 \in 0..n
        BY <1>1
      <4> QED
        BY <1>1, <1>3, <1>4, <4>1
    <3>2. p \in 1..Len(f[i]) /\ f[i][p] = ss[i][j]
      <4>1. PICK a, b : a = f[i - 1] /\ b = ss[i] /\ a \in Seq(S) /\ b \in Seq(S)
        BY <3>1
      <4>2. /\ Len(a) \in Nat /\ Len(b) \in Nat /\ Len(a \o b) = Len(a) + Len(b)
            /\ \A q \in 1..Len(b) : (a \o b)[Len(a) + q] = b[q]
        <5>1. a \in Seq(S) /\ b \in Seq(S)
          BY <4>1
        <5> QED
          BY ONLY <5>1, Joined
      <4>3. p = Len(a) + j /\ j \in 1..Len(b) /\ f[i] = a \o b
        BY <2>1, <3>1, <4>1
      <4> HIDE DEF p
      <4>4. p \in 1..Len(a \o b) /\ (a \o b)[p] = b[j]
        BY <4>2, <4>3
      <4> QED
        BY <4>1, <4>3, <4>4
    <3>3. i + 0 = i
      BY <1>1
    <3> QED
      BY <3>2, <3>3
  <2>3. ASSUME NEW k \in Nat, k \in T PROVE k + 1 \in T
    <3> SUFFICES ASSUME i + (k + 1) <= n
                 PROVE  p \in 1..Len(f[i + (k + 1)]) /\ f[i + (k + 1)][p] = ss[i][j]
      OBVIOUS
    <3>1. p \in 1..Len(f[i + k]) /\ f[i + k][p] = ss[i][j]
      BY <1>1, <2>3
    <3>2. i + k \in 0..n /\ i + (k + 1) \in 1..n /\ (i + (k + 1)) - 1 = i + k
      BY <1>1
    <3>3. f[i + k] \in Seq(S) /\ ss[i + (k + 1)] \in Seq(S)
      BY <1>1, <1>3, <3>2
    <3>4. f[i + (k + 1)] = f[i + k] \o ss[i + (k + 1)]
      <4>1. f[i + (k + 1)] = f[(i + (k + 1)) - 1] \o ss[i + (k + 1)]
        BY <1>4, <3>2
      <4> QED
        BY ONLY <3>2, <4>1, Zenon
    <3> HIDE DEF p
    <3>5. PICK a, b : /\ a = f[i + k] /\ b = ss[i + (k + 1)]
                      /\ a \in Seq(S) /\ b \in Seq(S)
      BY <3>3
    <3>6. /\ Len(a) \in Nat /\ Len(b) \in Nat /\ Len(a \o b) = Len(a) + Len(b)
          /\ \A q \in 1..Len(a) : (a \o b)[q] = a[q]
      <4>1. a \in Seq(S) /\ b \in Seq(S)
        BY <3>5
      <4> QED
        BY ONLY <4>1, Joined
    <3>7. p \in 1..Len(a) /\ a[p] = ss[i][j] /\ f[i + (k + 1)] = a \o b
      BY <3>1, <3>4, <3>5
    <3>8. p \in 1..Len(a \o b) /\ (a \o b)[p] = ss[i][j]
      BY <3>6, <3>7
    <3> QED
      BY <3>7, <3>8
  <2> HIDE DEF T
  <2>4. Nat \subseteq T
    BY <2>2, <2>3, Inductively
  <2>5. n - i \in T /\ i + (n - i) = n
    BY <1>1, <2>4
  <2> USE DEF T
  <2>6. f[n][p] = ss[i][j]
    BY <1>1, <2>5
  <2> QED
    BY <2>6
<1> HIDE DEF off
<1>9. Places(off, ss, f[n])
  BY <1>5, <1>6, <1>7, <1>8 DEF Places, n
<1> QED
  BY <1>1, <1>2, <1>3, <1>9

Covers(off, ss, t) ==
  \A p \in 1..Len(t) : \E i \in 1..Len(ss) : \E j \in 1..Len(ss[i]) : p = off[i] + j

\* The parts follow one another, and there is nothing besides them.
LEMMA Ordered ==
  ASSUME NEW S, NEW ss \in Seq(Seq(S)), NEW t \in Seq(S), NEW off, Places(off, ss, t)
  PROVE  /\ \A i, k \in 1..(Len(ss) + 1) : i <= k => off[i] <= off[k]
         /\ Covers(off, ss, t)
<1> DEFINE n == Len(ss)
<1>1. n \in Nat /\ (\A i \in 1..n : Len(ss[i]) \in Nat) /\ Len(t) \in Nat
  <2>1. \A i \in 1..n : ss[i] \in Seq(S)
    OBVIOUS
  <2> QED
    BY <2>1
<1>2. /\ off \in [1..(n + 1) -> Nat] /\ off[1] = 0 /\ off[n + 1] = Len(t)
      /\ \A i \in 1..n : off[i + 1] = off[i] + Len(ss[i])
  BY DEF Places
<1> HIDE DEF n
<1>3. ASSUME NEW i \in 1..(n + 1), NEW k \in 1..(n + 1), i <= k PROVE off[i] <= off[k]
  <2> DEFINE T == {d \in Nat : i + d <= n + 1 => off[i] <= off[i + d]}
  <2>1. 0 \in T
    BY <1>1, <1>2
  <2>2. ASSUME NEW d \in Nat, d \in T PROVE d + 1 \in T
    <3> SUFFICES ASSUME i + (d + 1) <= n + 1 PROVE off[i] <= off[i + (d + 1)]
      OBVIOUS
    <3>1. i + d \in 1..n /\ (i + d) + 1 = i + (d + 1)
      BY <1>1
    <3>2. off[i] <= off[i + d]
      BY <2>2, <3>1, <1>1
    <3>3. off[(i + d) + 1] = off[i + d] + Len(ss[i + d])
      BY <1>2, <3>1
    <3>4. off[i] \in Nat /\ off[i + d] \in Nat /\ Len(ss[i + d]) \in Nat
      BY <1>1, <1>2, <3>1
    <3> QED
      BY <3>1, <3>2, <3>3, <3>4
  <2> HIDE DEF T
  <2>3. Nat \subseteq T
    BY <2>1, <2>2, Inductively
  <2>4. k - i \in T /\ i + (k - i) = k
    BY <1>1, <1>3, <2>3
  <2> USE DEF T
  <2> QED
    BY <1>1, <2>4
<1>4. ASSUME NEW p \in 1..Len(t)
      PROVE  \E i \in 1..n : \E j \in 1..Len(ss[i]) : p = off[i] + j
  <2> DEFINE T == {i \in 1..(n + 1) : p <= off[i]}
  <2>1. T \subseteq Nat /\ n + 1 \in T
    BY <1>1, <1>2
  <2>2. PICK x \in T : \A y \in T : x <= y
    BY <2>1, LeastElement
  <2>3. x # 1
    BY <1>1, <1>2
  <2>4. x - 1 \in 1..n /\ (x - 1) + 1 = x
    BY <1>1, <2>3
  <2>5. ~(p <= off[x - 1])
    <3>1. x - 1 \notin T
      BY <1>1, <2>2, <2>4
    <3> QED
      BY <1>1, <2>4, <3>1
  <2>6. off[x] = off[x - 1] + Len(ss[x - 1])
    BY <1>2, <2>4
  <2>7. off[x - 1] \in Nat /\ Len(ss[x - 1]) \in Nat /\ p <= off[x]
    BY <1>1, <1>2, <2>2, <2>4
  <2>8. p - off[x - 1] \in 1..Len(ss[x - 1]) /\ p = off[x - 1] + (p - off[x - 1])
    BY <1>1, <2>5, <2>6, <2>7
  <2> QED
    BY <2>4, <2>8
<1> QED
  BY <1>3, <1>4 DEF n, Covers

\* Empty parts make up nothing.
LEMMA AllEmpty ==
  ASSUME NEW S, NEW ss \in Seq(Seq(S))
  PROVE  FlattenSeq(ss) = <<>> <=> \A i \in 1..Len(ss) : ss[i] = <<>>
<1> DEFINE t == FlattenSeq(ss)
<1>1. t \in Seq(S)
  BY Flattened
<1>2. PICK off : Places(off, ss, t)
  BY Flattened
<1> HIDE DEF t
<1>3. \A i \in 1..Len(ss) : ss[i] \in Seq(S)
  OBVIOUS
<1>4. ASSUME \A i \in 1..Len(ss) : ss[i] = <<>> PROVE t = <<>>
  <2>1. ASSUME NEW p \in 1..Len(t) PROVE FALSE
    <3>1. PICK i \in 1..Len(ss) : \E j \in 1..Len(ss[i]) : p = off[i] + j
      <4>1. Covers(off, ss, t)
        BY <1>1, <1>2, Ordered
      <4> QED
        BY <4>1 DEF Covers
    <3>2. Len(ss[i]) = 0
      BY <1>4, <3>1
    <3> QED
      BY <3>1, <3>2
  <2>2. Len(t) \in Nat
    BY <1>1
  <2>3. Len(t) = 0
    BY <2>1, <2>2
  <2> QED
    BY <1>1, <2>3
<1>5. ASSUME t = <<>>, NEW i \in 1..Len(ss) PROVE ss[i] = <<>>
  <2>1. Len(t) = 0 /\ Len(ss) \in Nat /\ Len(ss[i]) \in Nat
    BY <1>3, <1>5
  <2>2. off[i + 1] = off[i] + Len(ss[i]) /\ off[Len(ss) + 1] = 0 /\ off[i] \in Nat
    <3>1. off \in [1..(Len(ss) + 1) -> Nat] /\ off[Len(ss) + 1] = Len(t)
      BY <1>2 DEF Places
    <3>2. \A k \in 1..Len(ss) : off[k + 1] = off[k] + Len(ss[k])
      BY <1>2 DEF Places
    <3>3. i \in 1..(Len(ss) + 1)
      BY <2>1
    <3> QED
      BY <2>1, <3>1, <3>2, <3>3
  <2>3. i + 1 \in 1..(Len(ss) + 1) /\ Len(ss) + 1 \in 1..(Len(ss) + 1) /\ i + 1 <= Len(ss) + 1
    BY <2>1
  <2>4. off[i + 1] <= off[Len(ss) + 1]
    BY <1>1, <1>2, <2>3, Ordered
  <2>5. Len(ss[i]) = 0
    BY <2>1, <2>2, <2>4
  <2> QED
    BY <1>3, <2>5
<1> QED
  BY <1>4, <1>5 DEF t


-----------------------------------------------------------------------------
(* Repair.                                                                    *)

Ids      == Incoming \X Nat \X Nat \X Nat
Attempts == Incoming \X Nat

Messages ==
  [role : {"user", "assistant", "tool"}, text : BOOLEAN, calls : Seq(Ids),
   callID : Ids \union {NoCall}, by : Attempts \union {Nobody}]

\* Synthetic results.
Results == {x \in Messages : x.role = "tool" /\ x.calls = <<>> /\ x.by = Nobody}

\* What Injected(t) = <<>> comes to.
AllAnswered(t) ==
  \A i \in 1..Len(t) : \A k \in 1..Len(t[i].calls) : Satisfied(t, i, t[i].calls[k])

\* What ToolResultMessage makes is a message.
LEMMA ResultIsMessage ==
  ASSUME NEW id \in Ids PROVE ToolResultMessage(id, Nobody) \in Results
BY DEF ToolResultMessage, Message, Messages, Results

\* Missing gives a result for each call that has none, and no other.
LEMMA MissingResults ==
  ASSUME NEW t \in Seq(Messages), NEW i \in 1..Len(t)
  PROVE  /\ Missing(t, i) \in Seq(Results)
         /\ Missing(t, i) = <<>>
              <=> \A k \in 1..Len(t[i].calls) : Satisfied(t, i, t[i].calls[k])
         /\ \A k \in 1..Len(t[i].calls) :
              \/ Satisfied(t, i, t[i].calls[k])
              \/ \E q \in 1..Len(Missing(t, i)) :
                   Missing(t, i)[q] = ToolResultMessage(t[i].calls[k], Nobody)
<1> DEFINE calls == t[i].calls
           ss == [k \in DOMAIN calls |->
                    IF Satisfied(t, i, calls[k]) THEN <<>>
                    ELSE <<ToolResultMessage(calls[k], Nobody)>>]
<1>1. t[i] \in Messages
  OBVIOUS
<1>2. calls \in Seq(Ids)
  BY <1>1 DEF Messages
<1>3. Missing(t, i) = FlattenSeq(ss)
  BY DEF Missing
<1> HIDE DEF calls
<1>4. DOMAIN calls = 1..Len(calls) /\ Len(calls) \in Nat /\ \A k \in 1..Len(calls) : calls[k] \in Ids
  BY <1>2
<1>5. ASSUME NEW k \in 1..Len(calls)
      PROVE  /\ ss[k] \in Seq(Results)
             /\ ss[k] = <<>> <=> Satisfied(t, i, calls[k])
             /\ ~Satisfied(t, i, calls[k]) => ss[k] = <<ToolResultMessage(calls[k], Nobody)>>
  <2> DEFINE r == ToolResultMessage(calls[k], Nobody)
  <2>1. r \in Results
    BY <1>4, ResultIsMessage
  <2> HIDE DEF r
  <2>2. <<r>> \in Seq(Results) /\ <<>> \in Seq(Results) /\ <<r>> # <<>>
    BY <2>1
  <2>3. ss[k] = IF Satisfied(t, i, calls[k]) THEN <<>> ELSE <<r>>
    BY <1>4 DEF r
  <2> HIDE DEF ss
  <2> QED
    BY <2>2, <2>3 DEF r
<1>6. ss \in Seq(Seq(Results)) /\ Len(ss) = Len(calls)
  <2>1. ss = [k \in 1..Len(calls) |-> ss[k]]
    BY <1>4
  <2> HIDE DEF ss
  <2>2. \A k \in 1..Len(calls) : ss[k] \in Seq(Results)
    BY <1>5
  <2>3. ss \in [1..Len(calls) -> Seq(Results)]
    BY <2>1, <2>2
  <2> QED
    BY <1>4, <2>3
<1> HIDE DEF ss
<1> DEFINE m == FlattenSeq(ss)
<1>7. m \in Seq(Results)
  BY <1>6, Flattened
<1>8. m = <<>> <=> \A k \in 1..Len(calls) : ss[k] = <<>>
  BY <1>6, AllEmpty
<1>9. PICK off : Places(off, ss, m)
  BY <1>6, Flattened
<1> HIDE DEF m
<1>10. ASSUME NEW k \in 1..Len(calls), ~Satisfied(t, i, calls[k])
       PROVE  \E q \in 1..Len(m) : m[q] = ToolResultMessage(calls[k], Nobody)
  <2> DEFINE r == ToolResultMessage(calls[k], Nobody)
  <2>1. ss[k] = <<r>>
    BY <1>5, <1>10
  <2> HIDE DEF r
  <2>2. Len(ss[k]) = 1 /\ ss[k][1] = r
    BY <2>1
  <2>3. /\ off \in [1..(Len(ss) + 1) -> Nat] /\ off[Len(ss) + 1] = Len(m)
        /\ off[k + 1] = off[k] + Len(ss[k])
        /\ \A j \in 1..Len(ss[k]) : m[off[k] + j] = ss[k][j]
    BY <1>6, <1>9 DEF Places
  <2>4. /\ k \in 1..(Len(ss) + 1) /\ k + 1 \in 1..(Len(ss) + 1)
        /\ Len(ss) + 1 \in 1..(Len(ss) + 1) /\ k + 1 <= Len(ss) + 1
    BY <1>4, <1>6
  <2>5. off[k + 1] <= off[Len(ss) + 1]
    BY <1>6, <1>7, <1>9, <2>4, Ordered
  <2>6. off[k] \in Nat /\ Len(m) \in Nat
    BY <1>7, <2>3, <2>4
  <2>7. off[k] + 1 \in 1..Len(m)
    BY <2>2, <2>3, <2>5, <2>6
  <2>8. m[off[k] + 1] = r
    BY <2>2, <2>3
  <2> QED
    BY <2>7, <2>8 DEF r
<1> QED
  BY <1>3, <1>5, <1>7, <1>8, <1>10 DEF m, calls

\* What is injected are results, and nothing is when all is answered.
LEMMA InjectedResults ==
  ASSUME NEW t \in Seq(Messages)
  PROVE  /\ Injected(t) \in Seq(Results)
         /\ Injected(t) = <<>> <=> AllAnswered(t)
<1> DEFINE ss == [i \in DOMAIN t |-> Missing(t, i)]
<1>1. DOMAIN t = 1..Len(t) /\ Len(t) \in Nat
  OBVIOUS
<1>2. \A i \in 1..Len(t) : ss[i] = Missing(t, i) /\ ss[i] \in Seq(Results)
  BY <1>1, MissingResults
<1>3. ss \in Seq(Seq(Results)) /\ Len(ss) = Len(t)
  <2>1. ss = [i \in 1..Len(t) |-> ss[i]]
    BY <1>1
  <2> HIDE DEF ss
  <2>2. ss \in [1..Len(t) -> Seq(Results)]
    BY <1>2, <2>1
  <2> QED
    BY <1>1, <2>2
<1>4. Injected(t) = FlattenSeq(ss)
  BY DEF Injected
<1> HIDE DEF ss
<1>5. Injected(t) \in Seq(Results)
  BY <1>3, <1>4, Flattened
<1>6. Injected(t) = <<>> <=> \A i \in 1..Len(t) : ss[i] = <<>>
  BY <1>3, <1>4, AllEmpty
<1>7. Injected(t) = <<>> <=> \A i \in 1..Len(t) : Missing(t, i) = <<>>
  BY <1>2, <1>6
<1>8. \A i \in 1..Len(t) :
        Missing(t, i) = <<>>
          <=> \A k \in 1..Len(t[i].calls) : Satisfied(t, i, t[i].calls[k])
  BY MissingResults
<1> QED
  BY <1>5, <1>7, <1>8 DEF AllAnswered


\* A repaired transcript answers all its calls: a message that calls is still in
\* front of its answer, and a result that was missing follows directly.
LEMMA RepairAnswers ==
  ASSUME NEW t \in Seq(Messages)
  PROVE  Repaired(t) \in Seq(Messages) /\ AllAnswered(Repaired(t))
<1> DEFINE ss == [i \in DOMAIN t |-> <<t[i]>> \o Missing(t, i)]
           r  == Repaired(t)
<1>1. DOMAIN t = 1..Len(t) /\ Len(t) \in Nat /\ \A i \in 1..Len(t) : t[i] \in Messages
  OBVIOUS
<1>2. ASSUME NEW i \in 1..Len(t)
      PROVE  /\ ss[i] \in Seq(Messages)
             /\ Len(ss[i]) = 1 + Len(Missing(t, i)) /\ Len(Missing(t, i)) \in Nat
             /\ ss[i][1] = t[i]
             /\ \A q \in 1..Len(Missing(t, i)) : ss[i][1 + q] = Missing(t, i)[q]
  <2> DEFINE m == Missing(t, i)
             x == t[i]
  <2>1. ss[i] = <<x>> \o m
    BY <1>1
  <2>2. m \in Seq(Results) /\ x \in Messages
    BY <1>1, MissingResults
  <2> HIDE DEF ss, m, x
  <2>3. m \in Seq(Messages)
    BY <2>2 DEF Results
  <2>4. <<x>> \in Seq(Messages) /\ Len(<<x>>) = 1 /\ <<x>>[1] = x
    BY <2>2
  <2>5. /\ <<x>> \o m \in Seq(Messages) /\ Len(m) \in Nat
        /\ Len(<<x>> \o m) = Len(<<x>>) + Len(m)
        /\ \A j \in 1..Len(<<x>>) : (<<x>> \o m)[j] = <<x>>[j]
        /\ \A j \in 1..Len(m) : (<<x>> \o m)[Len(<<x>>) + j] = m[j]
    BY ONLY <2>3, <2>4, Joined
  <2>6. 1 \in 1..Len(<<x>>)
    BY <2>4
  <2> QED
    BY <2>1, <2>4, <2>5, <2>6 DEF m, x
<1>3. ss \in Seq(Seq(Messages)) /\ Len(ss) = Len(t)
  <2>1. ss = [i \in 1..Len(t) |-> ss[i]]
    BY <1>1
  <2> HIDE DEF ss
  <2>2. ss \in [1..Len(t) -> Seq(Messages)]
    BY <1>2, <2>1
  <2> QED
    BY <1>1, <2>2
<1>4. r = FlattenSeq(ss)
  BY DEF Repaired
<1> HIDE DEF ss
<1> HIDE DEF r
<1>5. r \in Seq(Messages)
  BY <1>3, <1>4, Flattened
<1>6. PICK off : Places(off, ss, r)
  BY <1>3, <1>4, Flattened
<1>7. /\ off \in [1..(Len(t) + 1) -> Nat] /\ off[Len(t) + 1] = Len(r)
      /\ \A i \in 1..Len(t) : off[i + 1] = off[i] + Len(ss[i])
      /\ \A i \in 1..Len(t) : \A j \in 1..Len(ss[i]) : r[off[i] + j] = ss[i][j]
  BY <1>3, <1>6 DEF Places
<1>8. /\ \A i, k \in 1..(Len(t) + 1) : i <= k => off[i] <= off[k]
      /\ \A p \in 1..Len(r) : \E i \in 1..Len(t) : \E j \in 1..Len(ss[i]) : p = off[i] + j
  <2>1. \A i, k \in 1..(Len(ss) + 1) : i <= k => off[i] <= off[k]
    BY <1>3, <1>5, <1>6, Ordered
  <2>2. \A p \in 1..Len(r) : \E i \in 1..Len(ss) : \E j \in 1..Len(ss[i]) : p = off[i] + j
    <3>1. Covers(off, ss, r)
      BY <1>3, <1>5, <1>6, Ordered
    <3> QED
      BY <3>1 DEF Covers
  <2> QED
    BY <1>3, <2>1, <2>2
\* Each message of t, and each result behind it.
<1>9. ASSUME NEW i \in 1..Len(t), NEW j \in 1..Len(ss[i])
      PROVE  /\ off[i] \in Nat /\ off[i] + j \in 1..Len(r) /\ r[off[i] + j] = ss[i][j]
             /\ \A k \in 1..Len(t) : i < k => off[i] + j <= off[k]
  <2>1. i + 1 \in 1..(Len(t) + 1) /\ i \in 1..(Len(t) + 1) /\ Len(t) + 1 \in 1..(Len(t) + 1)
    BY <1>1
  <2>2. off[i] \in Nat /\ off[i + 1] = off[i] + Len(ss[i]) /\ Len(ss[i]) \in Nat
    BY <1>2, <1>7, <2>1
  <2>3. off[i + 1] <= Len(r) /\ Len(r) \in Nat
    <3>1. Len(r) \in Nat
      BY <1>5
    <3>2. i + 1 <= Len(t) + 1
      BY <1>1
    <3>3. off[i + 1] <= off[Len(t) + 1]
      BY <1>8, <2>1, <3>2
    <3> QED
      BY <1>7, <3>1, <3>3
  <2>4. off[i] + j \in 1..Len(r)
    BY <2>2, <2>3
  <2>5. ASSUME NEW k \in 1..Len(t), i < k PROVE off[i] + j <= off[k]
    <3>1. k \in 1..(Len(t) + 1) /\ i + 1 <= k
      BY <1>1, <2>5
    <3>2. off[i + 1] <= off[k] /\ off[k] \in Nat
      BY <1>7, <1>8, <2>1, <3>1
    <3> QED
      BY <2>2, <3>2
  <2>6. r[off[i] + j] = ss[i][j]
    BY <1>7
  <2> QED
    BY <2>2, <2>4, <2>5, <2>6
<1>10. ASSUME NEW p \in 1..Len(r), NEW k \in 1..Len(r[p].calls)
       PROVE  Satisfied(r, p, r[p].calls[k])
  <2>0. PICK i \in 1..Len(t) : \E j \in 1..Len(ss[i]) : p = off[i] + j
    BY <1>8
  <2>1. PICK j \in 1..Len(ss[i]) : p = off[i] + j
    BY <2>0
  <2>2. r[p] = ss[i][j]
    BY <1>9, <2>1
  <2>3. SUFFICES \E z \in 1..Len(r) : /\ p < z /\ r[z].role = "tool"
                                      /\ r[z].callID = r[p].calls[k]
    <3>1. Len(r) \in Nat /\ DOMAIN r = 1..Len(r)
      BY <1>5
    <3> QED
      BY <3>1, <2>3 DEF Satisfied
  <2>4. j = 1
    <3>1. ASSUME j # 1 PROVE FALSE
      <4>1. j - 1 \in 1..Len(Missing(t, i)) /\ 1 + (j - 1) = j
        BY <1>2, <3>1
      <4>2. ss[i][j] = Missing(t, i)[j - 1]
        BY <1>2, <4>1
      <4>3. Missing(t, i) \in Seq(Results)
        BY MissingResults
      <4>4. Missing(t, i)[j - 1] \in Results
        BY <4>1, <4>3
      <4>5. r[p].calls = <<>>
        BY <2>2, <4>2, <4>4 DEF Results
      <4> QED
        BY <4>5
    <3> QED
      BY <3>1
  <2>5. r[p] = t[i]
    BY <1>2, <2>2, <2>4
  <2> DEFINE id == t[i].calls[k]
  <2>6. id \in Ids
    <3>1. t[i].calls \in Seq(Ids) /\ k \in 1..Len(t[i].calls)
      BY <1>1, <2>5 DEF Messages
    <3> QED
      BY <3>1
  <2>7. CASE Satisfied(t, i, id)
    <3>1. PICK y \in 1..Len(t) : i < y /\ t[y].role = "tool" /\ t[y].callID = id
      BY <1>1, <2>7 DEF Satisfied
    <3>2. 1 \in 1..Len(ss[y]) /\ ss[y][1] = t[y]
      BY <1>2, SMTT(30)
    <3>3. off[y] \in Nat /\ off[y] + 1 \in 1..Len(r) /\ r[off[y] + 1] = t[y]
      BY <1>9, <3>2
    <3>4. p <= off[y]
      BY <1>9, <2>1, <3>1
    <3>5. p < off[y] + 1
      BY <3>3, <3>4
    <3> QED
      BY <2>5, <3>1, <3>3, <3>5
  <2>8. CASE ~Satisfied(t, i, id)
    <3>1. k \in 1..Len(t[i].calls)
      BY <2>5
    <3>2. PICK q \in 1..Len(Missing(t, i)) :
            Missing(t, i)[q] = ToolResultMessage(id, Nobody)
      BY <2>8, <3>1, MissingResults
    <3>3. 1 + q \in 1..Len(ss[i]) /\ ss[i][1 + q] = ToolResultMessage(id, Nobody)
      BY <1>2, <3>2
    <3>4. /\ off[i] \in Nat /\ off[i] + (1 + q) \in 1..Len(r)
          /\ r[off[i] + (1 + q)] = ToolResultMessage(id, Nobody)
      BY <1>9, <3>3
    <3>5. p < off[i] + (1 + q)
      BY <1>2, <2>1, <2>4, <3>2, <3>4
    <3>6. /\ r[off[i] + (1 + q)].role = "tool"
          /\ r[off[i] + (1 + q)].callID = id
      BY <3>4 DEF ToolResultMessage, Message
    <3> QED
      BY <2>5, <3>4, <3>5, <3>6
  <2> QED
    BY <2>7, <2>8
<1> QED
  BY <1>5, <1>10 DEF AllAnswered, r


-----------------------------------------------------------------------------
(* Calls that are still open in a list of messages.                           *)

\* All calls in v have their result after them, but for those of D.
AllBut(v, D) ==
  \A i \in 1..Len(v) : \A k \in 1..Len(v[i].calls) :
     Satisfied(v, i, v[i].calls[k]) \/ v[i].calls[k] \in D

\* A message adds its own calls to the open ones, and closes the one it answers.
LEMMA AppendOpens ==
  ASSUME NEW v \in Seq(Messages), NEW x \in Messages, NEW D, AllBut(v, D)
  PROVE  /\ AllBut(Append(v, x), D \union ToSet(x.calls))
         /\ x.role = "tool" /\ x.calls = <<>> => AllBut(Append(v, x), D \ {x.callID})
<1> DEFINE w == Append(v, x)
<1>1. /\ Len(v) \in Nat /\ Len(w) = Len(v) + 1 /\ w[Len(w)] = x
      /\ \A i \in 1..Len(v) : w[i] = v[i]
  OBVIOUS
<1> HIDE DEF w
<1>2. ASSUME NEW i \in 1..Len(v), NEW id, Satisfied(v, i, id) PROVE Satisfied(w, i, id)
  <2>1. PICK j \in (i + 1)..Len(v) : v[j].role = "tool" /\ v[j].callID = id
    BY <1>2 DEF Satisfied
  <2>2. j \in (i + 1)..Len(w) /\ w[j] = v[j]
    BY <1>1
  <2> QED
    BY <2>1, <2>2 DEF Satisfied
<1>3. ASSUME NEW i \in 1..Len(v), x.role = "tool" PROVE Satisfied(w, i, x.callID)
  <2>1. Len(w) \in (i + 1)..Len(w)
    BY <1>1
  <2> QED
    BY <1>1, <1>3, <2>1 DEF Satisfied
<1>4. \A i \in 1..Len(w) : i \in 1..Len(v) \/ i = Len(w)
  BY <1>1
<1>5. ASSUME NEW i \in 1..Len(w), NEW k \in 1..Len(w[i].calls)
      PROVE  Satisfied(w, i, w[i].calls[k]) \/ w[i].calls[k] \in D \union ToSet(x.calls)
  <2>1. CASE i \in 1..Len(v)
    <3>1. w[i] = v[i]
      BY <1>1, <2>1
    <3>2. Satisfied(v, i, v[i].calls[k]) \/ v[i].calls[k] \in D
      BY <2>1, <3>1 DEF AllBut
    <3> QED
      BY <1>2, <2>1, <3>1, <3>2
  <2>2. CASE i = Len(w)
    <3>1. x.calls \in Seq(Ids) /\ k \in 1..Len(x.calls)
      BY <1>1, <2>2 DEF Messages
    <3>2. x.calls[k] \in ToSet(x.calls)
      BY <3>1 DEF ToSet
    <3> QED
      BY <1>1, <2>2, <3>2
  <2> QED
    BY <1>4, <2>1, <2>2
<1>6. ASSUME x.role = "tool", x.calls = <<>>,
             NEW i \in 1..Len(w), NEW k \in 1..Len(w[i].calls)
      PROVE  Satisfied(w, i, w[i].calls[k]) \/ w[i].calls[k] \in D \ {x.callID}
  <2>1. CASE i \in 1..Len(v)
    <3>1. w[i] = v[i]
      BY <1>1, <2>1
    <3>2. Satisfied(v, i, v[i].calls[k]) \/ v[i].calls[k] \in D
      BY <2>1, <3>1 DEF AllBut
    <3>3. Satisfied(w, i, x.callID)
      BY <1>3, <1>6, <2>1
    <3>4. Satisfied(v, i, v[i].calls[k]) => Satisfied(w, i, v[i].calls[k])
      BY <1>2, <2>1
    <3> QED
      BY <3>1, <3>2, <3>3, <3>4
  <2>2. CASE i = Len(w)
    BY <1>1, <1>6, <2>2
  <2> QED
    BY <1>4, <2>1, <2>2
<1> QED
  BY <1>5, <1>6 DEF AllBut, w

\* Nothing open is what repairHistory leaves.
LEMMA NothingOpen ==
  ASSUME NEW v \in Seq(Messages)
  PROVE  /\ AllBut(v, {}) <=> Injected(v) = <<>>
         /\ Repaired(v) \in Seq(Messages) /\ AllBut(Repaired(v), {})
<1>1. \A w : AllBut(w, {}) <=> AllAnswered(w)
  BY DEF AllBut, AllAnswered
<1> QED
  BY <1>1, InjectedResults, RepairAnswers

-----------------------------------------------------------------------------
(* The invariant.                                                             *)

Before  == {"read", "repair", "perceive"}
Working == Before \union {"ask", "tool"}

Types ==
  /\ world \in Worlds
  /\ log \in [Sessions -> Seq(Messages)]
  /\ pc \in [Incoming -> Working \union {"end", "nil", "error"} \union Resting]
  /\ phase \in [Incoming -> {"assess", "offset", "run"}]
  /\ tries \in [Incoming -> Nat] /\ rounds \in [Incoming -> Nat]
  /\ injected \in [Incoming -> Seq(Results)]
  /\ view \in [Incoming -> Seq(Messages)] /\ fresh \in [Incoming -> Nat]
  /\ todo \in [Incoming -> Seq(Ids)]
  /\ effects \subseteq Ids

\* A message of attempt a that is to be recorded with the reply of round r.
Unsaid(a, r, x) ==
  /\ x.by = a
  /\ \/ x.role = "user" /\ r = 0
     \/ x.role = "tool" /\ x.callID \in Ids /\ x.callID[3] + 1 = r

\* One that may be on record before that reply.
Said(r, x) ==
  \/ x.role = "user" /\ r > 0
  \/ x.role = "assistant" /\ x.calls # <<>> /\ x.calls[1][3] < r
  \/ x.role = "tool" /\ x.callID \in Ids /\ x.callID[3] + 1 < r

OnRecord(s, id) == \E x \in Logged(s) : id \in ToSet(x.calls)

New(m) == (fresh[m] + 1)..Len(view[m])

\* Requests have no open calls but those whose tools are running now.
NoOpenCalls(m) ==
  /\ pc[m] \in {"ask", "repair"} => AllBut(view[m], {})
  /\ pc[m] = "tool" => todo[m] # <<>> /\ AllBut(view[m], ToSet(todo[m]))

\* A call still to run is of this round, on record, and has no result yet.
CallToRun(m, id) ==
  /\ id[1] = m /\ id[3] + 1 = rounds[m]
  /\ SessionOf[m] \notin disturbed => OnRecord(SessionOf[m], id)
  /\ \A i \in New(m) : view[m][i].callID # id

CallsToRun(m) ==
  pc[m] = "tool" =>
    /\ \A p, q \in DOMAIN todo[m] : todo[m][p] = todo[m][q] => p = q
    /\ \A id \in ToSet(todo[m]) : CallToRun(m, id)

\* What a turn has still to record is new, each message once.
ToRecord(m) ==
  pc[m] \in {"ask", "tool"} =>
    /\ fresh[m] <= Len(view[m])
    /\ \A i \in New(m) : Unsaid(Attempt(m), rounds[m], view[m][i])
    /\ \A i, j \in New(m) : view[m][i] = view[m][j] => i = j

\* What this attempt has put on record is of earlier rounds.
OfEarlierRounds(m) ==
  pc[m] \in Working =>
    \A x \in Logged(SessionOf[m]) : x.by = Attempt(m) => Said(rounds[m], x)

FirstRound(m) == pc[m] \in Before => rounds[m] = 0

Handler(m) ==
  NoOpenCalls(m) /\ CallsToRun(m) /\ ToRecord(m) /\ OfEarlierRounds(m) /\ FirstRound(m)

\* No attempt is on record that was not made.
AttemptsMade ==
  \A s \in Sessions : \A x \in Logged(s) : x.by # Nobody => x.by[2] <= tries[x.by[1]]

CInv ==
  /\ Types /\ AttemptsMade /\ (\A m \in Incoming : Handler(m))
  /\ CallsRecordedBeforeRun /\ RecordedOnce

-----------------------------------------------------------------------------
(* Lists of messages that grow.                                               *)

\* No message of an attempt is twice in l.
Once(l) == \A i, j \in DOMAIN l : l[i].by # Nobody /\ l[i] = l[j] => i = j

\* No attempt is Nobody.
LEMMA NobodyMakesNone == Nobody \notin Attempts
  BY DEF Nobody, Attempts

\* A longer list has the elements of both parts.
LEMMA Elements ==
  ASSUME NEW s \in Seq(Messages), NEW t \in Seq(Messages)
  PROVE  ToSet(s \o t) = ToSet(s) \union ToSet(t)
<1>1. /\ Len(s) \in Nat /\ Len(t) \in Nat /\ Len(s \o t) = Len(s) + Len(t)
      /\ \A i \in 1..Len(s) : (s \o t)[i] = s[i]
      /\ \A j \in 1..Len(t) : (s \o t)[Len(s) + j] = t[j]
      /\ s \o t \in Seq(Messages)
  BY Joined
<1>2. DOMAIN s = 1..Len(s) /\ DOMAIN t = 1..Len(t) /\ DOMAIN (s \o t) = 1..Len(s \o t)
  BY <1>1
<1>3. PICK u : u = s \o t
  OBVIOUS
<1>4. ASSUME NEW i \in 1..Len(u)
      PROVE  (\E j \in 1..Len(s) : u[i] = s[j]) \/ (\E j \in 1..Len(t) : u[i] = t[j])
  <2>1. CASE i <= Len(s)
    BY <1>1, <1>3, <2>1
  <2>2. CASE ~(i <= Len(s))
    <3>1. i - Len(s) \in 1..Len(t) /\ Len(s) + (i - Len(s)) = i
      BY <1>1, <1>3, <2>2
    <3>2. u[Len(s) + (i - Len(s))] = t[i - Len(s)]
      BY <1>1, <1>3, <3>1
    <3> QED
      BY <3>1, <3>2
  <2> QED
    BY <2>1, <2>2
<1>5. ASSUME NEW j \in 1..Len(s) PROVE j \in 1..Len(u) /\ u[j] = s[j]
  BY <1>1, <1>3
<1>6. ASSUME NEW j \in 1..Len(t) PROVE Len(s) + j \in 1..Len(u) /\ u[Len(s) + j] = t[j]
  BY <1>1, <1>3
<1>7. ToSet(u) \subseteq ToSet(s) \union ToSet(t)
  BY <1>2, <1>3, <1>4 DEF ToSet
<1>8. ToSet(s) \subseteq ToSet(u)
  BY <1>2, <1>3, <1>5 DEF ToSet
<1>9. ToSet(t) \subseteq ToSet(u)
  <2>1. \A j \in 1..Len(t) : t[j] \in ToSet(u)
    BY <1>2, <1>3, <1>6 DEF ToSet
  <2> QED
    BY <1>2, <2>1 DEF ToSet
<1> QED
  BY <1>3, <1>7, <1>8, <1>9

\* Two lists without repetition that share no message of an attempt have none
\* together.
LEMMA OnceGrows ==
  ASSUME NEW s \in Seq(Messages), NEW t \in Seq(Messages), Once(s), Once(t),
         \A x \in ToSet(s) : \A y \in ToSet(t) : y.by # Nobody => x # y
  PROVE  Once(s \o t)
<1>1. /\ Len(s) \in Nat /\ Len(t) \in Nat /\ Len(s \o t) = Len(s) + Len(t)
      /\ \A i \in 1..Len(s) : (s \o t)[i] = s[i]
      /\ \A j \in 1..Len(t) : (s \o t)[Len(s) + j] = t[j]
      /\ s \o t \in Seq(Messages)
  BY Joined
<1>2. DOMAIN s = 1..Len(s) /\ DOMAIN t = 1..Len(t) /\ DOMAIN (s \o t) = 1..Len(s \o t)
  BY <1>1
<1>3. PICK u : u = s \o t
  OBVIOUS
<1>4. \A i \in 1..Len(s) : \A j \in 1..Len(t) : t[j].by # Nobody => s[i] # t[j]
  BY <1>2 DEF ToSet
<1>5. ASSUME NEW i \in 1..Len(u), ~(i <= Len(s))
      PROVE  i - Len(s) \in 1..Len(t) /\ u[i] = t[i - Len(s)]
  <2>1. i - Len(s) \in 1..Len(t) /\ Len(s) + (i - Len(s)) = i
    BY <1>1, <1>3, <1>5
  <2>2. u[Len(s) + (i - Len(s))] = t[i - Len(s)]
    BY <1>1, <1>3, <2>1
  <2> QED
    BY <2>1, <2>2
<1>6. ASSUME NEW i \in 1..Len(u), NEW j \in 1..Len(u), u[i].by # Nobody, u[i] = u[j]
      PROVE  i = j
  <2>1. CASE i <= Len(s) /\ j <= Len(s)
    <3>1. i \in 1..Len(s) /\ j \in 1..Len(s) /\ u[i] = s[i] /\ u[j] = s[j]
      BY <1>1, <1>3, <2>1
    <3> QED
      BY <1>2, <1>6, <3>1 DEF Once
  <2>2. CASE ~(i <= Len(s)) /\ ~(j <= Len(s))
    <3>1. PICK a, b : a = i - Len(s) /\ b = j - Len(s)
      OBVIOUS
    <3>2. a \in 1..Len(t) /\ b \in 1..Len(t) /\ u[i] = t[a] /\ u[j] = t[b]
      BY <1>5, <2>2, <3>1
    <3>3. a = b
      BY <1>2, <1>6, <3>2 DEF Once
    <3> QED
      BY <1>1, <3>1, <3>3
  <2>3. CASE i <= Len(s) /\ ~(j <= Len(s))
    <3>1. i \in 1..Len(s) /\ u[i] = s[i]
      BY <1>1, <1>3, <2>3
    <3> QED
      BY <1>4, <1>5, <1>6, <2>3, <3>1
  <2>4. CASE ~(i <= Len(s)) /\ j <= Len(s)
    <3>1. j \in 1..Len(s) /\ u[j] = s[j]
      BY <1>1, <1>3, <2>4
    <3> QED
      BY <1>4, <1>5, <1>6, <2>4, <3>1
  <2> QED
    BY <2>1, <2>2, <2>3, <2>4
<1> QED
  BY <1>2, <1>3, <1>6 DEF Once

-----------------------------------------------------------------------------
(* What a step leaves as it is.                                               *)

\* What m does to the transcripts: messages of its attempt and synthetic results
\* come to them, nothing goes.
Grown(m) ==
  /\ log' \in [Sessions -> Seq(Messages)]
  /\ disturbed \subseteq disturbed'
  /\ \A s \in Sessions : ToSet(log[s]) \subseteq ToSet(log'[s])
  /\ \A s \in Sessions : \A x \in ToSet(log'[s]) :
       x \in ToSet(log[s]) \/ x.by = Attempt(m) \/ x.by = Nobody

\* A step that leaves the transcripts adds nothing to them.
LEMMA GrownByNothing ==
  ASSUME CInv, NEW m \in Incoming, log' = log, disturbed \subseteq disturbed'
  PROVE  Grown(m)
  BY DEF Grown, CInv, Types

\* AppendToLog, with what is appended made by nobody or this attempt.
LEMMA AppendGrows ==
  ASSUME CInv, NEW m \in Incoming, NEW t \in Seq(Messages),
         AppendToLog(SessionOf[m], t),
         \A x \in ToSet(t) : x.by = Attempt(m) \/ x.by = Nobody
  PROVE  /\ Grown(m)
         /\ SessionOf[m] \notin disturbed' => ToSet(t) \subseteq ToSet(log'[SessionOf[m]])
         /\ \/ log' = log
            \/ log' = [log EXCEPT ![SessionOf[m]] = @ \o t]
         /\ \A x \in ToSet(log'[SessionOf[m]]) :
              x \in ToSet(log[SessionOf[m]]) \/ x \in ToSet(t)
<1>1. SessionOf[m] \in Sessions /\ log \in [Sessions -> Seq(Messages)]
  BY DEF Sessions, CInv, Types
<1>2. CASE log' = log /\ StoreFails(SessionOf[m])
  <2>1. disturbed' = disturbed \union {SessionOf[m]}
    BY <1>2 DEF StoreFails
  <2>2. Grown(m)
    BY <1>2, <2>1, GrownByNothing
  <2> QED
    BY <1>2, <2>1, <2>2
<1>3. CASE log' = [log EXCEPT ![SessionOf[m]] = @ \o t] /\ StoreWorks
  <2>1. PICK s : s = SessionOf[m]
    OBVIOUS
  <2>2. PICK l : l = log[s] /\ l \in Seq(Messages)
    BY <1>1, <2>1
  <2>3. l \o t \in Seq(Messages) /\ ToSet(l \o t) = ToSet(l) \union ToSet(t)
    BY <2>2, Elements
  <2>4. log'[s] = l \o t /\ (\A z \in Sessions : z # s => log'[z] = log[z])
    BY <1>1, <1>3, <2>1, <2>2
  <2>5. log' \in [Sessions -> Seq(Messages)]
    BY <1>1, <1>3, <2>1, <2>2, <2>3
  <2>6. disturbed' = disturbed
    BY <1>3 DEF StoreWorks
  <2>7. \A z \in Sessions : ToSet(log[z]) \subseteq ToSet(log'[z])
    BY <2>2, <2>3, <2>4
  <2>8. \A z \in Sessions : \A x \in ToSet(log'[z]) : x \in ToSet(log[z]) \/ x \in ToSet(t)
    BY <2>2, <2>3, <2>4
  <2>9. Grown(m)
    BY <2>5, <2>6, <2>7, <2>8 DEF Grown
  <2> QED
    BY <1>1, <1>3, <2>1, <2>3, <2>4, <2>8, <2>9
<1> QED
  BY <1>2, <1>3 DEF AppendToLog

\* Calls on record stay there.
LEMMA RecordsStay ==
  ASSUME CInv, NEW m \in Incoming, Grown(m), NEW s \in Sessions, NEW id, OnRecord(s, id)
  PROVE  OnRecord(s, id)'
  BY DEF Grown, OnRecord, Logged

\* What holds of the transcripts when no attempt is new and no tool ran.
LEMMA TranscriptsStay ==
  ASSUME CInv, NEW m \in Incoming, Grown(m), effects' = effects,
         \A o \in Incoming : tries'[o] \in Nat /\ tries[o] <= tries'[o]
  PROVE  AttemptsMade' /\ CallsRecordedBeforeRun'
<1>1. ASSUME NEW s \in Sessions, NEW x \in ToSet(log'[s]), x.by # Nobody
      PROVE  x.by[2] <= tries'[x.by[1]]
  <2>1. log' \in [Sessions -> Seq(Messages)] /\ tries \in [Incoming -> Nat]
    BY DEF Grown, CInv, Types
  <2>2. CASE x.by = Attempt(m)
    <3>1. x.by[1] = m /\ x.by[2] = tries[m]
      BY <2>2 DEF Attempt
    <3> QED
      BY <3>1
  <2>3. CASE x \in ToSet(log[s])
    <3>1. x.by[2] <= tries[x.by[1]]
      BY <1>1, <2>3 DEF CInv, AttemptsMade, Logged
    <3>2. x \in Messages
      BY <2>3 DEF CInv, Types, ToSet
    <3>3. x.by \in Attempts
      BY <1>1, <3>2 DEF Messages
    <3>4. x.by[1] \in Incoming /\ x.by[2] \in Nat
      BY <3>3 DEF Attempts
    <3>5. PICK a, b, c, d : /\ a = tries[x.by[1]] /\ b = tries'[x.by[1]] /\ c = x.by[2]
                            /\ a \in Nat /\ b \in Nat /\ a <= b /\ d = x.by[1]
      BY <2>1, <3>4
    <3> QED
      BY <3>1, <3>4, <3>5
  <2> QED
    BY <1>1, <2>2, <2>3 DEF Grown
<1>2. ASSUME NEW id \in effects, SessionOf[id[1]] \notin disturbed'
      PROVE  OnRecord(SessionOf[id[1]], id)'
  <2>1. id[1] \in Incoming
    BY DEF CInv, Types, Ids
  <2>2. SessionOf[id[1]] \in Sessions
    BY <2>1 DEF Sessions
  <2>3. SessionOf[id[1]] \notin disturbed
    BY <1>2 DEF Grown
  <2>4. OnRecord(SessionOf[id[1]], id)
    BY <2>3 DEF CInv, CallsRecordedBeforeRun, OnRecord
  <2> QED
    BY <2>2, <2>4, RecordsStay
<1>3. AttemptsMade'
  BY <1>1 DEF AttemptsMade, Logged
<1>4. CallsRecordedBeforeRun'
  BY <1>2 DEF CallsRecordedBeforeRun, OnRecord
<1> QED
  BY <1>3, <1>4

\* RecordedOnce is about the transcripts only.
LEMMA RecordedOnceStays ==
  ASSUME CInv, log' = log
  PROVE  RecordedOnce'
  BY DEF CInv, RecordedOnce

\* A handler that is not under way has nothing to say.
LEMMA Rests ==
  ASSUME NEW m, pc'[m] \notin Working
  PROVE  Handler(m)'
  BY DEF Handler, NoOpenCalls, CallsToRun, ToRecord, OfEarlierRounds, FirstRound,
         Working, Before

\* Another handler does not notice.
Untouched(o) ==
  /\ pc'[o] = pc[o] /\ view'[o] = view[o] /\ fresh'[o] = fresh[o]
  /\ todo'[o] = todo[o] /\ rounds'[o] = rounds[o] /\ tries'[o] = tries[o]

\* What m does to the transcripts does not disturb the handler of another message.
LEMMA Others ==
  ASSUME CInv, NEW m \in Incoming, Grown(m), NEW o \in Incoming, o # m, Untouched(o)
  PROVE  Handler(o)'
<1>1. Handler(o) /\ Attempt(o)' = Attempt(o) /\ New(o)' = New(o)
  BY DEF CInv, Attempt, New, Untouched
<1>2. SessionOf[o] \in Sessions
  BY DEF Sessions
<1>3. NoOpenCalls(o)'
  BY <1>1 DEF Handler, NoOpenCalls, Untouched
<1>4. CallsToRun(o)'
  <2>1. ASSUME NEW id, CallToRun(o, id) PROVE CallToRun(o, id)'
    <3>1. SessionOf[o] \notin disturbed' => SessionOf[o] \notin disturbed
      BY DEF Grown
    <3>2. OnRecord(SessionOf[o], id) => OnRecord(SessionOf[o], id)'
      BY <1>2, RecordsStay
    <3> QED
      BY <1>1, <2>1, <3>1, <3>2 DEF CallToRun, Untouched
  <2> QED
    BY <1>1, <2>1 DEF Handler, CallsToRun, Untouched
<1>5. ToRecord(o)'
  BY <1>1 DEF Handler, ToRecord, Untouched
<1>6. OfEarlierRounds(o)'
  <2>1. SUFFICES ASSUME pc[o] \in Working, NEW x \in ToSet(log'[SessionOf[o]]),
                        x.by = Attempt(o)
                 PROVE  Said(rounds[o], x)
    BY <1>1 DEF OfEarlierRounds, Untouched, Logged
  <2>2. Attempt(o) # Attempt(m) /\ Attempt(o) \in Attempts
    BY DEF Attempt, Attempts, CInv, Types
  <2>3. x \in ToSet(log[SessionOf[o]])
    BY <1>2, <2>1, <2>2, NobodyMakesNone DEF Grown
  <2> QED
    BY <1>1, <2>1, <2>3 DEF Handler, OfEarlierRounds, Logged
<1>7. FirstRound(o)'
  BY <1>1 DEF Handler, FirstRound, Untouched
<1> QED
  BY <1>3, <1>4, <1>5, <1>6, <1>7 DEF Handler

-----------------------------------------------------------------------------
(* The steps of a handler.                                                    *)

\* A step of m keeps CInv if it keeps what is about m and about the transcripts.
LEMMA StepKeeps ==
  ASSUME CInv, NEW m \in Incoming, Grown(m), Types', AttemptsMade',
         CallsRecordedBeforeRun', RecordedOnce', Handler(m)',
         \A o \in Incoming : o # m => Untouched(o)
  PROVE  CInv'
<1>1. ASSUME NEW o \in Incoming PROVE Handler(o)'
  <2>1. CASE o = m
    BY <2>1
  <2>2. CASE o # m
    BY <2>2, Others
  <2> QED
    BY <2>1, <2>2
<1> QED
  BY <1>1 DEF CInv

\* The transcripts stay as they are.
LEMMA QuietStep ==
  ASSUME CInv, NEW m \in Incoming, log' = log, effects' = effects,
         disturbed \subseteq disturbed', Types', Handler(m)',
         \A o \in Incoming : tries[o] <= tries'[o],
         \A o \in Incoming : o # m => Untouched(o)
  PROVE  CInv'
<1>1. Grown(m)
  BY GrownByNothing
<1>2. AttemptsMade' /\ CallsRecordedBeforeRun'
  <2>1. \A o \in Incoming : tries'[o] \in Nat
    BY DEF Types
  <2> QED
    BY <1>1, <2>1, TranscriptsStay
<1> QED
  BY <1>1, <1>2, RecordedOnceStays, StepKeeps

\* A handler that ends, or is settled.
LEMMA Leaves ==
  ASSUME CInv, NEW m \in Incoming,
         NEW v \in {"end", "nil", "error"} \union Resting,
         pc' = [pc EXCEPT ![m] = v], disturbed \subseteq disturbed',
         UNCHANGED <<world, log, tries, phase, injected, view, fresh, todo, rounds, effects>>
  PROVE  CInv'
<1>1. Types'
  BY DEF CInv, Types
<1>2. pc'[m] = v /\ v \notin Working
  BY DEF CInv, Types, Working, Before, Resting
<1>3. Handler(m)'
  BY <1>2, Rests
<1>4. \A o \in Incoming : tries[o] <= tries'[o]
  BY DEF CInv, Types
<1>5. \A o \in Incoming : o # m => Untouched(o)
  BY DEF Untouched, CInv, Types
<1> QED
  BY <1>1, <1>3, <1>4, <1>5, QuietStep

\* A delivery begins an attempt of which nothing is on record (Deliver).
LEMMA DeliverKeeps ==
  ASSUME CInv, NEW m \in Incoming, Deliver(m)
  PROVE  CInv'
<1>1. Types'
  BY DEF CInv, Types, Deliver, Working, Before, Resting
<1>2. /\ pc'[m] = "read" /\ rounds'[m] = 0 /\ tries'[m] = tries[m] + 1 /\ log' = log
      /\ tries[m] \in Nat
  BY DEF CInv, Types, Deliver
<1>3. OfEarlierRounds(m)'
  <2>1. SUFFICES ASSUME NEW x \in ToSet(log[SessionOf[m]]), x.by = Attempt(m)' PROVE FALSE
    BY <1>2 DEF OfEarlierRounds, Logged
  <2>2. SessionOf[m] \in Sessions
    BY DEF Sessions
  <2>3. Attempt(m)' = <<m, tries[m] + 1>>
    BY <1>2 DEF Attempt
  <2>4. x.by # Nobody
    BY <2>1, <2>3 DEF Nobody
  <2>5. x.by[2] <= tries[x.by[1]]
    BY <2>1, <2>2, <2>4 DEF CInv, AttemptsMade, Logged
  <2> QED
    BY <1>2, <2>1, <2>3, <2>5
<1>4. Handler(m)'
  BY <1>2, <1>3 DEF Handler, NoOpenCalls, CallsToRun, ToRecord, FirstRound
<1>5. \A o \in Incoming : tries[o] <= tries'[o]
  BY DEF CInv, Types, Deliver
<1>6. \A o \in Incoming : o # m => Untouched(o)
  BY DEF Untouched, CInv, Types, Deliver
<1>7. log' = log /\ effects' = effects /\ disturbed \subseteq disturbed'
  BY DEF Deliver
<1> QED
  BY <1>1, <1>4, <1>5, <1>6, <1>7, QuietStep

\* The message of the user that begins a turn.
LEMMA UserMessageIs ==
  ASSUME NEW a \in Attempts
  PROVE  /\ UserMessage(a) \in Messages
         /\ UserMessage(a).by = a /\ UserMessage(a).role = "user"
         /\ UserMessage(a).calls = <<>>
<1>1. <<>> \in Seq(Ids)
  OBVIOUS
<1> QED
  BY <1>1 DEF UserMessage, Message, Messages

\* What follows a read, with and without a repair.
LEMMA AfterReadKeeps ==
  ASSUME CInv, NEW m \in Incoming, NEW h \in Seq(Messages), NEW ok \in BOOLEAN,
         pc[m] \in {"read", "repair"}, AllBut(h, {}), AfterRead(m, h, ok),
         UNCHANGED <<world, tries, todo, rounds, effects>>,
         injected' \in [Incoming -> Seq(Results)],
         Grown(m), RecordedOnce',
         \A x \in ToSet(log'[SessionOf[m]]) :
           x.by = Attempt(m) => x \in ToSet(log[SessionOf[m]])
  PROVE  CInv'
<1> DEFINE u == UserMessage(Attempt(m))
           w == Append(h, u)
<1>1. /\ pc \in [Incoming -> Working \union {"end", "nil", "error"} \union Resting]
      /\ phase \in [Incoming -> {"assess", "offset", "run"}]
      /\ tries \in [Incoming -> Nat] /\ rounds \in [Incoming -> Nat]
      /\ view \in [Incoming -> Seq(Messages)] /\ fresh \in [Incoming -> Nat]
  BY DEF CInv, Types
<1>2. Attempt(m) \in Attempts /\ u \in Messages /\ u.by = Attempt(m) /\ u.role = "user" /\ u.calls = <<>>
  <2>1. Attempt(m) \in Attempts
    BY <1>1 DEF Attempt, Attempts
  <2> QED
    BY <2>1, UserMessageIs
<1> HIDE DEF u
<1>3. w \in Seq(Messages) /\ Len(h) \in Nat /\ Len(w) = Len(h) + 1 /\ w[Len(h) + 1] = u
  BY <1>2
<1>4. AllBut(w, {})
  <2>1. AllBut(w, {} \union ToSet(u.calls))
    BY <1>2, AppendOpens
  <2>2. ToSet(u.calls) = {}
    BY <1>2 DEF ToSet
  <2> QED
    BY <2>1, <2>2
<1> HIDE DEF w
<1>5. /\ pc' = [pc EXCEPT ![m] = pc'[m]] /\ pc'[m] \in {"perceive", "error", "read", "ask"}
      /\ phase' = [phase EXCEPT ![m] = phase'[m]] /\ phase'[m] \in {"assess", "offset", "run"}
      /\ view' = [view EXCEPT ![m] = view'[m]] /\ fresh' = [fresh EXCEPT ![m] = fresh'[m]]
      /\ pc'[m] # "ask" => view'[m] = view[m] /\ fresh'[m] = fresh[m]
      /\ pc'[m] = "ask" => view'[m] = w /\ fresh'[m] = Len(h)
  <2>1. CASE phase[m] = "assess"
    <3>1. pc' = [pc EXCEPT ![m] = IF ok THEN "perceive" ELSE "error"]
          /\ UNCHANGED <<phase, view, fresh>>
      BY <2>1 DEF AfterRead
    <3> QED
      BY <1>1, <3>1
  <2>2. CASE phase[m] = "offset"
    <3>1. pc' = [pc EXCEPT ![m] = "read"] /\ phase' = [phase EXCEPT ![m] = "run"]
          /\ UNCHANGED <<view, fresh>>
      BY <2>2 DEF AfterRead
    <3> QED
      BY <1>1, <3>1
  <2>3. CASE phase[m] = "run"
    <3>1. /\ pc' = [pc EXCEPT ![m] = "ask"] /\ UNCHANGED phase
          /\ view' = [view EXCEPT ![m] = w] /\ fresh' = [fresh EXCEPT ![m] = Len(h)]
      BY <2>3 DEF AfterRead, StartOfNew, w, u
    <3> QED
      BY <1>1, <3>1
  <2> QED
    BY <1>1, <2>1, <2>2, <2>3
<1>6. Types'
  <2>1. view'[m] \in Seq(Messages) /\ fresh'[m] \in Nat
    BY <1>1, <1>3, <1>5
  <2>2. /\ view' \in [Incoming -> Seq(Messages)] /\ fresh' \in [Incoming -> Nat]
        /\ phase' \in [Incoming -> {"assess", "offset", "run"}]
    BY <1>1, <1>5, <2>1
  <2>3. pc' \in [Incoming -> Working \union {"end", "nil", "error"} \union Resting]
    BY <1>1, <1>5, SMTT(30) DEF Working, Before
  <2>4. log' \in [Sessions -> Seq(Messages)]
    BY DEF Grown
  <2> QED
    BY <2>2, <2>3, <2>4 DEF CInv, Types
<1>7. rounds[m] = 0 /\ pc[m] \in Working
  BY DEF CInv, Handler, FirstRound, Before, Working
<1>8. Attempt(m)' = Attempt(m) /\ rounds'[m] = 0
  BY <1>7 DEF Attempt
<1>9. Handler(m)'
  <2>1. NoOpenCalls(m)'
    BY <1>4, <1>5 DEF NoOpenCalls
  <2>2. CallsToRun(m)'
    BY <1>5 DEF CallsToRun
  <2>3. ToRecord(m)'
    <3>1. SUFFICES ASSUME pc'[m] = "ask" PROVE ToRecord(m)'
      BY <1>5 DEF ToRecord
    <3>2. view'[m] = w /\ fresh'[m] = Len(h)
      BY <1>5, <3>1
    <3>3. \A i \in New(m)' : i = Len(h) + 1
      BY <1>3, <3>2 DEF New
    <3>4. Unsaid(Attempt(m), 0, u)
      BY <1>2 DEF Unsaid
    <3>5. \A i \in New(m)' : Unsaid(Attempt(m)', rounds'[m], view'[m][i])
      BY <1>3, <1>8, <3>2, <3>3, <3>4
    <3>6. fresh'[m] <= Len(view'[m])
      BY <1>3, <3>2
    <3> QED
      BY <3>3, <3>5, <3>6 DEF ToRecord
  <2>4. OfEarlierRounds(m)'
    <3>1. \A x \in ToSet(log[SessionOf[m]]) : x.by = Attempt(m) => Said(rounds[m], x)
      BY <1>7 DEF CInv, Handler, OfEarlierRounds, Logged
    <3>2. \A x \in ToSet(log'[SessionOf[m]]) : x.by = Attempt(m) => Said(rounds[m], x)
      BY <3>1
    <3> QED
      BY <1>7, <1>8, <3>2 DEF OfEarlierRounds, Logged
  <2>5. FirstRound(m)'
    BY <1>8 DEF FirstRound
  <2> QED
    BY <2>1, <2>2, <2>3, <2>4, <2>5 DEF Handler
<1>10. \A o \in Incoming : o # m => Untouched(o)
  BY <1>1, <1>5 DEF Untouched
<1>11. AttemptsMade' /\ CallsRecordedBeforeRun'
  <2>1. \A o \in Incoming : tries'[o] \in Nat /\ tries[o] <= tries'[o]
    BY <1>1
  <2> QED
    BY <2>1, TranscriptsStay
<1> QED
  BY <1>6, <1>9, <1>10, <1>11, StepKeeps

\* What Messages gives has no open call, or is repaired first (Read).
LEMMA ReadKeeps ==
  ASSUME CInv, NEW m \in Incoming, Read(m)
  PROVE  CInv'
<1> DEFINE s == SessionOf[m]
           t == log[s]
<1>1. /\ pc[m] = "read" /\ s \in Sessions
      /\ UNCHANGED <<log, tries, todo, rounds, effects, world>>
  BY DEF Read, Sessions
<1>2. t \in Seq(Messages) /\ disturbed \subseteq disturbed'
  BY <1>1 DEF CInv, Types, Read, StoreWorks, StoreFails
<1>3. /\ Injected(t) \in Seq(Results)
      /\ AllBut(t, {}) <=> Injected(t) = <<>>
      /\ Repaired(t) \in Seq(Messages) /\ AllBut(Repaired(t), {})
  BY <1>2, InjectedResults, NothingOpen
<1>4. Grown(m) /\ RecordedOnce'
  BY <1>1, <1>2, GrownByNothing, RecordedOnceStays
<1>5. CASE AfterRead(m, t, TRUE) /\ Injected(t) = <<>> /\ injected' = injected
  <2>1. injected' \in [Incoming -> Seq(Results)]
    BY <1>5 DEF CInv, Types
  <2> QED
    BY <1>1, <1>2, <1>3, <1>4, <1>5, <2>1, AfterReadKeeps
<1>6. CASE AfterRead(m, <<>>, FALSE) /\ injected' = injected
  <2>1. injected' \in [Incoming -> Seq(Results)]
    BY <1>6 DEF CInv, Types
  <2>2. <<>> \in Seq(Messages) /\ AllBut(<<>>, {})
    BY DEF AllBut
  <2> QED
    BY <1>1, <1>4, <1>6, <2>1, <2>2, AfterReadKeeps
<1>7. CASE /\ injected' = [injected EXCEPT ![m] = Injected(t)]
           /\ view' = [view EXCEPT ![m] = Repaired(t)]
           /\ pc' = [pc EXCEPT ![m] = "repair"]
           /\ UNCHANGED <<phase, fresh>>
  <2> HIDE DEF t
  <2>1. Types'
    BY <1>1, <1>3, <1>7 DEF CInv, Types, Working, Before
  <2>2. pc'[m] = "repair" /\ view'[m] = Repaired(t) /\ rounds'[m] = 0
    BY <1>1, <1>7 DEF CInv, Types, Handler, FirstRound, Before
  <2>3. Handler(m)'
    <3>1. NoOpenCalls(m)'
      BY <1>3, <2>2 DEF NoOpenCalls
    <3>2. CallsToRun(m)' /\ ToRecord(m)' /\ FirstRound(m)'
      BY <2>2 DEF CallsToRun, ToRecord, FirstRound
    <3>3. OfEarlierRounds(m)'
      <4>1. \A x \in ToSet(log[s]) : x.by = Attempt(m) => Said(rounds[m], x)
        BY <1>1 DEF CInv, Handler, OfEarlierRounds, Logged, Working, Before
      <4>2. Attempt(m)' = Attempt(m)
        BY <1>1 DEF Attempt
      <4> QED
        BY <1>1, <4>1, <4>2 DEF OfEarlierRounds, Logged
    <3> QED
      BY <3>1, <3>2, <3>3 DEF Handler
  <2>4. \A o \in Incoming : o # m => Untouched(o)
    BY <1>1, <1>7 DEF Untouched, CInv, Types
  <2>5. \A o \in Incoming : tries[o] <= tries'[o]
    BY <1>1 DEF CInv, Types
  <2> QED
    BY <1>1, <1>2, <2>1, <2>3, <2>4, <2>5, QuietStep
<1> QED
  BY <1>5, <1>6, <1>7 DEF Read, Transcript

\* The synthetic results recorded belong to no attempt (Repair).
LEMMA RepairKeeps ==
  ASSUME CInv, NEW m \in Incoming, Repair(m)
  PROVE  CInv'
<1> DEFINE s == SessionOf[m]
<1>1. /\ pc[m] = "repair" /\ s \in Sessions
      /\ UNCHANGED <<tries, todo, rounds, effects, world>>
      /\ injected' = [injected EXCEPT ![m] = <<>>]
      /\ AppendToLog(s, injected[m]) /\ AfterRead(m, view[m], TRUE)
  BY DEF Repair, Sessions
<1>2. injected[m] \in Seq(Results) /\ view[m] \in Seq(Messages) /\ AllBut(view[m], {})
  BY <1>1 DEF CInv, Types, Handler, NoOpenCalls
<1>3. injected' \in [Incoming -> Seq(Results)]
  BY <1>1 DEF CInv, Types
<1>4. PICK t \in Seq(Messages) : t = injected[m] /\ \A x \in ToSet(t) : x.by = Nobody
  <2>1. injected[m] \in Seq(Messages)
    BY <1>2 DEF Results
  <2>2. \A x \in ToSet(injected[m]) : x \in Results
    BY <1>2 DEF ToSet
  <2> QED
    BY <2>1, <2>2 DEF Results
<1>5. /\ Grown(m)
      /\ log' = log \/ log' = [log EXCEPT ![s] = @ \o t]
      /\ \A x \in ToSet(log'[s]) : x \in ToSet(log[s]) \/ x \in ToSet(t)
  BY <1>1, <1>4, AppendGrows
<1>6. \A x \in ToSet(log'[s]) : x.by = Attempt(m) => x \in ToSet(log[s])
  <2>1. Attempt(m) \in Attempts
    BY DEF CInv, Types, Attempt, Attempts
  <2> QED
    BY <1>4, <1>5, <2>1, NobodyMakesNone
<1>7. RecordedOnce'
  <2>1. CASE log' = log
    BY <2>1, RecordedOnceStays
  <2>2. CASE log' = [log EXCEPT ![s] = @ \o t]
    <3>1. log \in [Sessions -> Seq(Messages)] /\ \A z \in Sessions : Once(log[z])
      BY DEF CInv, Types, RecordedOnce, Once
    <3>2. PICK l : l = log[s] /\ l \in Seq(Messages) /\ Once(l)
      BY <1>1, <3>1
    <3>3. Once(t)
      BY <1>4 DEF Once, ToSet
    <3>4. Once(l \o t)
      BY <1>4, <3>2, <3>3, OnceGrows
    <3>5. \A z \in Sessions : log'[z] = IF z = s THEN l \o t ELSE log[z]
      BY <2>2, <3>1, <3>2
    <3>6. \A z \in Sessions : Once(log'[z])
      BY <3>1, <3>4, <3>5
    <3> QED
      BY <3>6 DEF RecordedOnce, Once
  <2> QED
    BY <1>5, <2>1, <2>2
<1> QED
  BY <1>1, <1>2, <1>3, <1>5, <1>6, <1>7, AfterReadKeeps

-----------------------------------------------------------------------------
(* A reply and what is put on record for it.                                  *)

\* A reply that asks for tools has a call (the clients' finish reasons).
LEMMA ReplyKinds ==
  ASSUME CInv, NEW v, NEW r \in Replies(world.provider, v, ReplyTool, world.calls)
  PROVE  /\ r.text \in BOOLEAN /\ r.calls \in Nat
         /\ r.finish = "tool_calls" => r.calls > 0
<1>1. world.calls \in Nat
  BY ConversationAssumption DEF CInv, Types
<1>2. CASE world.provider = "echo"
  <2>1. r = EchoReply(v, ReplyTool)
    BY <1>2 DEF Replies
  <2> QED
    BY <2>1 DEF EchoReply
<1>3. CASE world.provider # "echo"
  <2> DEFINE W == DOMAIN (IF world.provider = "openai" THEN OpenAIFinish ELSE AnthropicFinish)
             F(why) == FinishReason(world.provider, why)
  <2>0. r \in {[finish |-> F(why), text |-> t, calls |-> n] :
                 why \in W, t \in BOOLEAN, n \in 0..world.calls}
    BY <1>3 DEF Replies
  <2> HIDE DEF W, F
  <2>1. PICK why \in W, t \in BOOLEAN, n \in 0..world.calls :
          r = [finish |-> F(why), text |-> t, calls |-> n]
    BY <2>0
  <2>2. r.finish = "tool_calls" => r.calls > 0
    BY <1>3 DEF Replies
  <2> QED
    BY <1>1, <2>1, <2>2
<1> QED
  BY <1>2, <1>3

\* The reply as a message: its calls are new, and of this round.
LEMMA ReplyIs ==
  ASSUME CInv, NEW m \in Incoming, NEW n \in Nat, NEW t \in BOOLEAN,
         NEW cs, cs = CallIDs(m, n),
         NEW x, x = AssistantMessage(t, cs, Attempt(m))
  PROVE  /\ cs \in Seq(Ids) /\ Len(cs) = n
         /\ \A i \in 1..n : cs[i][1] = m /\ cs[i][3] = rounds[m]
         /\ \A i, j \in 1..n : cs[i] = cs[j] => i = j
         /\ x \in Messages /\ x.role = "assistant" /\ x.calls = cs /\ x.text = t
         /\ x.by = Attempt(m) /\ Attempt(m) \in Attempts
<1>1. tries[m] \in Nat /\ rounds[m] \in Nat /\ Attempt(m) \in Attempts
  BY DEF CInv, Types, Attempt, Attempts
<1>2. cs = [i \in 1..n |-> <<m, tries[m], rounds[m], i>>]
  BY DEF CallIDs
<1>3. \A i \in 1..n : <<m, tries[m], rounds[m], i>> \in Ids
  BY <1>1 DEF Ids
<1>4. cs \in Seq(Ids) /\ Len(cs) = n
  <2>1. cs \in [1..n -> Ids]
    BY <1>2, <1>3
  <2> QED
    BY <2>1
<1>5. /\ \A i \in 1..n : cs[i][1] = m /\ cs[i][3] = rounds[m]
      /\ \A i, j \in 1..n : cs[i] = cs[j] => i = j
  BY <1>2
<1>6. x \in Messages /\ x.role = "assistant" /\ x.calls = cs /\ x.text = t /\ x.by = Attempt(m)
  BY <1>1, <1>4 DEF AssistantMessage, Message, Messages
<1> QED
  BY <1>1, <1>4, <1>5, <1>6

\* What is recorded with a reply: of this attempt, each message once; the reply
\* itself, and what is new of the request.
LEMMA ExchangeIs ==
  ASSUME CInv, NEW m \in Incoming, pc[m] = "ask",
         NEW x \in Messages, x.role = "assistant", x.by = Attempt(m),
         NEW e, e = Exchange(m, x)
  PROVE  /\ e \in Seq(Messages) /\ Once(e)
         /\ \A y \in ToSet(e) : /\ y.by = Attempt(m)
                                /\ y = x \/ Unsaid(Attempt(m), rounds[m], y)
         /\ x.calls # <<>> => x \in ToSet(e)
<1>1. view[m] \in Seq(Messages) /\ fresh[m] \in Nat
  BY DEF CInv, Types
<1>2. /\ fresh[m] <= Len(view[m])
      /\ \A i \in New(m) : Unsaid(Attempt(m), rounds[m], view[m][i])
      /\ \A i, j \in New(m) : view[m][i] = view[m][j] => i = j
  BY DEF CInv, Handler, ToRecord
<1>3. PICK v, f : v = view[m] /\ f = fresh[m] /\ v \in Seq(Messages) /\ f \in Nat /\ f <= Len(v)
  BY <1>1, <1>2
<1> DEFINE new == SubSeq(v, f + 1, Len(v))
<1>4. /\ new \in Seq(Messages) /\ Len(new) = Len(v) - f
      /\ \A i \in 1..Len(new) : new[i] = v[f + i]
      /\ DOMAIN new = 1..Len(new) /\ Len(v) \in Nat
  <2>1. PICK n \in Nat : n = Len(v) /\ n = Len(v) - f + f
    BY <1>3
  <2>2. f + 1 \in Int /\ n \in Int /\ \A i \in (f + 1)..n : v[i] \in Messages
    BY <1>3, <2>1, SMTT(30)
  <2>3. /\ SubSeq(v, f + 1, n) \in Seq(Messages)
        /\ Len(SubSeq(v, f + 1, n)) = IF f + 1 <= n THEN n - (f + 1) + 1 ELSE 0
        /\ \A i \in 1..(n - (f + 1) + 1) : SubSeq(v, f + 1, n)[i] = v[(f + 1) + i - 1]
    BY ONLY <2>2, SubSeqProperties
  <2>4. new = SubSeq(v, f + 1, n)
    BY <2>1
  <2> HIDE DEF new
  <2>5. new \in Seq(Messages)
    BY <2>3, <2>4
  <2>6. Len(new) = IF f + 1 <= n THEN n - (f + 1) + 1 ELSE 0
    BY ONLY <2>3, <2>4, Zenon
  <2>7. Len(new) = n - f
    BY <1>3, <2>1, <2>6
  <2>8. ASSUME NEW i \in 1..Len(new) PROVE new[i] = v[f + i]
    <3>0. f \in Nat /\ n \in Nat /\ i \in 1..(n - f)
      BY <1>3, <2>7
    <3>1. i \in 1..(n - (f + 1) + 1) /\ (f + 1) + i - 1 = f + i
      BY ONLY <3>0
    <3>2. SubSeq(v, f + 1, n)[i] = v[(f + 1) + i - 1]
      BY ONLY <2>3, <3>1, Zenon
    <3> QED
      BY ONLY <2>4, <3>1, <3>2, Zenon
  <2> QED
    BY <2>1, <2>5, <2>7, <2>8
<1>5. \A i \in 1..Len(new) : f + i \in New(m)
  <2> HIDE DEF new
  <2> QED
    BY <1>3, <1>4 DEF New
<1> HIDE DEF new
<1>6. \A i \in 1..Len(new) : Unsaid(Attempt(m), rounds[m], new[i])
  BY <1>2, <1>3, <1>4, <1>5
<1>7. Once(new)
  <2>1. ASSUME NEW i \in 1..Len(new), NEW j \in 1..Len(new), new[i] = new[j] PROVE i = j
    <3>1. f + i = f + j
      BY <1>2, <1>3, <1>4, <1>5, <2>1
    <3> QED
      BY <1>3, <3>1
  <2> QED
    BY <1>4, <2>1 DEF Once
<1>8. \A y \in ToSet(new) : Unsaid(Attempt(m), rounds[m], y)
  BY <1>4, <1>6 DEF ToSet
<1>9. PICK w : w = IF x.text \/ x.calls # <<>> THEN <<x>> ELSE <<>>
  OBVIOUS
<1>10. e = new \o w
  BY <1>3, <1>9 DEF Exchange, new
<1>11. w \in Seq(Messages) /\ Once(w) /\ ToSet(w) \subseteq {x} /\ (x.calls # <<>> => x \in ToSet(w))
  <2>1. CASE w = <<x>>
    BY <2>1 DEF Once, ToSet
  <2>2. CASE w = <<>> /\ x.calls = <<>>
    BY <2>2 DEF Once, ToSet
  <2> QED
    BY <1>9, <2>1, <2>2
<1>12. e \in Seq(Messages) /\ ToSet(e) = ToSet(new) \union ToSet(w)
  <2>1. new \o w \in Seq(Messages)
    BY <1>4, <1>11
  <2> QED
    BY <1>4, <1>10, <1>11, <2>1, Elements
<1>13. \A y \in ToSet(new) : y # x /\ y.by = Attempt(m)
  BY <1>8 DEF Unsaid
<1>14. Once(e)
  <2>1. \A a \in ToSet(new) : \A b \in ToSet(w) : b.by # Nobody => a # b
    BY <1>11, <1>13
  <2> QED
    BY <1>4, <1>7, <1>10, <1>11, <2>1, OnceGrows
<1> QED
  BY <1>8, <1>11, <1>12, <1>13, <1>14

\* What was on record stays of earlier rounds in the next one; what is recorded
\* with the reply of a round is then too.
LEMMA SaidLater ==
  ASSUME NEW r \in Nat, NEW a, NEW x \in Messages
  PROVE  /\ Said(r, x) => Said(r + 1, x)
         /\ Unsaid(a, r, x) => Said(r + 1, x) /\ ~Said(r, x)
<1>1. x.callID \in Ids => x.callID[3] \in Nat
  BY DEF Ids
<1>2. x.calls # <<>> => x.calls[1][3] \in Nat
  <2>1. x.calls \in Seq(Ids)
    BY DEF Messages
  <2>2. x.calls # <<>> => x.calls[1] \in Ids
    BY <2>1
  <2> QED
    BY <2>2 DEF Ids
<1>3. PICK c, d : c = x.callID[3] /\ d = x.calls[1][3]
  OBVIOUS
<1>4. Said(r, x) => Said(r + 1, x)
  BY <1>1, <1>2, <1>3 DEF Said
<1>5. Unsaid(a, r, x) => Said(r + 1, x) /\ ~Said(r, x)
  BY <1>1, <1>3 DEF Said, Unsaid
<1> QED
  BY <1>4, <1>5

\* The exchange recorded with a reply is new, and is the record of its calls (Ask).
LEMMA AskKeeps ==
  ASSUME CInv, NEW m \in Incoming, Ask(m)
  PROVE  CInv'
<1> DEFINE s == SessionOf[m]
<1>1. PICK r \in Replies(world.provider, view[m], ReplyTool, world.calls) : Answered(m, r)
  BY DEF Ask
<1>2. /\ pc[m] = "ask" /\ s \in Sessions
      /\ UNCHANGED <<world, tries, phase, injected, effects>>
  BY DEF Ask, Sessions
<1>3. /\ r.text \in BOOLEAN /\ r.calls \in Nat
      /\ r.finish = "tool_calls" => r.calls > 0
  BY ReplyKinds
<1>4. PICK n, cs, x, e :
        /\ n = r.calls /\ n \in Nat /\ cs = CallIDs(m, n)
        /\ x = AssistantMessage(r.text, cs, Attempt(m)) /\ e = Exchange(m, x)
  BY <1>3
<1>5. /\ cs \in Seq(Ids) /\ Len(cs) = n
      /\ \A i \in 1..n : cs[i][1] = m /\ cs[i][3] = rounds[m]
      /\ \A i, j \in 1..n : cs[i] = cs[j] => i = j
      /\ x \in Messages /\ x.role = "assistant" /\ x.calls = cs /\ x.by = Attempt(m)
      /\ Attempt(m) \in Attempts
  <2>1. PICK t \in BOOLEAN : t = r.text
    BY <1>3
  <2>2. n \in Nat /\ cs = CallIDs(m, n) /\ x = AssistantMessage(t, cs, Attempt(m))
    BY <1>4, <2>1
  <2> QED
    BY ONLY CInv, m \in Incoming, <2>2, t \in BOOLEAN, ReplyIs, SMTT(30)
<1>6. /\ e \in Seq(Messages) /\ Once(e)
      /\ \A y \in ToSet(e) : /\ y.by = Attempt(m)
                             /\ y = x \/ Unsaid(Attempt(m), rounds[m], y)
      /\ x.calls # <<>> => x \in ToSet(e)
  BY <1>2, <1>4, <1>5, ExchangeIs
<1>7. /\ AppendToLog(s, e)
      /\ rounds' = [rounds EXCEPT ![m] = @ + 1]
      /\ \/ /\ pc' = [pc EXCEPT ![m] = "end"] \/ pc' = [pc EXCEPT ![m] = "error"]
            /\ UNCHANGED <<view, fresh, todo>>
         \/ /\ r.finish = "tool_calls"
            /\ view' = [view EXCEPT ![m] = Append(@, x)]
            /\ fresh' = [fresh EXCEPT ![m] = Len(view[m]) + 1]
            /\ todo' = [todo EXCEPT ![m] = cs]
            /\ pc' = [pc EXCEPT ![m] = IF n = 0 THEN "ask"
                                       ELSE IF ReplyTool THEN "tool" ELSE "error"]
  <2>1. x.calls = cs
    BY <1>5
  <2> QED
    BY <1>1, <1>4, <2>1 DEF Answered, NextStart
<1>8. /\ Grown(m)
      /\ s \notin disturbed' => ToSet(e) \subseteq ToSet(log'[s])
      /\ log' = log \/ log' = [log EXCEPT ![s] = @ \o e]
      /\ \A y \in ToSet(log'[s]) : y \in ToSet(log[s]) \/ y \in ToSet(e)
  BY <1>6, <1>7, AppendGrows
<1>9. /\ rounds[m] \in Nat /\ view[m] \in Seq(Messages) /\ rounds'[m] = rounds[m] + 1
      /\ log \in [Sessions -> Seq(Messages)]
  BY <1>7 DEF CInv, Types
<1>10. \A y \in ToSet(log[s]) : y \in Messages /\ (y.by = Attempt(m) => Said(rounds[m], y))
  <2>1. \A y \in ToSet(log[s]) : y.by = Attempt(m) => Said(rounds[m], y)
    BY <1>2 DEF CInv, Handler, OfEarlierRounds, Logged, Working
  <2> QED
    BY <1>2, <1>9, <2>1 DEF ToSet
<1>11. \A y \in ToSet(e) : y \in Messages
  BY <1>6 DEF ToSet
<1>12. RecordedOnce'
  <2>1. CASE log' = log
    BY <2>1, RecordedOnceStays
  <2>2. CASE log' = [log EXCEPT ![s] = @ \o e]
    <3>1. \A z \in Sessions : Once(log[z])
      BY DEF CInv, RecordedOnce, Once
    <3>2. PICK l : l = log[s] /\ l \in Seq(Messages) /\ Once(l)
      BY <1>2, <1>9, <3>1
    <3>3. ASSUME NEW a \in ToSet(l), NEW b \in ToSet(e), a = b PROVE FALSE
      <4>1. a.by = Attempt(m) /\ Said(rounds[m], a)
        BY <1>6, <1>10, <3>2, <3>3
      <4>2. CASE b = x
        <5>1. a.calls = cs /\ a.role = "assistant"
          BY <1>5, <3>3, <4>2
        <5>2. cs # <<>> /\ cs[1][3] < rounds[m]
          BY <4>1, <5>1 DEF Said
        <5>3. 1 \in 1..n
          BY <1>5, <5>2
        <5>4. cs[1][3] = rounds[m]
          BY <1>5, <5>3
        <5> QED
          BY <1>9, <5>2, <5>4
      <4>3. CASE Unsaid(Attempt(m), rounds[m], b)
        BY <1>9, <1>11, <3>3, <4>1, <4>3, SaidLater
      <4> QED
        BY <1>6, <4>2, <4>3
    <3>4. Once(l \o e)
      BY <1>6, <3>2, <3>3, OnceGrows
    <3>5. \A z \in Sessions : log'[z] = IF z = s THEN l \o e ELSE log[z]
      BY <1>9, <2>2, <3>2
    <3>6. \A z \in Sessions : Once(log'[z])
      BY <3>1, <3>4, <3>5
    <3> QED
      BY <3>6 DEF RecordedOnce, Once
  <2> QED
    BY <1>8, <2>1, <2>2
<1>13. AttemptsMade' /\ CallsRecordedBeforeRun'
  <2>1. \A o \in Incoming : tries'[o] \in Nat /\ tries[o] <= tries'[o]
    BY <1>2 DEF CInv, Types
  <2> QED
    BY <1>2, <1>8, <2>1, TranscriptsStay
<1>14. Types'
  <2>1. log' \in [Sessions -> Seq(Messages)]
    BY <1>8 DEF Grown
  <2>2. Append(view[m], x) \in Seq(Messages) /\ Len(view[m]) + 1 \in Nat
    BY <1>5, <1>9
  <2>3. /\ view' \in [Incoming -> Seq(Messages)] /\ fresh' \in [Incoming -> Nat]
        /\ todo' \in [Incoming -> Seq(Ids)]
    <3>1. /\ view \in [Incoming -> Seq(Messages)] /\ fresh \in [Incoming -> Nat]
          /\ todo \in [Incoming -> Seq(Ids)]
      BY DEF CInv, Types
    <3>2. CASE UNCHANGED <<view, fresh, todo>>
      BY <3>1, <3>2
    <3>3. CASE /\ view' = [view EXCEPT ![m] = Append(view[m], x)]
               /\ fresh' = [fresh EXCEPT ![m] = Len(view[m]) + 1]
               /\ todo' = [todo EXCEPT ![m] = cs]
      BY <1>5, <2>2, <3>1, <3>3
    <3> QED
      BY <1>7, <3>2, <3>3
  <2>4. rounds' \in [Incoming -> Nat]
    BY <1>7 DEF CInv, Types
  <2>5. pc' \in [Incoming -> Working \union {"end", "nil", "error"} \union Resting]
    BY <1>7 DEF CInv, Types, Working
  <2> QED
    BY <1>2, <2>1, <2>3, <2>4, <2>5 DEF CInv, Types
<1>15. \A o \in Incoming : o # m => Untouched(o)
  BY <1>2, <1>7 DEF Untouched, CInv, Types
<1>16. Handler(m)'
  <2>1. CASE pc'[m] \notin Working
    BY <2>1, Rests
  <2>2. CASE pc'[m] \in Working
    <3>1. /\ n > 0 /\ view'[m] = Append(view[m], x) /\ fresh'[m] = Len(view[m]) + 1
          /\ todo'[m] = cs /\ pc'[m] = "tool"
      BY <1>3, <1>4, <1>7, <2>2 DEF CInv, Types, Working, Before
    <3>2. cs # <<>>
      BY <1>5, <3>1
    <3>3. AllBut(Append(view[m], x), ToSet(cs))
      <4>1. AllBut(view[m], {})
        BY <1>2 DEF CInv, Handler, NoOpenCalls
      <4>2. AllBut(Append(view[m], x), {} \union ToSet(x.calls))
        BY <1>5, <1>9, <4>1, AppendOpens
      <4> QED
        BY <1>5, <4>2
    <3>4. NoOpenCalls(m)'
      BY <3>1, <3>2, <3>3 DEF NoOpenCalls
    <3>5. \A i \in New(m)' : FALSE
      <4>1. Len(view'[m]) = Len(view[m]) + 1 /\ Len(view[m]) \in Nat
        BY <1>5, <1>9, <3>1
      <4> QED
        BY <3>1, <4>1 DEF New
    <3>6. Attempt(m)' = Attempt(m)
      BY <1>2 DEF Attempt
    <3>7. ToRecord(m)'
      <4>1. fresh'[m] <= Len(view'[m])
        <5>1. Len(Append(view[m], x)) = Len(view[m]) + 1 /\ Len(view[m]) \in Nat
          BY <1>5, <1>9
        <5> QED
          BY <3>1, <5>1
      <4> QED
        BY <3>5, <4>1 DEF ToRecord
    <3>8. CallsToRun(m)'
      <4>1. \A p, q \in DOMAIN cs : cs[p] = cs[q] => p = q
        BY <1>5
      <4>2. ASSUME NEW id \in ToSet(cs) PROVE CallToRun(m, id)'
        <5>1. id[1] = m /\ id[3] = rounds[m]
          BY <1>5, <4>2 DEF ToSet
        <5>2. s \notin disturbed' => x \in ToSet(log'[s])
          BY <1>5, <1>6, <1>8, <3>2
        <5>3. s \notin disturbed' => OnRecord(s, id)'
          BY <1>5, <4>2, <5>2 DEF OnRecord, Logged
        <5> QED
          BY <1>9, <3>5, <5>1, <5>3 DEF CallToRun
      <4> QED
        BY <3>1, <4>1, <4>2 DEF CallsToRun
    <3>9. OfEarlierRounds(m)'
      <4>1. ASSUME NEW y \in ToSet(log'[s]), y.by = Attempt(m) PROVE Said(rounds[m] + 1, y)
        <5>1. CASE y \in ToSet(log[s])
          BY <1>9, <1>10, <4>1, <5>1, SaidLater
        <5>2. CASE y \in ToSet(e) /\ Unsaid(Attempt(m), rounds[m], y)
          BY <1>9, <1>11, <5>2, SaidLater
        <5>3. CASE y = x
          <6>1. 1 \in 1..n
            BY <3>1, <1>4
          <6>2. x.calls[1][3] = rounds[m] /\ x.calls # <<>>
            BY <1>5, <3>2, <6>1
          <6> QED
            BY <1>5, <1>9, <5>3, <6>2 DEF Said
        <5> QED
          BY <1>6, <1>8, <4>1, <5>1, <5>2, <5>3
      <4> QED
        BY <1>9, <3>6, <4>1 DEF OfEarlierRounds, Logged
    <3>10. FirstRound(m)'
      BY <3>1 DEF FirstRound, Before
    <3> QED
      BY <3>4, <3>7, <3>8, <3>9, <3>10 DEF Handler
  <2> QED
    BY <2>1, <2>2
<1> QED
  BY <1>8, <1>12, <1>13, <1>14, <1>15, <1>16, StepKeeps

\* The result of a tool call, as a message of the turn.
LEMMA ResultIs ==
  ASSUME NEW a \in Attempts, NEW id \in Ids, NEW y, y = ToolResultMessage(id, a)
  PROVE  y \in Messages /\ y.role = "tool" /\ y.calls = <<>> /\ y.callID = id /\ y.by = a
<1>1. <<>> \in Seq(Ids)
  OBVIOUS
<1> QED
  BY <1>1 DEF ToolResultMessage, Message, Messages

\* The calls left when the first has run.
LEMMA TailOf ==
  ASSUME NEW q \in Seq(Ids), q # <<>>,
         \A i, j \in DOMAIN q : q[i] = q[j] => i = j
  PROVE  /\ Head(q) \in ToSet(q) /\ Head(q) \in Ids
         /\ Tail(q) \in Seq(Ids) /\ (Len(q) # 1 => Tail(q) # <<>>)
         /\ ToSet(Tail(q)) = ToSet(q) \ {Head(q)}
         /\ Len(q) = 1 => ToSet(q) = {Head(q)}
         /\ \A i, j \in DOMAIN Tail(q) : Tail(q)[i] = Tail(q)[j] => i = j
<1>1. PICK n \in Nat : n = Len(q) /\ n > 0 /\ DOMAIN q = 1..n
  OBVIOUS
<1>2. PICK t : t = Tail(q)
  OBVIOUS
<1>3. /\ t \in Seq(Ids) /\ Len(t) = n - 1 /\ DOMAIN t = 1..(n - 1)
      /\ \A i \in 1..(n - 1) : t[i] = q[i + 1]
  BY <1>1, <1>2
<1>4. Head(q) = q[1] /\ 1 \in DOMAIN q
  BY <1>1
<1>5. Head(q) \in ToSet(q) /\ Head(q) \in Ids
  BY <1>4 DEF ToSet
<1>6. ASSUME NEW i \in 1..(n - 1) PROVE t[i] \in ToSet(q) /\ t[i] # Head(q)
  <2>1. i + 1 \in DOMAIN q /\ t[i] = q[i + 1] /\ i + 1 # 1
    BY <1>1, <1>3
  <2> QED
    BY <1>4, <2>1 DEF ToSet
<1>7. ASSUME NEW i \in 1..n, q[i] # Head(q) PROVE q[i] \in ToSet(t)
  <2>1. i # 1
    BY <1>4, <1>7
  <2>2. i - 1 \in 1..(n - 1) /\ (i - 1) + 1 = i
    BY <2>1
  <2>3. t[i - 1] = q[i]
    BY <1>3, <2>2
  <2> QED
    BY <1>3, <2>2, <2>3 DEF ToSet
<1>8. ToSet(t) \subseteq ToSet(q) \ {Head(q)}
  BY <1>3, <1>6 DEF ToSet
<1>9. ToSet(q) \ {Head(q)} \subseteq ToSet(t)
  BY <1>1, <1>7 DEF ToSet
<1>10. ASSUME n = 1 PROVE ToSet(q) = {Head(q)}
  BY <1>1, <1>4, <1>10 DEF ToSet
<1>11. ASSUME NEW i \in 1..(n - 1), NEW j \in 1..(n - 1), t[i] = t[j] PROVE i = j
  <2>1. i + 1 \in DOMAIN q /\ j + 1 \in DOMAIN q /\ q[i + 1] = q[j + 1]
    BY <1>1, <1>3, <1>11
  <2>2. i + 1 = j + 1
    BY <2>1
  <2> QED
    BY <2>2
<1>12. n # 1 => t # <<>>
  BY <1>1, <1>3
<1> QED
  BY <1>1, <1>2, <1>3, <1>5, <1>8, <1>9, <1>10, <1>11, <1>12

\* A result closes its call and is one message more to record (RunTool).
LEMMA RunToolKeeps ==
  ASSUME CInv, NEW m \in Incoming, RunTool(m)
  PROVE  CInv'
<1>1. PICK s, q, v, f, a :
        s = SessionOf[m] /\ q = todo[m] /\ v = view[m] /\ f = fresh[m] /\ a = Attempt(m)
  OBVIOUS
<1>2. /\ v \in Seq(Messages) /\ q \in Seq(Ids) /\ f \in Nat /\ a \in Attempts
      /\ s \in Sessions /\ rounds[m] \in Nat /\ pc[m] = "tool"
      /\ UNCHANGED <<log, tries, fresh, rounds, world, phase, injected, disturbed>>
  BY <1>1 DEF CInv, Types, Sessions, Attempt, Attempts, RunTool
<1>3. q # <<>> /\ AllBut(v, ToSet(q)) /\ (\A i, j \in DOMAIN q : q[i] = q[j] => i = j)
      /\ \A id \in ToSet(q) : CallToRun(m, id)
  BY <1>1, <1>2 DEF CInv, Handler, NoOpenCalls, CallsToRun
<1>4. PICK id, t : id = Head(q) /\ t = Tail(q)
  OBVIOUS
<1>5. /\ id \in ToSet(q) /\ id \in Ids
      /\ t \in Seq(Ids) /\ (Len(q) # 1 => t # <<>>)
      /\ ToSet(t) = ToSet(q) \ {id}
      /\ Len(q) = 1 => ToSet(q) = {id}
      /\ \A i, j \in DOMAIN t : t[i] = t[j] => i = j
  <2>1. /\ Head(q) \in ToSet(q) /\ Head(q) \in Ids
        /\ Tail(q) \in Seq(Ids) /\ (Len(q) # 1 => Tail(q) # <<>>)
        /\ ToSet(Tail(q)) = ToSet(q) \ {Head(q)}
        /\ Len(q) = 1 => ToSet(q) = {Head(q)}
        /\ \A i, j \in DOMAIN Tail(q) : Tail(q)[i] = Tail(q)[j] => i = j
    BY <1>2, <1>3, TailOf
  <2> QED
    BY ONLY <1>4, <2>1, Zenon
<1>6. PICK y : y = ToolResultMessage(id, a)
  OBVIOUS
<1>7. y \in Messages /\ y.role = "tool" /\ y.calls = <<>> /\ y.callID = id /\ y.by = a
  BY <1>2, <1>5, <1>6, ResultIs
<1>8. PICK w : w = Append(v, y)
  OBVIOUS
<1>9. /\ w \in Seq(Messages) /\ Len(v) \in Nat /\ Len(w) = Len(v) + 1 /\ w[Len(v) + 1] = y
      /\ \A i \in 1..Len(v) : w[i] = v[i]
  BY <1>2, <1>7, <1>8
<1>10. /\ effects' = effects \union {id}
       /\ view' = [view EXCEPT ![m] = w] /\ todo' = [todo EXCEPT ![m] = t]
       /\ pc' = [pc EXCEPT ![m] = IF Len(q) = 1 THEN "ask" ELSE "tool"]
  BY <1>1, <1>4, <1>6, <1>8 DEF RunTool
<1>11. /\ view'[m] = w /\ todo'[m] = t /\ pc'[m] = IF Len(q) = 1 THEN "ask" ELSE "tool"
       /\ fresh'[m] = f /\ rounds'[m] = rounds[m] /\ Attempt(m)' = a
  BY <1>1, <1>2, <1>10 DEF CInv, Types, Attempt
<1>12. Types'
  BY <1>2, <1>5, <1>9, <1>10 DEF CInv, Types, Working
<1>13. CallToRun(m, id)
  BY <1>3, <1>5
<1>14. CallsRecordedBeforeRun'
  <2>1. ASSUME NEW c \in effects', SessionOf[c[1]] \notin disturbed
        PROVE  \E x \in Logged(SessionOf[c[1]]) : c \in ToSet(x.calls)
    <3>1. CASE c \in effects
      BY <2>1, <3>1 DEF CInv, CallsRecordedBeforeRun
    <3>2. CASE c = id
      BY <1>13, <2>1, <3>2 DEF CallToRun, OnRecord
    <3> QED
      BY <1>10, <3>1, <3>2
  <2> QED
    BY <1>2, <2>1 DEF CallsRecordedBeforeRun, Logged
<1>15. AttemptsMade' /\ RecordedOnce'
  BY <1>2 DEF CInv, AttemptsMade, RecordedOnce, Logged
<1>16. Grown(m)
  BY <1>2, GrownByNothing
<1>17. \A o \in Incoming : o # m => Untouched(o)
  BY <1>2, <1>10 DEF Untouched, CInv, Types
<1>18. NoOpenCalls(m)'
  <2>1. AllBut(w, ToSet(q) \ {id})
    BY <1>2, <1>3, <1>7, <1>8, AppendOpens
  <2>2. Len(q) = 1 => ToSet(q) \ {id} = {}
    BY <1>5
  <2>3. CASE Len(q) = 1
    BY <1>11, <2>1, <2>2, <2>3 DEF NoOpenCalls
  <2>4. CASE Len(q) # 1
    BY <1>5, <1>11, <2>1, <2>4 DEF NoOpenCalls
  <2> QED
    BY <2>3, <2>4
<1>19. f <= Len(v) /\ (\A i \in New(m) : Unsaid(a, rounds[m], v[i]))
       /\ \A i, j \in New(m) : v[i] = v[j] => i = j
  BY <1>1, <1>2 DEF CInv, Handler, ToRecord
<1>20. /\ New(m) = (f + 1)..Len(v)
       /\ New(m)' = (f + 1)..(Len(v) + 1)
  BY <1>1, <1>9, <1>11 DEF New
<1>21. \A i \in New(m) : w[i] = v[i] /\ v[i].callID # id
  <2>1. \A i \in New(m) : v[i].callID # id
    BY <1>1, <1>13 DEF CallToRun
  <2> QED
    BY <1>2, <1>9, <1>20, <2>1
<1>22. \A i \in New(m)' : i \in New(m) \/ (i = Len(v) + 1 /\ w[i] = y)
  BY <1>2, <1>9, <1>20
<1>23. CallsToRun(m)'
  <2>1. ASSUME NEW z \in ToSet(t) PROVE CallToRun(m, z)'
    <3>1. z # id /\ CallToRun(m, z)
      BY <1>3, <1>5, <2>1
    <3>2. \A i \in New(m)' : w[i].callID # z
      BY <1>1, <1>7, <1>21, <1>22, <3>1 DEF CallToRun
    <3> QED
      BY <1>2, <1>11, <3>1, <3>2 DEF CallToRun, OnRecord, Logged
  <2> QED
    BY <1>5, <1>11, <2>1 DEF CallsToRun
<1>24. ToRecord(m)'
  <2>1. f <= Len(w)
    BY <1>2, <1>9, <1>19
  <2>2. Unsaid(a, rounds[m], y)
    BY <1>5, <1>7, <1>13 DEF Unsaid, CallToRun
  <2>3. \A i \in New(m)' : Unsaid(a, rounds[m], w[i])
    BY <1>19, <1>21, <1>22, <2>2
  <2>4. \A i, j \in New(m)' : w[i] = w[j] => i = j
    BY <1>7, <1>19, <1>21, <1>22
  <2> QED
    BY <1>11, <2>1, <2>3, <2>4 DEF ToRecord
<1>25. OfEarlierRounds(m)'
  BY <1>1, <1>2, <1>11 DEF CInv, Handler, OfEarlierRounds, Logged, Working
<1>26. FirstRound(m)'
  BY <1>11 DEF FirstRound, Before
<1>27. Handler(m)'
  BY <1>18, <1>23, <1>24, <1>25, <1>26 DEF Handler
<1> QED
  BY <1>12, <1>14, <1>15, <1>16, <1>17, <1>27, StepKeeps

\* After the assessment the turn begins, or the handler returns (Perceive).
LEMMA PerceiveKeeps ==
  ASSUME CInv, NEW m \in Incoming, Perceive(m)
  PROVE  CInv'
<1>1. /\ pc[m] = "perceive"
      /\ UNCHANGED <<log, tries, injected, view, fresh, todo, rounds, effects, world, disturbed>>
  BY DEF Perceive
<1>2. CASE pc' = [pc EXCEPT ![m] = "read"] /\ phase' = [phase EXCEPT ![m] = "offset"]
  <2>1. Types'
    BY <1>1, <1>2 DEF CInv, Types, Working, Before
  <2>2. pc'[m] = "read"
    BY <1>2 DEF CInv, Types
  <2>3. Attempt(m)' = Attempt(m)
    BY <1>1 DEF Attempt
  <2>4. Handler(m)'
    BY <1>1, <2>2, <2>3 DEF CInv, Handler, NoOpenCalls, CallsToRun, ToRecord,
                           OfEarlierRounds, FirstRound, Logged, Working, Before
  <2>5. \A o \in Incoming : tries[o] <= tries'[o]
    BY <1>1 DEF CInv, Types
  <2>6. \A o \in Incoming : o # m => Untouched(o)
    BY <1>1, <1>2 DEF Untouched, CInv, Types
  <2> QED
    BY <1>1, <2>1, <2>4, <2>5, <2>6, QuietStep
<1>3. CASE pc' = [pc EXCEPT ![m] = "nil"] /\ UNCHANGED phase
  BY <1>1, <1>3, Leaves
<1>4. CASE pc' = [pc EXCEPT ![m] = "error"] /\ UNCHANGED phase
  BY <1>1, <1>4, Leaves
<1> QED
  BY <1>2, <1>3, <1>4 DEF Perceive

\* A handler that returns or is settled leaves the rest as it is.
LEMMA EndsKeep ==
  ASSUME CInv, NEW m \in Incoming, AskFails(m) \/ EndTurn(m) \/ Settle(m)
  PROVE  CInv'
<1>1. CASE AskFails(m)
  <2>1. /\ pc' = [pc EXCEPT ![m] = "error"] /\ disturbed \subseteq disturbed'
        /\ UNCHANGED <<world, log, tries, phase, injected, view, fresh, todo, rounds, effects>>
    BY <1>1 DEF AskFails
  <2> QED
    BY <2>1, Leaves
<1>2. CASE EndTurn(m)
  <2>1. /\ pc' = [pc EXCEPT ![m] = "nil"] /\ disturbed \subseteq disturbed'
        /\ UNCHANGED <<world, log, tries, phase, injected, view, fresh, todo, rounds, effects>>
    BY <1>2 DEF EndTurn, StoreWorks, StoreFails
  <2> QED
    BY <2>1, Leaves
<1>3. CASE Settle(m)
  <2>1. /\ pc' = [pc EXCEPT ![m] = Settled[pc[m]]] /\ disturbed \subseteq disturbed'
        /\ UNCHANGED <<world, log, tries, phase, injected, view, fresh, todo, rounds, effects>>
    BY <1>3 DEF Settle
  <2>2. Settled[pc[m]] \in Resting
    BY <1>3 DEF Settle, Settled, Resting
  <2>3. PICK v \in Resting : v = Settled[pc[m]]
    BY <2>2
  <2> QED
    BY <2>1, <2>3, Leaves
<1> QED
  BY <1>1, <1>2, <1>3

\* A step of the memory module, or none: the handlers do not notice.
LEMMA MemoryKeeps ==
  ASSUME CInv, UNCHANGED <<world, log, tries, handlerVars, effects>>,
         disturbed \subseteq disturbed'
  PROVE  CInv'
<1>1. Types'
  BY DEF CInv, Types, handlerVars
<1>2. AttemptsMade' /\ CallsRecordedBeforeRun' /\ RecordedOnce'
  BY DEF CInv, AttemptsMade, CallsRecordedBeforeRun, RecordedOnce, Logged
<1>3. ASSUME NEW o \in Incoming PROVE Handler(o)'
  <2>1. /\ Attempt(o)' = Attempt(o) /\ New(o)' = New(o) /\ Handler(o)
        /\ UNCHANGED <<pc, view, fresh, todo, rounds>>
    BY DEF CInv, Attempt, New, handlerVars
  <2>2. ASSUME NEW id, CallToRun(o, id) PROVE CallToRun(o, id)'
    BY <2>1, <2>2 DEF CallToRun, OnRecord, Logged
  <2>3. CallsToRun(o)'
    BY <2>1, <2>2 DEF Handler, CallsToRun
  <2>4. NoOpenCalls(o)' /\ ToRecord(o)' /\ OfEarlierRounds(o)' /\ FirstRound(o)'
    BY <2>1 DEF Handler, NoOpenCalls, ToRecord, OfEarlierRounds, FirstRound, Logged
  <2> QED
    BY <2>3, <2>4 DEF Handler
<1> QED
  BY <1>1, <1>2, <1>3 DEF CInv

\* After a crash no handler is under way (Crash).
LEMMA CrashKeeps ==
  ASSUME CInv, Crash
  PROVE  CInv'
<1>1. /\ \A o \in Incoming : pc'[o] \notin Working
      /\ pc' \in [Incoming -> Working \union {"end", "nil", "error"} \union Resting]
  BY DEF CInv, Types, Crash, Active, Working, Before, Resting
<1>2. UNCHANGED <<log, world, tries, phase, injected, view, fresh, todo, rounds, effects, disturbed>>
  BY DEF Crash
<1>3. Types'
  BY <1>1, <1>2 DEF CInv, Types
<1>4. AttemptsMade' /\ CallsRecordedBeforeRun' /\ RecordedOnce'
  BY <1>2 DEF CInv, AttemptsMade, CallsRecordedBeforeRun, RecordedOnce, Logged
<1>5. \A o \in Incoming : Handler(o)'
  BY <1>1, Rests
<1> QED
  BY <1>3, <1>4, <1>5 DEF CInv

-----------------------------------------------------------------------------
(* The theorems.                                                              *)

\* No transcript has a message and no handler is under way.
LEMMA InitCInv == Init => CInv
<1> SUFFICES ASSUME Init PROVE CInv
  OBVIOUS
<1>1. <<>> \in Seq(Messages) /\ <<>> \in Seq(Results) /\ <<>> \in Seq(Ids)
  OBVIOUS
<1>2. Types
  BY <1>1 DEF Init, Types, Resting
<1>3. \A s \in Sessions : Logged(s) = {} /\ DOMAIN log[s] = {}
  BY DEF Init, Logged, ToSet
<1>4. AttemptsMade /\ RecordedOnce /\ CallsRecordedBeforeRun
  BY <1>3 DEF AttemptsMade, RecordedOnce, CallsRecordedBeforeRun, Init
<1>5. \A m \in Incoming : Handler(m)
  BY DEF Init, Handler, NoOpenCalls, CallsToRun, ToRecord, OfEarlierRounds, FirstRound,
         Working, Before
<1> QED
  BY <1>2, <1>4, <1>5 DEF CInv

\* Every step keeps CInv.
LEMMA NextCInv == CInv /\ [Next]_vars => CInv'
<1> SUFFICES ASSUME CInv, [Next]_vars PROVE CInv'
  OBVIOUS
<1>1. ASSUME NEW m \in Incoming, Deliver(m) PROVE CInv'
  BY <1>1, DeliverKeeps
<1>2. ASSUME NEW m \in Incoming, Read(m) PROVE CInv'
  BY <1>2, ReadKeeps
<1>3. ASSUME NEW m \in Incoming, Repair(m) PROVE CInv'
  BY <1>3, RepairKeeps
<1>4. ASSUME NEW m \in Incoming, Perceive(m) PROVE CInv'
  BY <1>4, PerceiveKeeps
<1>5. ASSUME NEW m \in Incoming, Ask(m) PROVE CInv'
  BY <1>5, AskKeeps
<1>6. ASSUME NEW m \in Incoming, RunTool(m) PROVE CInv'
  BY <1>6, RunToolKeeps
<1>7. ASSUME NEW m \in Incoming, AskFails(m) \/ EndTurn(m) \/ Settle(m) PROVE CInv'
  BY <1>7, EndsKeep
<1>8. ASSUME NEW e \in DOMAIN ends, Ingest(e) \/ SettleEnd(e) PROVE CInv'
  <2>1. UNCHANGED <<world, log, tries, handlerVars, effects>> /\ disturbed \subseteq disturbed'
    BY <1>8 DEF Ingest, SettleEnd, StoreWorks, StoreFails
  <2> QED
    BY <2>1, MemoryKeeps
<1>9. CASE Crash
  BY <1>9, CrashKeeps
<1>10. CASE UNCHANGED vars
  <2>1. UNCHANGED <<world, log, tries, handlerVars, effects>> /\ disturbed \subseteq disturbed'
    BY <1>10 DEF vars
  <2> QED
    BY <2>1, MemoryKeeps
<1> QED
  BY <1>1, <1>2, <1>3, <1>4, <1>5, <1>6, <1>7, <1>8, <1>9, <1>10 DEF Next

\* CInv is an invariant: the initial states have it and every step keeps it.
THEOREM ConversationInvariant == Spec => []CInv
  BY InitCInv, NextCInv, PTL DEF Spec

\* No request reaches a model with a tool call that nothing after it answers,
\* whatever was interrupted, overlapped or lost before (context.go repairHistory,
\* loop.go Run).
THEOREM NoCallUnanswered == Spec => []RequestsAnswered
<1>1. CInv => RequestsAnswered
  <2>1. SUFFICES ASSUME CInv, NEW m \in Incoming, pc[m] = "ask"
                 PROVE  Injected(view[m]) = <<>>
    BY DEF RequestsAnswered
  <2>2. view[m] \in Seq(Messages) /\ AllBut(view[m], {})
    BY <2>1 DEF CInv, Types, Handler, NoOpenCalls
  <2> QED
    BY <2>2, NothingOpen
<1> QED
  BY <1>1, ConversationInvariant, PTL

\* A tool runs only for a call that is on record, in every session whose turns did
\* not overlap and whose store did not fail (loop.go Run records the exchange
\* before it runs the tools).
THEOREM ToolsRunOnRecord == Spec => []CallsRecordedBeforeRun
<1>1. CInv => CallsRecordedBeforeRun
  BY DEF CInv
<1> QED
  BY <1>1, ConversationInvariant, PTL

\* A message of a turn is recorded at most once, even when the turn is delivered
\* again, turns overlap or the store fails (loop.go newMessagesStart).
THEOREM OnRecordOnce == Spec => []RecordedOnce
<1>1. CInv => RecordedOnce
  BY DEF CInv
<1> QED
  BY <1>1, ConversationInvariant, PTL

-----------------------------------------------------------------------------
(* Deliveries are those that durable reactions promise.                       *)

\* The messages of a run are recorded when it begins; a delivery handles one.
Promise == INSTANCE AtLeastOnce
  WITH Reactions <- Incoming, recorded <- Incoming,
       handled <- {m \in Incoming : tries[m] > 0},
       settled <- {m \in Incoming : pc[m] \in {"succeeded", "failed"}}

\* A message that is no longer waiting was delivered.
HandledFirst == \A m \in Incoming : pc[m] # "waiting" => tries[m] > 0

PInv == CInv /\ HandledFirst

\* A step that delivers and settles nothing changes nothing that was promised.
LEMMA PromiseStays ==
  ASSUME PInv, UNCHANGED tries,
         \A m \in Incoming : /\ pc[m] = "waiting" <=> pc'[m] = "waiting"
                             /\ pc'[m] \in {"succeeded", "failed"} <=>
                                  pc[m] \in {"succeeded", "failed"}
  PROVE  HandledFirst' /\ UNCHANGED Promise!vars
BY DEF PInv, HandledFirst, Promise!vars

\* The handler of m goes on.
LEMMA HandlerGoesOn ==
  ASSUME PInv, NEW m \in Incoming, pc[m] \notin Resting, UNCHANGED tries,
         NEW v, v \notin Resting, pc' = [pc EXCEPT ![m] = v]
  PROVE  HandledFirst' /\ UNCHANGED Promise!vars
<1>1. \A o \in Incoming : pc'[o] = IF o = m THEN v ELSE pc[o]
  BY DEF PInv, CInv, Types
<1> QED
  BY <1>1, PromiseStays DEF Resting

\* Every step delivers one message, settles one, or does neither.
LEMMA PromiseSteps ==
  ASSUME PInv, [Next]_vars
  PROVE  HandledFirst' /\ [Promise!Next]_(Promise!vars)
<1>1. ASSUME NEW m \in Incoming, Deliver(m)
      PROVE  HandledFirst' /\ Promise!Next
  <2>1. /\ pc[m] = "waiting" /\ tries[m] \in Nat
        /\ tries' = [tries EXCEPT ![m] = @ + 1] /\ pc' = [pc EXCEPT ![m] = "read"]
        /\ tries \in [Incoming -> Nat] /\ DOMAIN pc = Incoming
    BY <1>1 DEF Deliver, PInv, CInv, Types
  <2>2. /\ tries'[m] = tries[m] + 1 /\ tries'[m] > 0 /\ pc'[m] = "read"
        /\ \A o \in Incoming \ {m} : tries'[o] = tries[o] /\ pc'[o] = pc[o]
    BY <2>1
  <2>3. {o \in Incoming : tries'[o] > 0} = {o \in Incoming : tries[o] > 0} \union {m}
    BY <2>2
  <2>4. {o \in Incoming : pc'[o] \in {"succeeded", "failed"}}
          = {o \in Incoming : pc[o] \in {"succeeded", "failed"}}
    BY <2>1, <2>2
  <2>5. Promise!Handle(m)
    BY <2>1, <2>3, <2>4 DEF Promise!Handle
  <2> QED
    BY <2>2, <2>5 DEF PInv, HandledFirst, Promise!Next
<1>2. ASSUME NEW m \in Incoming, Settle(m)
      PROVE  HandledFirst' /\ Promise!Next
  <2>1. /\ pc[m] \in {"nil", "error"} /\ pc'[m] \in {"succeeded", "failed"} /\ UNCHANGED tries
        /\ \A o \in Incoming \ {m} : pc'[o] = pc[o]
    BY <1>2 DEF Settle, Settled, PInv, CInv, Types
  <2>2. {o \in Incoming : pc'[o] \in {"succeeded", "failed"}}
          = {o \in Incoming : pc[o] \in {"succeeded", "failed"}} \union {m}
    BY <2>1
  <2>3. tries[m] > 0
    BY <2>1 DEF PInv, HandledFirst
  <2>4. Promise!Settle(m)
    BY <2>1, <2>2, <2>3 DEF Promise!Settle
  <2> QED
    BY <2>1, <2>3, <2>4 DEF PInv, HandledFirst, Promise!Next
<1>3. ASSUME NEW m \in Incoming,
             Read(m) \/ Repair(m) \/ Perceive(m) \/ Ask(m) \/ AskFails(m) \/ RunTool(m) \/ EndTurn(m)
      PROVE  HandledFirst' /\ UNCHANGED Promise!vars
  <2>1. pc[m] \notin Resting /\ UNCHANGED tries
    BY <1>3 DEF Read, Repair, Perceive, Ask, AskFails, RunTool, EndTurn, Resting
  <2>2. \A h, ok : AfterRead(m, h, ok) => \E v : v \notin Resting /\ pc' = [pc EXCEPT ![m] = v]
    BY DEF AfterRead, Resting
  <2>3. \E v : v \notin Resting /\ pc' = [pc EXCEPT ![m] = v]
    <3>1. CASE Read(m)
      BY <2>2, <3>1 DEF Read, Resting
    <3>2. CASE Repair(m)
      BY <2>2, <3>2 DEF Repair
    <3>3. CASE Perceive(m)
      BY <3>3 DEF Perceive, Resting
    <3>4. CASE Ask(m)
      <4>1. PICK r : Answered(m, r)
        BY <3>4 DEF Ask
      <4> QED
        BY <4>1 DEF Answered, Resting
    <3>5. CASE AskFails(m) \/ RunTool(m) \/ EndTurn(m)
      BY <3>5 DEF AskFails, RunTool, EndTurn, Resting
    <3> QED
      BY <1>3, <3>1, <3>2, <3>3, <3>4, <3>5
  <2> QED
    BY <2>1, <2>3, HandlerGoesOn
<1>4. ASSUME NEW e \in DOMAIN ends, Ingest(e) \/ SettleEnd(e)
      PROVE  HandledFirst' /\ UNCHANGED Promise!vars
  <2>1. UNCHANGED <<pc, tries>>
    BY <1>4 DEF Ingest, SettleEnd, handlerVars
  <2> QED
    BY <2>1, PromiseStays
<1>5. CASE Crash
  <2>1. UNCHANGED tries /\ \A m \in Incoming : pc'[m] = IF m \in Active THEN "waiting" ELSE pc[m]
    BY <1>5 DEF Crash
  <2>2. HandledFirst'
    BY <2>1 DEF PInv, HandledFirst
  <2>3. {m \in Incoming : pc'[m] \in {"succeeded", "failed"}}
          = {m \in Incoming : pc[m] \in {"succeeded", "failed"}}
    BY <2>1 DEF Active, Resting
  <2> QED
    BY <2>1, <2>2, <2>3 DEF Promise!vars
<1>6. CASE UNCHANGED vars
  BY <1>6, PromiseStays DEF vars, handlerVars
<1> QED
  BY <1>1, <1>2, <1>3, <1>4, <1>5, <1>6 DEF Next

\* Whatever a turn does, crashes and failed store operations included, what happens
\* to the messages is what AtLeastOnce allows: none is handled after it was settled,
\* and none is settled that was not handled (agent listeners.go, processor.go Handle).
THEOREM DeliveredAsPromised == Spec => [][Promise!Next]_(Promise!vars)
<1>1. Init => PInv
  BY InitCInv DEF Init, PInv, HandledFirst
<1>2. PInv /\ [Next]_vars => PInv'
  BY NextCInv, PromiseSteps DEF PInv
<1>3. PInv /\ [Next]_vars => [Promise!Next]_(Promise!vars)
  BY PromiseSteps
<1> QED
  BY <1>1, <1>2, <1>3, PTL DEF Spec
=============================================================================
