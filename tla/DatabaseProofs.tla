--------------------------- MODULE DatabaseProofs ---------------------------
(***************************************************************************)
(* Proofs about the database: its migrations, and what is remembered.      *)
(*                                                                         *)
(* SchemaSound holds of any number of processes, whatever their migrations *)
(* are.  MInv says who may be at a migration: whoever inserted its dirty   *)
(* row, alone, with all migrations in front of it clean.                   *)
(*                                                                         *)
(* MemorySound holds of any ids, contents and queries.  IndexInv says that *)
(* the lists of a Search are of ids that have objects, which are never     *)
(* deleted; that rrf fuses any two lists is a lemma: fractions compare as  *)
(* they should, so its order is one, and in an order of n every place is   *)
(* taken.                                                                  *)
(***************************************************************************)
EXTENDS Migrations, MemoryIndex, FiniteSetTheorems, TLAPS

Points == {"ended", "status", "mark", "exec", "clean", "ready"}

TypeOK ==
  /\ rows \in [Migrations -> {"none", "dirty", "clean"}]
  /\ ran \in [Migrations -> Seq(Nat)]
  /\ proc \in [Processes -> [pc : Points, at : Nat \ {0}, next : Nat \ {0}]]

\* A process that runs was given valid sets and is inside its list, or at its end.
InList ==
  \A p \in Processes :
    /\ proc[p].pc # "ended" => Accepted(SetsOf[p])
    /\ proc[p].pc \in {"mark", "exec", "clean"} => proc[p].at \in DOMAIN Order(p)
    /\ proc[p].pc = "ready" => proc[p].at > Len(Order(p))

\* It has passed only what is clean.
PassedIsClean ==
  \A p \in Processes : proc[p].pc # "ended" =>
    \A i \in DOMAIN Order(p) : i < proc[p].at => rows[Order(p)[i]] = "clean"

\* It has run what is in front of its next statement.
RunnerKnows ==
  \A p \in Processes :
    /\ proc[p].pc = "exec" => /\ rows[Current(p)] = "dirty"
                              /\ proc[p].next \in 1..Statements[Current(p)]
                              /\ RanFirst(Current(p), proc[p].next - 1)
    /\ proc[p].pc = "clean" => rows[Current(p)] = "dirty" /\ Applied(Current(p))

\* Nobody else is at the same migration.
OneRunner ==
  \A p, q \in Processes :
    /\ proc[p].pc \in {"exec", "clean"} /\ proc[q].pc \in {"exec", "clean"}
    /\ Current(p) = Current(q)
    => p = q

MInv ==
  /\ TypeOK /\ InList /\ PassedIsClean /\ RunnerKnows /\ OneRunner
  /\ StatementsRunOnce /\ RowsTellTruth /\ VersionsInOrder

-----------------------------------------------------------------------------
(* Lists and sequences.                                                       *)

\* Whatever is in the list of a process is a migration.
LEMMA Listed ==
  ASSUME NEW p \in Processes, NEW i \in DOMAIN Order(p)
  PROVE  Order(p)[i] \in Migrations
BY DEF Migrations, ToSet

\* The places of an accepted list are 1 to its length, each of another migration.
LEMMA Places ==
  ASSUME NEW p \in Processes, Accepted(SetsOf[p])
  PROVE  /\ Len(Order(p)) \in Nat /\ DOMAIN Order(p) = 1..Len(Order(p))
         /\ \A i, j \in DOMAIN Order(p) : Order(p)[i] = Order(p)[j] => i = j
BY OrderAssumption

\* One statement more.
LEMMA OneMore ==
  ASSUME NEW s \in Seq(Nat), NEW k \in Nat, Len(s) = k, \A i \in 1..k : s[i] = i
  PROVE  /\ Append(s, k + 1) \in Seq(Nat) /\ Len(Append(s, k + 1)) = k + 1
         /\ \A i \in 1..k + 1 : Append(s, k + 1)[i] = i
OBVIOUS

\* A migration whose statements all ran is not one that has some to run.
LEMMA AppliedIsOver ==
  ASSUME TypeOK, NEW m \in Migrations, NEW k \in 1..Statements[m], RanFirst(m, k - 1)
  PROVE  ~Applied(m)
BY StatementsAssumption DEF RanFirst, Applied, TypeOK

-----------------------------------------------------------------------------
(* Steps that leave rows and statements alone.                                *)

\* A step that only moves process p, outside of exec and clean, keeps MInv if the
\* new place of p is a legal one.
LEMMA MovesKeep ==
  ASSUME MInv, NEW p \in Processes, UNCHANGED <<rows, ran>>,
         proc' \in [Processes -> [pc : Points, at : Nat \ {0}, next : Nat \ {0}]],
         \A r \in Processes : r # p => proc'[r] = proc[r],
         proc'[p].pc \notin {"exec", "clean"},
         proc'[p].pc # "ended" =>
           /\ Accepted(SetsOf[p])
           /\ proc'[p].pc = "mark" => proc'[p].at \in DOMAIN Order(p)
           /\ proc'[p].pc = "ready" => proc'[p].at > Len(Order(p))
           /\ \A i \in DOMAIN Order(p) : i < proc'[p].at => rows[Order(p)[i]] = "clean"
  PROVE  MInv'
<1>1. TypeOK'
  BY DEF MInv, TypeOK
<1>2. InList'
  BY DEF MInv, InList, TypeOK, Points
<1>3. PassedIsClean'
  BY DEF MInv, PassedIsClean
<1>4. RunnerKnows'
  BY SMTT(30) DEF MInv, RunnerKnows, Current, RanFirst, Applied
<1>5. OneRunner'
  BY DEF MInv, OneRunner, Current
<1>6. StatementsRunOnce' /\ RowsTellTruth' /\ VersionsInOrder'
  BY DEF MInv, StatementsRunOnce, RowsTellTruth, VersionsInOrder, RanFirst, Applied
<1>7. QED
  BY <1>1, <1>2, <1>3, <1>4, <1>5, <1>6 DEF MInv

\* The steps of MovesKeep: a start, a refusal, a look at a row, and every end.
LEMMA QuietSteps ==
  ASSUME MInv, NEW p \in Processes,
         Add(p) \/ RefuseDirty(p) \/ Skip(p) \/ FindNew(p) \/ Finish(p) \/ End(p)
  PROVE  MInv'
<1>1. proc \in [Processes -> [pc : Points, at : Nat \ {0}, next : Nat \ {0}]]
  BY DEF MInv, TypeOK
<1>2. proc[p].pc # "ended" =>
        /\ Accepted(SetsOf[p])
        /\ \A i \in DOMAIN Order(p) : i < proc[p].at => rows[Order(p)[i]] = "clean"
  BY DEF MInv, InList, PassedIsClean
<1>3. CASE Add(p)
  <2>1. Accepted(SetsOf[p]) /\ UNCHANGED <<rows, ran>>
    BY <1>3 DEF Add
  <2>2. proc' = [proc EXCEPT ![p] = [pc |-> "status", at |-> 1, next |-> 1]]
    BY <1>3 DEF Add
  <2>3. \A i \in DOMAIN Order(p) : ~(i < 1)
    BY <2>1, Places
  <2>4. QED
    BY <1>1, <2>1, <2>2, <2>3, MovesKeep DEF Points
<1>4. CASE RefuseDirty(p)
  BY <1>1, <1>4, MovesKeep DEF RefuseDirty, Goto, Points
<1>5. CASE Skip(p)
  <2>1. /\ proc[p].pc = "status" /\ proc[p].at <= Len(Order(p)) /\ rows[Current(p)] = "clean"
        /\ UNCHANGED <<rows, ran>>
        /\ proc' = [proc EXCEPT ![p].at = @ + 1]
    BY <1>5 DEF Skip
  <2>2. \A i \in DOMAIN Order(p) : i < proc[p].at + 1 => rows[Order(p)[i]] = "clean"
    BY <1>1, <1>2, <2>1, Places DEF Current
  <2>3. QED
    BY <1>1, <1>2, <2>1, <2>2, MovesKeep, SMTT(30) DEF Points
<1>6. CASE FindNew(p)
  <2>1. /\ proc[p].pc = "status" /\ proc[p].at <= Len(Order(p))
        /\ UNCHANGED <<rows, ran>> /\ proc' = [proc EXCEPT ![p].pc = "mark"]
    BY <1>6 DEF FindNew, Goto
  <2>2. proc[p].at \in DOMAIN Order(p)
    BY <1>1, <1>2, <2>1, Places
  <2>3. QED
    BY <1>1, <1>2, <2>1, <2>2, MovesKeep DEF Points
<1>7. CASE Finish(p)
  BY <1>1, <1>2, <1>7, MovesKeep DEF Finish, Goto, Points
<1>8. CASE End(p)
  BY <1>1, <1>8, MovesKeep DEF End, Goto, Points
<1>9. QED
  BY <1>3, <1>4, <1>5, <1>6, <1>7, <1>8

-----------------------------------------------------------------------------
(* The steps of one migration.                                                *)

\* The migration a process is at is one, and has statements.
LEMMA AtMigration ==
  ASSUME MInv, NEW p \in Processes, proc[p].pc \in {"mark", "exec", "clean"}
  PROVE  /\ Current(p) \in Migrations /\ proc[p].at \in DOMAIN Order(p)
         /\ Statements[Current(p)] \in Nat \ {0} /\ Accepted(SetsOf[p])
<1>1. proc[p].at \in DOMAIN Order(p) /\ Accepted(SetsOf[p])
  BY DEF MInv, InList
<1>2. QED
  BY <1>1, Listed, StatementsAssumption DEF Current

\* All in front of it are applied.
LEMMA AllBefore ==
  ASSUME MInv, NEW p \in Processes, proc[p].pc # "ended",
         NEW i \in DOMAIN Order(p), i < proc[p].at
  PROVE  Applied(Order(p)[i])
BY Listed DEF MInv, PassedIsClean, RowsTellTruth

\* Inserting the dirty row, which a process does alone in its namespace.
LEMMA MarkDirtyStep ==
  ASSUME MInv, NEW p \in Processes, MarkDirty(p), rows[Current(p)] = "none"
  PROVE  MInv'
<1>0. proc[p].pc = "mark" /\ Current(p) \in Migrations
  BY AtMigration DEF MarkDirty
<1> PICK m \in Migrations : m = Current(p)
  BY <1>0
<1>1. /\ proc[p].pc = "mark" /\ rows[m] = "none" /\ ran' = ran
      /\ rows' = [rows EXCEPT ![m] = "dirty"]
      /\ proc' = [proc EXCEPT ![p] = [pc |-> "exec", at |-> proc[p].at, next |-> 1]]
  BY DEF MarkDirty, MInv, TypeOK
<1>2. /\ proc[p].at \in DOMAIN Order(p)
      /\ Statements[m] \in Nat \ {0} /\ Accepted(SetsOf[p])
  BY <1>1, AtMigration
<1>3. /\ rows \in [Migrations -> {"none", "dirty", "clean"}]
      /\ ran \in [Migrations -> Seq(Nat)]
      /\ proc \in [Processes -> [pc : Points, at : Nat \ {0}, next : Nat \ {0}]]
  BY DEF MInv, TypeOK
<1>4. /\ proc'[p].pc = "exec" /\ proc'[p].at = proc[p].at /\ proc'[p].next = 1
      /\ \A r \in Processes : r # p => proc'[r] = proc[r]
      /\ rows'[m] = "dirty" /\ \A n \in Migrations : n # m => rows'[n] = rows[n]
      /\ Current(p)' = m /\ \A r \in Processes : Current(r)' = IF r = p THEN m ELSE Current(r)
  BY <1>1, <1>2, <1>3 DEF Current
<1>5. ran[m] = <<>>
  BY <1>1, <1>2 DEF MInv, RowsTellTruth
<1>6. TypeOK'
  BY <1>1, <1>2, <1>3 DEF TypeOK, Points
<1>7. InList'
  BY <1>2, <1>4 DEF MInv, InList
<1>8. PassedIsClean'
  <2> SUFFICES ASSUME NEW r \in Processes, proc'[r].pc # "ended",
                      NEW i \in DOMAIN Order(r), i < proc'[r].at
               PROVE  rows'[Order(r)[i]] = "clean"
    BY DEF PassedIsClean
  <2>1. proc[r].pc # "ended" /\ i < proc[r].at
    BY <1>1, <1>4
  <2>2. rows[Order(r)[i]] = "clean" /\ Order(r)[i] \in Migrations
    BY <2>1, Listed DEF MInv, PassedIsClean
  <2>3. QED
    BY <2>2, <1>1, <1>4
<1>9. \A r \in Processes : r # p /\ proc[r].pc \in {"exec", "clean"} => Current(r) # m
  BY <1>1 DEF MInv, RunnerKnows
<1>10. RunnerKnows'
  <2>1. rows'[m] = "dirty" /\ 1 \in 1..Statements[m] /\ RanFirst(m, 0)'
    BY <1>1, <1>2, <1>4, <1>5 DEF RanFirst
  <2>2. \A r \in Processes : r # p /\ proc[r].pc \in {"exec", "clean"} =>
          Current(r) \in Migrations /\ rows'[Current(r)] = rows[Current(r)]
    BY <1>4, <1>9, AtMigration
  <2>3. QED
    BY <1>1, <1>4, <2>1, <2>2 DEF MInv, RunnerKnows, RanFirst, Applied
<1>11. OneRunner'
  BY <1>4, <1>9 DEF MInv, OneRunner
<1>12. StatementsRunOnce'
  BY <1>1 DEF MInv, StatementsRunOnce, RanFirst
<1>13. RowsTellTruth'
  BY <1>1, <1>4 DEF MInv, RowsTellTruth, Applied, RanFirst
<1>14. VersionsInOrder'
  <2> SUFFICES ASSUME NEW r \in Processes, NEW i \in DOMAIN Order(r), NEW j \in DOMAIN Order(r),
                      i < j, Order(r)[i].namespace = Order(r)[j].namespace,
                      rows'[Order(r)[j]] # "none"
               PROVE  Applied(Order(r)[i])
    BY <1>1 DEF VersionsInOrder, Applied, RanFirst
  <2>1. CASE Order(r)[j] # m
    BY <2>1, <1>4, Listed DEF MInv, VersionsInOrder
  <2>2. CASE Order(r)[j] = m
    <3>1. Order(p)[proc[p].at] = Order(r)[j]
      BY <2>2 DEF Current
    <3>2. PICK l \in DOMAIN Order(p) : l < proc[p].at /\ Order(p)[l] = Order(r)[i]
      BY <1>2, <3>1, SameSetsAssumption
    <3>3. QED
      BY <1>1, <3>2, AllBefore
  <2>3. QED
    BY <2>1, <2>2
<1>15. QED
  BY <1>6, <1>7, <1>8, <1>10, <1>11, <1>12, <1>13, <1>14 DEF MInv

\* Running a statement, or being stopped at it.
LEMMA ExecStep ==
  ASSUME MInv, NEW p \in Processes, Exec(p)
  PROVE  MInv'
<1>0. proc[p].pc = "exec" /\ Current(p) \in Migrations /\ proc[p].next \in Nat \ {0}
  BY AtMigration DEF Exec, MInv, TypeOK
<1> PICK m \in Migrations, k \in Nat \ {0} : m = Current(p) /\ k = proc[p].next
  BY <1>0
<1>1. /\ proc[p].pc = "exec" /\ rows' = rows
      /\ ran' = [ran EXCEPT ![m] = Append(@, k)]
      /\ proc' = [proc EXCEPT ![p] =
                    [pc |-> IF k = Statements[m] THEN "clean" ELSE "exec",
                     at |-> proc[p].at, next |-> k + 1]]
  BY DEF Exec, MInv, TypeOK
<1>2. /\ proc[p].at \in DOMAIN Order(p)
      /\ Statements[m] \in Nat \ {0} /\ Accepted(SetsOf[p])
  BY <1>1, AtMigration
<1>3. /\ ran \in [Migrations -> Seq(Nat)]
      /\ proc \in [Processes -> [pc : Points, at : Nat \ {0}, next : Nat \ {0}]]
  BY DEF MInv, TypeOK
<1>4. rows[m] = "dirty" /\ k \in 1..Statements[m] /\ RanFirst(m, k - 1)
  BY <1>1 DEF MInv, RunnerKnows
<1>5. /\ proc'[p].pc = (IF k = Statements[m] THEN "clean" ELSE "exec")
      /\ proc'[p].at = proc[p].at /\ proc'[p].next = k + 1
      /\ \A r \in Processes : r # p => proc'[r] = proc[r]
      /\ \A r \in Processes : Current(r)' = Current(r)
  BY <1>1, <1>3 DEF Current
<1>6. ran'[m] = Append(ran[m], k) /\ \A n \in Migrations : n # m => ran'[n] = ran[n]
  BY <1>1, <1>2, <1>3
<1>7. k \in Nat \ {0} /\ k - 1 \in Nat /\ (k - 1) + 1 = k
  BY <1>2, <1>4
<1>8. ran[m] \in Seq(Nat) /\ Len(ran[m]) = k - 1 /\ \A i \in 1..k - 1 : ran[m][i] = i
  BY <1>2, <1>3, <1>4 DEF RanFirst
<1>9. ran'[m] \in Seq(Nat) /\ RanFirst(m, k)'
  BY <1>6, <1>7, <1>8, OneMore, SMTT(30) DEF RanFirst
<1>10. ~Applied(m)
  BY <1>2, <1>4, AppliedIsOver DEF MInv
<1>11. TypeOK'
  <2>1. ran' \in [Migrations -> Seq(Nat)]
    BY <1>1, <1>2, <1>3, <1>9, <1>6
  <2>2. proc' \in [Processes -> [pc : Points, at : Nat \ {0}, next : Nat \ {0}]]
    BY <1>1, <1>3, <1>7 DEF Points
  <2>3. QED
    BY <1>1, <2>1, <2>2 DEF MInv, TypeOK
<1>12. InList'
  BY <1>1, <1>2, <1>5 DEF MInv, InList
<1>13. PassedIsClean'
  BY <1>1, <1>5 DEF MInv, PassedIsClean
<1>14. \A r \in Processes : r # p /\ proc[r].pc \in {"exec", "clean"} =>
         Current(r) # m /\ Current(r) \in Migrations
  BY <1>1, AtMigration DEF MInv, OneRunner
<1>15. RunnerKnows'
  <2>1. k = Statements[m] => Applied(m)'
    BY <1>9 DEF Applied
  <2>2. k # Statements[m] => k + 1 \in 1..Statements[m] /\ (k + 1) - 1 = k
    BY <1>2, <1>4
  <2>3. \A r \in Processes : r # p => 
          /\ proc[r].pc = "exec" /\ RanFirst(Current(r), proc[r].next - 1)
               => RanFirst(Current(r), proc[r].next - 1)'
          /\ proc[r].pc = "clean" /\ Applied(Current(r)) => Applied(Current(r))'
    BY <1>5, <1>6, <1>14 DEF RanFirst, Applied
  <2>4. Current(p) = m
    OBVIOUS
  <2>5. ASSUME NEW r \in Processes, r # p
        PROVE  /\ proc'[r].pc = "exec" => /\ rows'[Current(r)'] = "dirty"
                              /\ proc'[r].next \in 1..Statements[Current(r)']
                              /\ RanFirst(Current(r), proc[r].next - 1)'
               /\ proc'[r].pc = "clean" => rows'[Current(r)'] = "dirty" /\ Applied(Current(r))'
    BY <1>1, <1>5, <2>3, <2>5 DEF MInv, RunnerKnows
  <2>6. /\ proc'[p].pc = "exec" => /\ rows'[Current(p)'] = "dirty"
                              /\ proc'[p].next \in 1..Statements[Current(p)']
                              /\ RanFirst(m, k)' /\ proc'[p].next - 1 = k
        /\ proc'[p].pc = "clean" => rows'[Current(p)'] = "dirty" /\ Applied(m)'
    BY <1>1, <1>4, <1>5, <1>9, <2>1, <2>2, <2>4
  <2>7. QED
    BY <1>5, <2>4, <2>5, <2>6, SMTT(30) DEF RunnerKnows, RanFirst, Applied
<1>16. OneRunner'
  BY <1>1, <1>5 DEF MInv, OneRunner
<1>17. StatementsRunOnce'
  <2>1. k \in 0..Statements[m]
    BY <1>2, <1>4
  <2>2. \A n \in Migrations : n # m =>
          \E x \in 0..Statements[n] : Len(ran[n]) = x /\ \A i \in 1..x : ran[n][i] = i
    BY DEF MInv, StatementsRunOnce, RanFirst
  <2>3. \A n \in Migrations : n # m => 
          \E x \in 0..Statements[n] : Len(ran'[n]) = x /\ \A i \in 1..x : ran'[n][i] = i
    BY <1>6, <2>2
  <2>4. Len(ran'[m]) = k /\ \A i \in 1..k : ran'[m][i] = i
    BY <1>9 DEF RanFirst
  <2>5. QED
    BY <2>1, <2>3, <2>4 DEF StatementsRunOnce, RanFirst
<1>18. \A n \in Migrations : Applied(n) => Applied(n)'
  BY <1>6, <1>10 DEF Applied, RanFirst
<1>19. RowsTellTruth'
  BY <1>1, <1>4, <1>6, <1>18 DEF MInv, RowsTellTruth
<1>20. VersionsInOrder'
  BY <1>1, <1>18, Listed DEF MInv, VersionsInOrder
<1>21. QED
  BY <1>11, <1>12, <1>13, <1>15, <1>16, <1>17, <1>19, <1>20 DEF MInv

\* Marking the row clean behind the last statement.
LEMMA MarkCleanStep ==
  ASSUME MInv, NEW p \in Processes, MarkClean(p)
  PROVE  MInv'
<1>0. proc[p].pc = "clean" /\ Current(p) \in Migrations
  BY AtMigration DEF MarkClean
<1> PICK m \in Migrations : m = Current(p)
  BY <1>0
<1>1. /\ proc[p].pc = "clean" /\ ran' = ran
      /\ rows' = [rows EXCEPT ![m] = "clean"]
      /\ proc' = [proc EXCEPT ![p] = [pc |-> "status", at |-> proc[p].at + 1, next |-> 1]]
  BY DEF MarkClean, MInv, TypeOK
<1>2. proc[p].at \in DOMAIN Order(p) /\ Accepted(SetsOf[p])
  BY <1>1, AtMigration
<1>3. /\ rows \in [Migrations -> {"none", "dirty", "clean"}]
      /\ proc \in [Processes -> [pc : Points, at : Nat \ {0}, next : Nat \ {0}]]
  BY DEF MInv, TypeOK
<1>4. rows[m] = "dirty" /\ Applied(m)
  BY <1>1 DEF MInv, RunnerKnows
<1>5. /\ proc'[p].pc = "status" /\ proc'[p].at = proc[p].at + 1
      /\ \A r \in Processes : r # p => proc'[r] = proc[r] /\ Current(r)' = Current(r)
      /\ rows'[m] = "clean" /\ \A n \in Migrations : n # m => rows'[n] = rows[n]
  BY <1>1, <1>2, <1>3 DEF Current
<1>6. m = Order(p)[proc[p].at]
  BY DEF Current
<1>7. \A r \in Processes : r # p /\ proc[r].pc \in {"exec", "clean"} =>
         Current(r) # m /\ Current(r) \in Migrations
  BY <1>1, AtMigration DEF MInv, OneRunner
<1>8. TypeOK'
  BY <1>1, <1>2, <1>3 DEF MInv, TypeOK, Points
<1>9. InList'
  BY <1>2, <1>5 DEF MInv, InList
<1>10. PassedIsClean'
  <2> SUFFICES ASSUME NEW r \in Processes, proc'[r].pc # "ended",
                      NEW i \in DOMAIN Order(r), i < proc'[r].at
               PROVE  rows'[Order(r)[i]] = "clean"
    BY DEF PassedIsClean
  <2>1. Order(r)[i] \in Migrations
    BY Listed
  <2>2. CASE Order(r)[i] = m
    BY <2>2, <1>5
  <2>3. CASE Order(r)[i] # m
    <3>1. rows'[Order(r)[i]] = rows[Order(r)[i]]
      BY <2>1, <2>3, <1>5
    <3>2. CASE r = p
      <4>1. i # proc[p].at
        BY <2>3, <3>2, <1>6
      <4>2. i < proc[p].at
        BY <4>1, <3>2, <1>2, <1>3, <1>5, Places
      <4>3. QED
        BY <3>1, <3>2, <4>2, <1>1 DEF MInv, PassedIsClean
    <3>3. CASE r # p
      BY <3>1, <3>3, <1>5 DEF MInv, PassedIsClean
    <3>4. QED
      BY <3>2, <3>3
  <2>4. QED
    BY <2>2, <2>3
<1>11. RunnerKnows'
  BY <1>1, <1>5, <1>7 DEF MInv, RunnerKnows, RanFirst, Applied
<1>12. OneRunner'
  BY <1>5 DEF MInv, OneRunner
<1>13. StatementsRunOnce'
  BY <1>1 DEF MInv, StatementsRunOnce, RanFirst
<1>14. RowsTellTruth'
  BY <1>1, <1>4, <1>5 DEF MInv, RowsTellTruth, Applied, RanFirst
<1>15. VersionsInOrder'
  BY <1>1, <1>4, <1>5, Listed DEF MInv, VersionsInOrder, Applied, RanFirst
<1>16. QED
  BY <1>8, <1>9, <1>10, <1>11, <1>12, <1>13, <1>14, <1>15 DEF MInv

-----------------------------------------------------------------------------
(* The theorems.                                                              *)

\* At first nothing is applied.
LEMMA Initially == Init => MInv
<1> SUFFICES ASSUME Init PROVE MInv
  OBVIOUS
<1>1. TypeOK
  BY DEF Init, TypeOK, NotRunning, Points
<1>2. InList /\ PassedIsClean /\ RunnerKnows /\ OneRunner
  BY DEF Init, NotRunning, InList, PassedIsClean, RunnerKnows, OneRunner
<1>3. StatementsRunOnce
  BY StatementsAssumption DEF Init, StatementsRunOnce, RanFirst
<1>4. RowsTellTruth
  BY DEF Init, RowsTellTruth
<1>5. VersionsInOrder
  BY Listed DEF Init, VersionsInOrder
<1>6. QED
  BY <1>1, <1>2, <1>3, <1>4, <1>5 DEF MInv

\* Every step keeps the invariant.
LEMMA Inductive == MInv /\ [Next]_vars => MInv'
<1> SUFFICES ASSUME MInv, [Next]_vars PROVE MInv'
  OBVIOUS
<1>1. CASE UNCHANGED vars
  <2>1. rows' = rows /\ ran' = ran /\ proc' = proc
    BY <1>1 DEF vars
  <2>2. TypeOK' /\ InList' /\ PassedIsClean'
    BY <2>1 DEF MInv, TypeOK, InList, PassedIsClean
  <2>3. RunnerKnows' /\ OneRunner'
    BY <2>1 DEF MInv, RunnerKnows, OneRunner, Current, RanFirst, Applied
  <2>4. StatementsRunOnce' /\ RowsTellTruth' /\ VersionsInOrder'
    BY <2>1 DEF MInv, StatementsRunOnce, RowsTellTruth, VersionsInOrder, RanFirst, Applied
  <2>5. QED
    BY <2>2, <2>3, <2>4 DEF MInv
<1>2. CASE Next
  <2>1. PICK p \in Processes :
          \/ Add(p) \/ RefuseDirty(p) \/ Skip(p) \/ FindNew(p)
          \/ MarkDirty(p) \/ Exec(p) \/ MarkClean(p) \/ Finish(p) \/ End(p)
    BY <1>2 DEF Next
  <2>2. CASE Add(p) \/ RefuseDirty(p) \/ Skip(p) \/ FindNew(p) \/ Finish(p) \/ End(p)
    BY <2>2, QuietSteps
  <2>3. CASE MarkDirty(p)
    <3>1. CASE rows[Current(p)] = "none"
      BY <2>3, <3>1, MarkDirtyStep
    <3>2. CASE rows[Current(p)] # "none"
      <4>1. End(p)
        BY <2>3, <3>2 DEF MarkDirty, End
      <4>2. QED
        BY <4>1, QuietSteps
    <3>3. QED
      BY <3>1, <3>2
  <2>4. CASE Exec(p)
    BY <2>4, ExecStep
  <2>5. CASE MarkClean(p)
    BY <2>5, MarkCleanStep
  <2>6. QED
    BY <2>1, <2>2, <2>3, <2>4, <2>5
<1>3. QED
  BY <1>1, <1>2

\* What MInv says holds in every state of every process.
THEOREM MigrationsInvariance == Spec => []MInv
<1>1. Init => MInv
  BY Initially
<1>2. MInv /\ [Next]_vars => MInv'
  BY Inductive
<1>3. QED
  BY <1>1, <1>2, PTL DEF Spec

\* A process goes on only with its schema complete (migrations.go Run).
LEMMA ReadyFollows == MInv => ReadyMeansApplied
<1> SUFFICES ASSUME MInv, NEW p \in Processes, proc[p].pc = "ready", NEW i \in DOMAIN Order(p)
             PROVE  Applied(Order(p)[i])
  BY DEF ReadyMeansApplied
<1>1. proc[p].at > Len(Order(p)) /\ Accepted(SetsOf[p]) /\ proc[p].at \in Nat
  BY DEF MInv, InList, TypeOK
<1>2. i < proc[p].at
  BY <1>1, Places
<1>3. QED
  BY <1>2, AllBefore

\* Whatever fails, is killed, is started again or runs at the same time: statements
\* run once and in order, rows tell the truth, versions follow one another, and a
\* process goes on only with all of its migrations applied (migrations.go Run).
THEOREM SchemaIsSound == Spec => []SchemaSound
<1>1. MInv => SchemaSound
  BY ReadyFollows DEF MInv, SchemaSound
<1>2. QED
  BY <1>1, MigrationsInvariance, PTL

-----------------------------------------------------------------------------
(* Memory: shares and scores are fractions, and compare like them.            *)

Fractions == Nat \X (Nat \ {0})

\* A product grows with a factor.
LEMMA Times ==
  ASSUME NEW x \in Int, NEW y \in Int, NEW z \in Int, z > 0
  PROVE  /\ x > y <=> x * z > y * z
         /\ x * z \in Int /\ y * z \in Int
<1>1. x * z \in Int /\ y * z \in Int
  OBVIOUS
<1>2. (x > y) => (x * z > y * z)
  OBVIOUS
<1>3. (x <= y) => (x * z <= y * z)
  OBVIOUS
<1> QED
  BY <1>1, <1>2, <1>3

\* What is not below a second, which is not below a third, is not below the third;
\* and above it if it is above the second or the second is above the third.
LEMMA AboveIsTransitive ==
  ASSUME NEW x \in Fractions, NEW y \in Fractions, NEW z \in Fractions,
         ~Above(y, x), ~Above(z, y)
  PROVE  /\ ~Above(z, x)
         /\ Above(x, y) \/ Above(y, z) => Above(x, z)
<1>1. PICK a \in Nat, b \in Nat \ {0}, c \in Nat, d \in Nat \ {0}, e \in Nat, f \in Nat \ {0} :
        x = <<a, b>> /\ y = <<c, d>> /\ z = <<e, f>>
  BY SMTT(30) DEF Fractions
<1>2. ~(c * b > a * d) /\ ~(e * d > c * f)
  BY <1>1 DEF Above
<1>3. /\ c * b > a * d <=> (c * b) * f > (a * d) * f
      /\ a * d > c * b <=> (a * d) * f > (c * b) * f
      /\ e * d > c * f <=> (e * d) * b > (c * f) * b
      /\ c * f > e * d <=> (c * f) * b > (e * d) * b
      /\ a * f > e * b <=> (a * f) * d > (e * b) * d
      /\ e * b > a * f <=> (e * b) * d > (a * f) * d
  <2>1. /\ a * d \in Int /\ c * b \in Int /\ e * d \in Int /\ c * f \in Int /\ a * f \in Int
        /\ e * b \in Int /\ b \in Int /\ d \in Int /\ f \in Int /\ b > 0 /\ d > 0 /\ f > 0
    BY <1>1
  <2> QED
    BY <2>1, Times
<1>4. /\ (c * b) * f = (c * f) * b /\ (a * d) * f = (a * f) * d /\ (e * d) * b = (e * b) * d
      /\ (c * b) * f \in Int /\ (a * d) * f \in Int /\ (e * d) * b \in Int
  BY <1>1
<1>5. PICK p \in Int, q \in Int, r \in Int :
        p = (a * f) * d /\ q = (c * f) * b /\ r = (e * b) * d
  BY <1>4
<1>6. /\ ~(q > p) /\ ~(r > q)
      /\ a * d > c * b <=> p > q
      /\ c * f > e * d <=> q > r
      /\ a * f > e * b <=> p > r
      /\ e * b > a * f <=> r > p
  BY <1>2, <1>3, <1>4, <1>5
<1>7. /\ ~(r > p)
      /\ p > q \/ q > r => p > r
  BY ONLY <1>5, <1>6
<1> QED
  BY <1>1, <1>6, <1>7 DEF Above

\* A sum grows with its parts.
LEMMA PlusGrows ==
  ASSUME NEW x \in Fractions, NEW y \in Fractions, NEW u \in Fractions, NEW v \in Fractions,
         Above(x, y), Above(u, v)
  PROVE  Above(Plus(x, u), Plus(y, v))
<1>1. PICK a \in Nat, b \in Nat \ {0}, c \in Nat, d \in Nat \ {0},
           e \in Nat, f \in Nat \ {0}, g \in Nat, h \in Nat \ {0} :
        x = <<a, b>> /\ y = <<c, d>> /\ u = <<e, f>> /\ v = <<g, h>>
  <2>1. \A z \in Fractions : \E m \in Nat, n \in Nat \ {0} : z = <<m, n>>
    BY DEF Fractions
  <2>2. PICK a \in Nat, b \in Nat \ {0} : x = <<a, b>>
    BY <2>1
  <2>3. PICK c \in Nat, d \in Nat \ {0} : y = <<c, d>>
    BY <2>1
  <2>4. PICK e \in Nat, f \in Nat \ {0} : u = <<e, f>>
    BY <2>1
  <2>5. PICK g \in Nat, h \in Nat \ {0} : v = <<g, h>>
    BY <2>1
  <2> QED
    BY <2>2, <2>3, <2>4, <2>5
<1>2. a * d > c * b /\ e * h > g * f
  BY <1>1 DEF Above
<1>3. f * h \in Int /\ f * h > 0 /\ b * d \in Int /\ b * d > 0
  <2>1. ASSUME NEW m \in Nat \ {0}, NEW n \in Nat \ {0} PROVE m * n \in Int /\ m * n > 0
    <3>1. m \in Int /\ 0 \in Int /\ n \in Int /\ n > 0 /\ m > 0
      OBVIOUS
    <3>2. m * n > 0 * n
      BY <3>1, Times
    <3> QED
      BY <3>1, <3>2
  <2> QED
    BY <1>1, <2>1
<1>4. (a * d) * (f * h) > (c * b) * (f * h)
  <2>1. a * d \in Int /\ c * b \in Int
    BY <1>1
  <2> QED
    BY <1>2, <1>3, <2>1, Times
<1>5. (e * h) * (b * d) > (g * f) * (b * d)
  <2>1. e * h \in Int /\ g * f \in Int
    BY <1>1
  <2> QED
    BY <1>2, <1>3, <2>1, Times
<1>6. /\ (a * f + e * b) * (d * h) = (a * d) * (f * h) + (e * h) * (b * d)
      /\ (c * h + g * d) * (b * f) = (c * b) * (f * h) + (g * f) * (b * d)
  BY <1>1
<1>7. /\ (a * d) * (f * h) \in Int /\ (c * b) * (f * h) \in Int
      /\ (e * h) * (b * d) \in Int /\ (g * f) * (b * d) \in Int
  BY <1>1
<1>8. (a * f + e * b) * (d * h) > (c * h + g * d) * (b * f)
  <2> PICK p, q, r, s : /\ p = (a * d) * (f * h) /\ q = (c * b) * (f * h)
                        /\ r = (e * h) * (b * d) /\ s = (g * f) * (b * d)
    OBVIOUS
  <2>1. p \in Int /\ q \in Int /\ r \in Int /\ s \in Int /\ p > q /\ r > s
    BY <1>4, <1>5, <1>7
  <2>2. p + r > q + s
    BY ONLY <2>1
  <2> QED
    BY <1>6, <2>2
<1> QED
  BY <1>1, <1>8 DEF Above, Plus

\* A list without repetitions of members of S.
ListsOf(S) == {s \in UNION {[1..k -> S] : k \in Nat} : \A i, j \in DOMAIN s : s[i] = s[j] => i = j}

\* The share of an id, whether or not it is in the list.
LEMMA ShareIsFraction ==
  ASSUME NEW list \in ListsOf(Ids), NEW id
  PROVE  Share(list, id) \in Fractions
<1>1. PICK k \in Nat : list \in [1..k -> Ids]
  BY DEF ListsOf
<1>2. CASE id \notin ToSet(list)
  BY <1>2 DEF Share, Fractions
<1>3. CASE id \in ToSet(list)
  <2>1. \E i \in DOMAIN list : list[i] = id
    BY <1>3 DEF ToSet
  <2> PICK i : i = CHOOSE j \in DOMAIN list : list[j] = id
    OBVIOUS
  <2>2. i \in 1..k
    BY <1>1, <2>1
  <2>3. rrfK + i \in Nat \ {0}
    BY <2>2 DEF rrfK
  <2> QED
    BY <1>3, <2>3 DEF Share, Fractions
<1> QED
  BY <1>2, <1>3

\* The sum of two shares.
LEMMA ScoreIsFraction ==
  ASSUME NEW text \in ListsOf(Ids), NEW near \in ListsOf(Ids), NEW id
  PROVE  Score(text, near, id) \in Fractions
<1>1. PICK a \in Nat, b \in Nat \ {0}, c \in Nat, d \in Nat \ {0} :
        Share(text, id) = <<a, b>> /\ Share(near, id) = <<c, d>>
  BY ShareIsFraction DEF Fractions
<1>2. a * d + c * b \in Nat /\ b * d \in Nat /\ b * d # 0
  <2>1. a * d \in Nat /\ c * b \in Nat
    BY <1>1
  <2>2. b * d \in Nat /\ b * d # 0
    <3>1. b \in Int /\ 0 \in Int /\ d \in Int /\ d > 0 /\ b > 0
      BY <1>1
    <3>2. b * d > 0 * d
      BY <3>1, Times
    <3> QED
      BY <1>1, <3>2
  <2> QED
    BY <2>1, <2>2
<1> QED
  BY <1>1, <1>2 DEF Score, Plus, Fractions

\* What is ahead in a list has the larger share.
LEMMA ShareGrows ==
  ASSUME NEW list \in ListsOf(Ids), NEW x, NEW y, x # y, Ahead(list, x, y)
  PROVE  Above(Share(list, x), Share(list, y))
<1>1. PICK k \in Nat : list \in [1..k -> Ids]
  BY DEF ListsOf
<1>2. x \in ToSet(list) /\ \E i \in DOMAIN list : list[i] = x
  BY DEF Ahead, ToSet
<1> PICK i : i = Place(list, x)
  OBVIOUS
<1>3. i \in 1..k /\ Share(list, x) = <<1, 60 + i>>
  <2>1. i = CHOOSE j \in DOMAIN list : list[j] = x
    BY DEF Place
  <2> QED
    BY <1>1, <1>2, <2>1 DEF Share, rrfK
<1>4. CASE y \notin ToSet(list)
  <2>1. Share(list, y) = <<0, 1>>
    BY <1>4 DEF Share
  <2> QED
    BY <1>3, <2>1 DEF Above
<1>5. CASE y \in ToSet(list)
  <2> PICK j : j = Place(list, y)
    OBVIOUS
  <2>1. \E m \in DOMAIN list : list[m] = y
    BY <1>5 DEF ToSet
  <2>2. j \in 1..k /\ Share(list, y) = <<1, 60 + j>>
    <3>1. j = CHOOSE m \in DOMAIN list : list[m] = y
      BY DEF Place
    <3> QED
      BY <1>1, <1>5, <2>1, <3>1 DEF Share, rrfK
  <2>3. i < j
    BY <1>5 DEF Ahead
  <2>4. 60 + j > 60 + i
    BY <1>3, <2>2, <2>3
  <2> QED
    BY <1>3, <2>2, <2>4 DEF Above
<1> QED
  BY <1>4, <1>5

-----------------------------------------------------------------------------
(* The places of rrf.                                                         *)

\* Outranks orders the ids.
LEMMA OutranksOrders ==
  ASSUME NEW text \in ListsOf(Ids), NEW near \in ListsOf(Ids)
  PROVE  /\ \A x \in Ids : ~Outranks(text, near, x, x)
         /\ \A x, y \in Ids : x # y => Outranks(text, near, x, y) \/ Outranks(text, near, y, x)
         /\ \A x, y, z \in Ids : Outranks(text, near, x, y) /\ Outranks(text, near, y, z)
                                 => Outranks(text, near, x, z)
<1> DEFINE s(x) == Score(text, near, x)
           o(x, y) == Outranks(text, near, x, y)
<1>1. \A x \in Ids : s(x) \in Fractions /\ x \in Int
  BY ScoreIsFraction, IndexAssumption
<1>2. \A x, y : o(x, y) <=> Above(s(x), s(y)) \/ (~Above(s(y), s(x)) /\ x < y)
  BY DEF Outranks
<1>3. \A x, y \in Fractions : ~(Above(x, y) /\ Above(y, x))
  <2> SUFFICES ASSUME NEW x \in Fractions, NEW y \in Fractions PROVE ~(Above(x, y) /\ Above(y, x))
    OBVIOUS
  <2>1. PICK a \in Nat, b \in Nat \ {0}, c \in Nat, d \in Nat \ {0} : x = <<a, b>> /\ y = <<c, d>>
    BY DEF Fractions
  <2>2. a * d \in Nat /\ c * b \in Nat
    BY <2>1
  <2> QED
    BY <2>1, <2>2 DEF Above
<1> HIDE DEF s, o
<1>4. \A x \in Ids : ~o(x, x)
  BY <1>1, <1>2, <1>3
<1>5. \A x, y \in Ids : x # y => o(x, y) \/ o(y, x)
  BY <1>1, <1>2
<1>6. ASSUME NEW x \in Ids, NEW y \in Ids, NEW z \in Ids, o(x, y), o(y, z) PROVE o(x, z)
  <2>1. ~Above(s(y), s(x)) /\ ~Above(s(z), s(y))
    BY <1>1, <1>2, <1>3, <1>6
  <2>2. /\ ~Above(s(z), s(x))
        /\ Above(s(x), s(y)) \/ Above(s(y), s(z)) => Above(s(x), s(z))
    BY <1>1, <2>1, AboveIsTransitive
  <2>3. Above(s(x), s(y)) \/ Above(s(y), s(z)) \/ x < z
    BY <1>1, <1>2, <1>6
  <2> QED
    BY <1>2, <2>2, <2>3
<1> QED
  BY <1>4, <1>5, <1>6 DEF o

\* R orders F, one before the other.
Orders(R, F) ==
  /\ \A x \in F : <<x, x>> \notin R
  /\ \A x, y \in F : x # y => <<x, y>> \in R \/ <<y, x>> \in R
  /\ \A x, y, z \in F : <<x, y>> \in R /\ <<y, z>> \in R => <<x, z>> \in R

\* How many of F are in front of each.
Ranks(R, F) == [x \in F |-> Cardinality({y \in F : <<y, x>> \in R})]

\* r gives each of the n members of F a number below n of its own, in the order of R.
Numbers(r, R, F, n) ==
  /\ n \in Nat
  /\ \A x \in F : r[x] \in 0..(n - 1)
  /\ \A x, y \in F : r[x] = r[y] => x = y
  /\ \A x, y \in F : <<x, y>> \in R <=> r[x] < r[y]
  /\ \A k \in 0..(n - 1) : \E x \in F : r[x] = k

\* In a finite order of n every place is taken, once.
LEMMA RanksAreNumbers ==
  ASSUME NEW F, IsFiniteSet(F), NEW R, Orders(R, F)
  PROVE  Numbers(Ranks(R, F), R, F, Cardinality(F))
<1> PICK r : r = Ranks(R, F)
  OBVIOUS
<1> DEFINE front(x) == {y \in F : <<y, x>> \in R}
<1> PICK n : n = Cardinality(F)
  OBVIOUS
<1>1. n \in Nat
  BY FS_CardinalityType
<1>2. ASSUME NEW x \in F PROVE r[x] = Cardinality(front(x)) /\ IsFiniteSet(front(x)) /\ r[x] \in Nat
  <2>1. front(x) \in SUBSET F
    OBVIOUS
  <2>2. IsFiniteSet(front(x))
    BY <2>1, FS_Subset
  <2>3. Cardinality(front(x)) \in Nat
    BY <2>2, FS_CardinalityType
  <2> QED
    BY <2>2, <2>3 DEF Ranks
<1>3. ASSUME NEW x \in F PROVE r[x] \in 0..(n - 1)
  <2>1. front(x) \in SUBSET F /\ x \in F /\ x \notin front(x)
    BY DEF Orders
  <2> HIDE DEF front
  <2>2. Cardinality(front(x)) <= n /\ Cardinality(front(x)) # n
    BY <2>1, FS_Subset
  <2> QED
    BY <1>1, <1>2, <2>2
<1>4. ASSUME NEW x \in F, NEW y \in F, <<x, y>> \in R PROVE r[x] < r[y]
  <2>1. front(x) \in SUBSET front(y) /\ x \in front(y) /\ x \notin front(x)
    BY <1>4 DEF Orders
  <2> HIDE DEF front
  <2>2. Cardinality(front(x)) <= Cardinality(front(y)) /\ Cardinality(front(x)) # Cardinality(front(y))
    BY <1>2, <2>1, FS_Subset
  <2> QED
    BY <1>2, <2>2
<1> HIDE DEF front
<1>5. ASSUME NEW x \in F, NEW y \in F, r[x] = r[y] PROVE x = y
  <2>1. ~(r[x] < r[y]) /\ ~(r[y] < r[x])
    BY <1>2, <1>5
  <2> QED
    BY <1>4, <2>1 DEF Orders
<1>6. ASSUME NEW x \in F, NEW y \in F PROVE <<x, y>> \in R <=> r[x] < r[y]
  <2>1. r[x] \in Nat /\ r[y] \in Nat
    BY <1>2
  <2>2. ASSUME r[x] < r[y] PROVE <<x, y>> \in R
    <3>1. x # y /\ ~(r[y] < r[x])
      BY <2>1, <2>2
    <3> QED
      BY <1>4, <3>1 DEF Orders
  <2> QED
    BY <1>4, <2>2
<1>7. \A k \in 0..(n - 1) : \E x \in F : r[x] = k
  <2>1. IsFiniteSet(0..(n - 1)) /\ Cardinality(0..(n - 1)) = n
    <3> PICK m, z : m = n - 1 /\ z = 0
      OBVIOUS
    <3>1. z \in Int /\ m \in Int
      BY <1>1
    <3>2. IsFiniteSet(z..m) /\ Cardinality(z..m) = IF z > m THEN 0 ELSE m - z + 1
      BY <3>1, FS_Interval
    <3> QED
      BY <1>1, <3>1, <3>2
  <2>2. r \in Injection(F, 0..(n - 1))
    BY <1>3, <1>5 DEF Injection, IsInjective, Ranks
  <2>3. r \in Surjection(F, 0..(n - 1))
    BY <2>1, <2>2, FS_Injection
  <2> QED
    BY <2>3 DEF Surjection
<1> QED
  BY <1>1, <1>3, <1>5, <1>6, <1>7 DEF Numbers

\* rrf fuses two lists: IsFusion, for any lists and any limit.
LEMMA rrfFuses ==
  ASSUME NEW text \in ListsOf(Ids), NEW near \in ListsOf(Ids), NEW limit \in Nat,
         NEW got, got = rrf(text, near, limit)
  PROVE  /\ IsFusion(got, text, near, limit)
         /\ \E m \in Nat : got \in [1..m -> ToSet(text) \union ToSet(near)]
<1> DEFINE F == ToSet(text) \union ToSet(near)
           R == {p \in F \X F : Outranks(text, near, p[1], p[2])}
           front(x) == {y \in F : Outranks(text, near, y, x)}
           r == Ranks(R, F)
<1>1. F \subseteq Ids /\ IsFiniteSet(F)
  <2>1. \A list \in ListsOf(Ids) : ToSet(list) \subseteq Ids
    BY DEF ListsOf, ToSet
  <2>2. F \in SUBSET Ids
    BY <2>1
  <2> QED
    BY <2>2, IndexAssumption, FS_Subset
<1>2. \A x, y \in F : <<x, y>> \in R <=> Outranks(text, near, x, y)
  OBVIOUS
<1>3. \A x \in F : r[x] = Cardinality(front(x))
  <2> SUFFICES ASSUME NEW x \in F PROVE r[x] = Cardinality(front(x))
    OBVIOUS
  <2>1. {y \in F : <<y, x>> \in R} = front(x)
    BY <1>2
  <2> QED
    BY <2>1 DEF Ranks
<1>4. /\ \A x \in F : <<x, x>> \notin R
      /\ \A x, y \in F : x # y => <<x, y>> \in R \/ <<y, x>> \in R
      /\ \A x, y, z \in F : <<x, y>> \in R /\ <<y, z>> \in R => <<x, z>> \in R
  <2> PICK G : G = F
    OBVIOUS
  <2>1. /\ \A x \in G : ~Outranks(text, near, x, x)
        /\ \A x, y \in G : x # y => Outranks(text, near, x, y) \/ Outranks(text, near, y, x)
        /\ \A x, y, z \in G : Outranks(text, near, x, y) /\ Outranks(text, near, y, z)
                              => Outranks(text, near, x, z)
    BY <1>1, OutranksOrders
  <2> QED
    BY <1>2, <2>1
<1> PICK n : n = Cardinality(F)
  OBVIOUS
<1> HIDE DEF R, r, F
<1>5. /\ n \in Nat
      /\ \A x \in F : r[x] \in 0..(n - 1)
      /\ \A x, y \in F : r[x] = r[y] => x = y
      /\ \A x, y \in F : <<x, y>> \in R <=> r[x] < r[y]
      /\ \A k \in 0..(n - 1) : \E x \in F : r[x] = k
  <2>1. Orders(R, F)
    BY <1>4 DEF Orders
  <2>2. Numbers(r, R, F, n)
    BY <1>1, <2>1, RanksAreNumbers DEF r
  <2> QED
    BY <2>2 DEF Numbers
<1> PICK m : m = IF n < limit THEN n ELSE limit
  OBVIOUS
<1>6. m \in Nat /\ m <= n /\ m <= limit /\ (m < limit => m = n)
  BY <1>5
<1>7. got = [k \in 1..m |-> CHOOSE x \in F : Cardinality(front(x)) = k - 1]
  BY DEF rrf, F
<1> HIDE DEF front
<1>8. DOMAIN got = 1..m /\ \A k \in 1..m : got[k] \in F /\ r[got[k]] = k - 1
  <2> SUFFICES ASSUME NEW k \in 1..m PROVE got[k] \in F /\ r[got[k]] = k - 1
    BY <1>7
  <2>1. got[k] = CHOOSE x \in F : Cardinality(front(x)) = k - 1
    BY <1>7
  <2>2. k - 1 \in 0..(n - 1)
    BY <1>5, <1>6
  <2>3. PICK x \in F : r[x] = k - 1
    BY <1>5, <2>2
  <2>4. Cardinality(front(x)) = k - 1
    BY <1>3, <2>3
  <2>5. got[k] \in F /\ Cardinality(front(got[k])) = k - 1
    BY <2>1, <2>4
  <2> QED
    BY <1>3, <2>5
<1>9. got \in [1..m -> F]
  BY <1>7, <1>8
<1>10. Len(got) = m
  <2>1. got \in Seq(F)
    BY <1>6, <1>9
  <2> QED
    BY <1>6, <1>8, <2>1
<1>11. \A x \in F : /\ x \in ToSet(got) <=> r[x] < m
                    /\ x \in ToSet(got) => r[x] + 1 \in 1..m /\ got[r[x] + 1] = x
  <2> SUFFICES ASSUME NEW x \in F
               PROVE  /\ x \in ToSet(got) <=> r[x] < m
                      /\ x \in ToSet(got) => r[x] + 1 \in 1..m /\ got[r[x] + 1] = x
    OBVIOUS
  <2>1. r[x] \in Nat
    BY <1>5
  <2>2. ASSUME r[x] < m PROVE r[x] + 1 \in 1..m /\ got[r[x] + 1] = x /\ x \in ToSet(got)
    <3>1. r[x] + 1 \in 1..m
      BY <1>6, <2>1, <2>2
    <3>2. r[got[r[x] + 1]] = r[x] /\ got[r[x] + 1] \in F
      BY <1>8, <2>1, <3>1
    <3>3. got[r[x] + 1] = x
      BY <1>5, <3>2
    <3> QED
      BY <1>8, <3>1, <3>3 DEF ToSet
  <2>3. ASSUME x \in ToSet(got) PROVE r[x] < m
    <3>1. PICK k \in 1..m : got[k] = x
      BY <1>8, <2>3 DEF ToSet
    <3> QED
      BY <1>6, <1>8, <3>1
  <2> QED
    BY <2>2, <2>3
<1>12. Cardinality(ToSet(got)) = m
  <2>1. got \in Injection(1..m, ToSet(got)) /\ got \in Surjection(1..m, ToSet(got))
    BY <1>8, <1>9 DEF ToSet, Injection, Surjection, IsInjective
  <2>2. got \in Bijection(1..m, ToSet(got))
    BY <2>1 DEF Bijection
  <2> PICK z : z = 1
    OBVIOUS
  <2>3. z \in Int /\ m \in Int
    BY <1>6
  <2>4. IsFiniteSet(z..m) /\ Cardinality(z..m) = IF z > m THEN 0 ELSE m - z + 1
    BY <2>3, FS_Interval
  <2>5. IsFiniteSet(1..m) /\ Cardinality(1..m) = m
    BY <1>6, <2>4
  <2>6. ExistsBijection(1..m, ToSet(got))
    BY <2>2 DEF ExistsBijection
  <2> QED
    BY <2>5, <2>6, FS_Bijection
<1>13. m < limit => ToSet(got) = F
  <2>1. ToSet(got) \subseteq F
    BY <1>8 DEF ToSet
  <2>2. m = n => \A x \in F : r[x] < m
    BY <1>5
  <2> QED
    BY <1>6, <1>11, <2>1, <2>2
<1>14. ASSUME NEW x \in F, NEW y \in F, x # y, Ahead(text, x, y), Ahead(near, x, y)
       PROVE  Ahead(got, x, y) \/ (x \notin ToSet(got) /\ y \notin ToSet(got))
  <2>1. Outranks(text, near, x, y)
    <3>1. Above(Share(text, x), Share(text, y)) /\ Above(Share(near, x), Share(near, y))
      BY <1>14, ShareGrows
    <3>2. /\ Share(text, x) \in Fractions /\ Share(text, y) \in Fractions
          /\ Share(near, x) \in Fractions /\ Share(near, y) \in Fractions
      BY ShareIsFraction
    <3>3. Above(Score(text, near, x), Score(text, near, y))
      BY <3>1, <3>2, PlusGrows DEF Score
    <3> QED
      BY <3>3 DEF Outranks
  <2>2. r[x] < r[y] /\ r[x] \in Nat /\ r[y] \in Nat
    <3>1. <<x, y>> \in R
      BY <1>2, <2>1
    <3>2. r[x] < r[y]
      BY <1>5, <3>1
    <3> QED
      BY <1>5, <3>2
  <2> SUFFICES ASSUME x \in ToSet(got) \/ y \in ToSet(got) PROVE Ahead(got, x, y)
    OBVIOUS
  <2>3. x \in ToSet(got)
    BY <1>6, <1>11, <2>2
  <2>4. ASSUME NEW z \in F, z \in ToSet(got) PROVE Place(got, z) = r[z] + 1
    <3>1. r[z] + 1 \in 1..m /\ got[r[z] + 1] = z
      BY <1>11, <2>4
    <3>2. \A k \in 1..m : got[k] = z => k = r[z] + 1
      BY <1>8
    <3> QED
      BY <1>8, <3>1, <3>2 DEF Place
  <2>5. y \in ToSet(got) => Place(got, x) < Place(got, y)
    BY <2>2, <2>3, <2>4
  <2> QED
    BY <2>3, <2>5 DEF Ahead
<1>15. IsFusion(got, text, near, limit)
  BY <1>6, <1>10, <1>12, <1>13, <1>14 DEF IsFusion, F
<1> QED
  BY <1>6, <1>9, <1>15 DEF F

-----------------------------------------------------------------------------
(* What is in the store.                                                      *)

Stored == {i \in Ids : objects[i] # Absent}

\* A list of ids of objects stands for all of them.
LEMMA ObjectsOfAll ==
  ASSUME NEW m \in Nat, NEW ids \in [1..m -> Stored]
  PROVE  ObjectsOf(ids) = ids
<1>1. DOMAIN ids = 1..m /\ {k \in DOMAIN ids : objects[ids[k]] # Absent} = 1..m
  BY DEF Stored
<1>2. ASSUME NEW n \in Nat PROVE IsFiniteSet(1..n) /\ Cardinality(1..n) = n
  <2> PICK z : z = 1
    OBVIOUS
  <2>1. z \in Int /\ n \in Int
    OBVIOUS
  <2>2. IsFiniteSet(z..n) /\ Cardinality(z..n) = IF z > n THEN 0 ELSE n - z + 1
    BY <2>1, FS_Interval
  <2> QED
    BY <2>2
<1>3. \A k \in 1..m : Cardinality((1..m) \intersect (1..k)) = k
  <2> SUFFICES ASSUME NEW k \in 1..m PROVE Cardinality((1..m) \intersect (1..k)) = k
    OBVIOUS
  <2>1. (1..m) \intersect (1..k) = 1..k /\ k \in Nat
    OBVIOUS
  <2> QED
    BY <1>2, <2>1
<1>4. ObjectsOf(ids) = [n \in 1..m |->
                          ids[CHOOSE k \in 1..m : Cardinality((1..m) \intersect (1..k)) = n]]
  <2> DEFINE kept == {k \in DOMAIN ids : objects[ids[k]] # Absent}
  <2>1. ObjectsOf(ids) = [n \in 1..Cardinality(kept) |->
                            ids[CHOOSE k \in kept : Cardinality(kept \intersect 1..k) = n]]
    BY DEF ObjectsOf
  <2>2. kept = 1..m /\ Cardinality(1..m) = m
    BY <1>1, <1>2
  <2> HIDE DEF kept
  <2> PICK K : K = 1..m
    OBVIOUS
  <2>3. ObjectsOf(ids) = [n \in 1..Cardinality(K) |->
                            ids[CHOOSE k \in K : Cardinality(K \intersect 1..k) = n]]
    BY <2>1, <2>2
  <2>4. Cardinality(K) = m
    BY <2>2
  <2>5. ObjectsOf(ids) = [n \in 1..m |->
                            ids[CHOOSE k \in K : Cardinality(K \intersect 1..k) = n]]
    BY <2>3, <2>4
  <2> QED
    BY <2>5
<1>5. \A n \in 1..m : (CHOOSE k \in 1..m : Cardinality((1..m) \intersect (1..k)) = n) = n
  BY <1>3
<1> QED
  BY <1>1, <1>4, <1>5

IndexTypes ==
  /\ objects \in [Ids -> Contents \union {Absent}] /\ vecs \in [Ids -> Contents \union {Absent}]
  /\ embedder \in BOOLEAN /\ everOff \in BOOLEAN /\ (embedder \/ everOff)

\* A Put that writes has a vector of what it says, unless it had no embedder.
PutKnown ==
  put.pc = "write" =>
    /\ put.id \in Ids /\ put.content \in Contents
    /\ put.vec = put.content \/ (put.vec = Absent /\ everOff)

\* A Search lists ids of objects, and returns all that it has fused.
SearchKnown ==
  /\ search.pc # "idle" => search.text \in ListsOf(Stored)
  /\ search.pc \in {"fetch", "done"} => search.near \in ListsOf(Stored)
  /\ FusionSound

IndexInv == IndexTypes /\ PutKnown /\ SearchKnown /\ IndexesInSync

\* At first nothing is stored, on its way or asked for.
LEMMA IndexStart ==
  ASSUME IndexInit
  PROVE  IndexInv
<1>1. IndexTypes
  BY DEF IndexInit, IndexTypes
<1>2. PutKnown /\ SearchKnown
  BY DEF IndexInit, PutKnown, SearchKnown, FusionSound, NoPut, NoSearch
<1>3. IndexesInSync
  BY DEF IndexInit, IndexesInSync
<1> QED
  BY <1>1, <1>2, <1>3 DEF IndexInv

\* The objects stay.
LEMMA StoreStays ==
  ASSUME IndexInv, UNCHANGED <<objects, fts, vecs>>, everOff => everOff'
  PROVE  IndexesInSync' /\ Stored' = Stored
BY DEF IndexInv, IndexesInSync, Stored

\* Rankings of ids of objects are lists of them.
LEMMA RankingsAreLists ==
  ASSUME NEW S, S \subseteq Stored, NEW n \in Nat, NEW f \in Rankings(S, n)
  PROVE  f \in ListsOf(Stored)
<1>1. S \in SUBSET Ids
  BY DEF Stored
<1>2. Cardinality(S) \in Nat
  BY <1>1, IndexAssumption, FS_Subset, FS_CardinalityType
<1> PICK k : k = IF Cardinality(S) < n THEN Cardinality(S) ELSE n
  OBVIOUS
<1>3. k \in Nat /\ f \in [1..k -> S] /\ \A i, j \in 1..k : f[i] = f[j] => i = j
  BY <1>2 DEF Rankings
<1>4. f \in [1..k -> Stored]
  BY <1>3
<1> QED
  BY <1>3, <1>4 DEF ListsOf

\* A Put writes, or does not.
LEMMA WriteKeepsSync ==
  ASSUME IndexInv, WritePut
  PROVE  IndexInv'
<1>1. put' = NoPut /\ UNCHANGED <<embedder, everOff, search>> /\ put.pc = "write"
  BY DEF WritePut
<1>2. PutKnown'
  BY <1>1 DEF PutKnown, NoPut
<1>3. CASE UNCHANGED <<objects, fts, vecs>>
  <2>1. IndexesInSync' /\ Stored' = Stored
    BY <1>1, <1>3, StoreStays
  <2>2. SearchKnown'
    BY <1>1, <2>1 DEF IndexInv, SearchKnown, FusionSound
  <2>3. IndexTypes'
    BY <1>1, <1>3 DEF IndexInv, IndexTypes
  <2> QED
    BY <1>2, <2>1, <2>2, <2>3 DEF IndexInv
<1>4. CASE /\ objects' = [objects EXCEPT ![put.id] = put.content]
           /\ fts' = ReplaceRow(put.id, put.content)
           /\ vecs' = IF put.vec = Absent THEN vecs ELSE [vecs EXCEPT ![put.id] = put.vec]
  <2> PICK i, c : i = put.id /\ c = put.content
    OBVIOUS
  <2>1. /\ i \in Ids /\ c \in Contents /\ c # Absent
        /\ put.vec = c \/ (put.vec = Absent /\ everOff)
    BY <1>1, IndexAssumption DEF IndexInv, PutKnown
  <2>2. /\ objects' \in [Ids -> Contents \union {Absent}] /\ objects'[i] = c
        /\ \A j \in Ids \ {i} : objects'[j] = objects[j]
    BY <1>4, <2>1 DEF IndexInv, IndexTypes
  <2>3. /\ vecs' \in [Ids -> Contents \union {Absent}]
        /\ vecs'[i] = c \/ (vecs'[i] = vecs[i] /\ everOff)
        /\ \A j \in Ids \ {i} : vecs'[j] = vecs[j]
    BY <1>4, <2>1 DEF IndexInv, IndexTypes
  <2>4. IndexTypes'
    BY <1>1, <2>2, <2>3 DEF IndexInv, IndexTypes
  <2>5. IndexesInSync'
    <3>1. fts = {<<j, objects[j]>> : j \in Stored}
      BY DEF IndexInv, IndexesInSync, Stored
    <3>2. fts' = {r \in fts : r[1] # i} \union {<<i, c>>}
      BY <1>4 DEF ReplaceRow
    <3>3. Stored' = Stored \union {i}
      BY <2>1, <2>2 DEF Stored
    <3>4. fts' = {<<j, objects'[j]>> : j \in Stored'}
      <4>1. \A j \in Stored \ {i} : <<j, objects'[j]>> \in fts'
        BY <2>2, <3>1, <3>2 DEF Stored
      <4>2. <<i, objects'[i]>> \in fts'
        BY <2>2, <3>2
      <4>3. \A r \in fts' : \E j \in Stored' : r = <<j, objects'[j]>>
        <5> SUFFICES ASSUME NEW r \in fts' PROVE \E j \in Stored' : r = <<j, objects'[j]>>
          OBVIOUS
        <5>1. CASE r = <<i, c>>
          BY <2>2, <3>3, <5>1
        <5>2. CASE r \in fts /\ r[1] # i
          <6>1. PICK j \in Stored : r = <<j, objects[j]>>
            BY <3>1, <5>2
          <6>2. j # i /\ j \in Stored' /\ objects'[j] = objects[j]
            BY <2>2, <3>3, <5>2, <6>1 DEF Stored
          <6> QED
            BY <6>1, <6>2
        <5> QED
          BY <3>2, <5>1, <5>2
      <4> QED
        BY <3>3, <4>1, <4>2, <4>3
    <3>5. \A j \in Ids : vecs'[j] # Absent =>
            objects'[j] # Absent /\ (vecs'[j] = objects'[j] \/ everOff')
      BY <1>1, <2>1, <2>2, <2>3 DEF IndexInv, IndexesInSync
    <3> QED
      BY <3>4, <3>5 DEF IndexesInSync, Stored
  <2>6. SearchKnown'
    <3>1. \A list \in ListsOf(Stored) : list \in ListsOf(Stored')
      <4>1. Stored \subseteq Stored'
        BY <2>1, <2>2 DEF Stored
      <4> QED
        BY <4>1 DEF ListsOf
    <3> QED
      BY <1>1, <3>1 DEF IndexInv, SearchKnown, FusionSound
  <2> QED
    BY <1>2, <2>4, <2>5, <2>6 DEF IndexInv
<1> QED
  BY <1>3, <1>4 DEF WritePut

\* The other steps change no object.
LEMMA OthersKeepSync ==
  ASSUME IndexInv, UNCHANGED <<objects, fts, vecs>>,
         embedder' \in BOOLEAN, everOff' \in BOOLEAN, everOff => everOff', embedder' \/ everOff',
         PutKnown', SearchKnown'
  PROVE  IndexInv'
<1>1. IndexesInSync'
  BY StoreStays
<1>2. IndexTypes'
  BY DEF IndexInv, IndexTypes
<1> QED
  BY <1>1, <1>2 DEF IndexInv

\* Every step keeps the invariant.
LEMMA IndexSteps ==
  ASSUME IndexInv, [IndexNext]_indexVars
  PROVE  IndexInv'
<1>1. ASSUME UNCHANGED <<objects, fts, vecs, embedder, everOff, put>>, SearchKnown' PROVE IndexInv'
  <2>1. PutKnown'
    BY <1>1 DEF IndexInv, PutKnown
  <2> QED
    BY <1>1, <2>1, OthersKeepSync DEF IndexInv, IndexTypes
<1>2. ASSUME UNCHANGED <<objects, fts, vecs, embedder, everOff, search>>, PutKnown' PROVE IndexInv'
  <2>1. SearchKnown'
    BY <1>2 DEF IndexInv, SearchKnown, FusionSound, Stored
  <2> QED
    BY <1>2, <2>1, OthersKeepSync DEF IndexInv, IndexTypes
<1>3. ASSUME NEW i \in Ids, NEW c \in Contents, EmbedForPut(i, c) PROVE IndexInv'
  <2>1. UNCHANGED <<objects, fts, vecs, embedder, everOff, search>>
    BY <1>3 DEF EmbedForPut
  <2>2. CASE put' = NoPut
    BY <1>2, <2>1, <2>2 DEF PutKnown, NoPut
  <2>3. CASE put' = [pc |-> "write", id |-> i, content |-> c,
                     vec |-> IF embedder THEN c ELSE Absent]
    BY <1>2, <2>1, <2>3 DEF PutKnown, IndexInv, IndexTypes
  <2> QED
    BY <1>3, <2>2, <2>3 DEF EmbedForPut
<1>4. Fetch \in Nat
  BY IndexAssumption DEF Fetch
<1>5. ASSUME NEW q \in Queries, SearchText(q) PROVE IndexInv'
  <2> DEFINE found == {x[1] : x \in {y \in fts : y[2] \in MatchesOf[q]}}
  <2>1. found \subseteq Stored
    BY DEF IndexInv, IndexesInSync, Stored
  <2>2. PICK r \in Rankings(found, Fetch) :
          search' = [NoSearch EXCEPT !.pc = "near", !.query = q, !.text = r]
    BY <1>5 DEF SearchText
  <2> HIDE DEF found
  <2>3. r \in ListsOf(Stored)
    BY <1>4, <2>1, <2>2, RankingsAreLists
  <2>4. search'.pc = "near" /\ search'.text = r
    BY <2>2 DEF NoSearch
  <2>5. UNCHANGED <<objects, fts, vecs, embedder, everOff, put>>
    BY <1>5 DEF SearchText
  <2>6. SearchKnown'
    BY <2>3, <2>4, <2>5 DEF SearchKnown, FusionSound, Stored
  <2> QED
    BY <1>1, <2>5, <2>6
<1>6. CASE SearchNear
  <2> DEFINE found == {i \in Ids : vecs[i] # Absent}
  <2>1. found \subseteq Stored
    BY DEF IndexInv, IndexesInSync, Stored
  <2>2. PICK r : /\ r \in Rankings(found, Fetch) \/ r = <<>>
                 /\ search' = [search EXCEPT !.pc = "fetch", !.near = r]
    BY <1>6 DEF SearchNear
  <2> HIDE DEF found
  <2>3. <<>> \in ListsOf(Stored)
    <3>1. <<>> \in [1..0 -> Stored] /\ 0 \in Nat
      OBVIOUS
    <3> QED
      BY <3>1 DEF ListsOf
  <2>4. r \in ListsOf(Stored)
    BY <1>4, <2>1, <2>2, <2>3, RankingsAreLists
  <2>5. search.pc = "near" /\ UNCHANGED <<objects, fts, vecs, embedder, everOff, put>>
    BY <1>6 DEF SearchNear
  <2>6. SearchKnown'
    BY <2>2, <2>4, <2>5 DEF IndexInv, SearchKnown, FusionSound, Stored
  <2> QED
    BY <1>1, <2>5, <2>6
<1>7. CASE FetchObjects
  <2> PICK got : got = rrf(search.text, search.near, Limit)
    OBVIOUS
  <2>1. search.pc = "fetch" /\ search.text \in ListsOf(Stored) /\ search.near \in ListsOf(Stored)
    BY <1>7 DEF FetchObjects, IndexInv, SearchKnown
  <2>2. \A list \in ListsOf(Stored) : list \in ListsOf(Ids) /\ ToSet(list) \subseteq Stored
    BY DEF ListsOf, Stored, ToSet
  <2>3. /\ IsFusion(got, search.text, search.near, Limit)
        /\ \E m \in Nat : got \in [1..m -> ToSet(search.text) \union ToSet(search.near)]
    BY <2>1, <2>2, rrfFuses, IndexAssumption
  <2>4. PICK m \in Nat : got \in [1..m -> Stored]
    BY <2>1, <2>2, <2>3
  <2>5. ObjectsOf(got) = got
    BY <2>4, ObjectsOfAll
  <2>6. /\ search' = [search EXCEPT !.pc = "done", !.result = got]
        /\ UNCHANGED <<objects, fts, vecs, embedder, everOff, put>>
    BY <1>7, <2>5 DEF FetchObjects
  <2>7. SearchKnown'
    BY <2>1, <2>3, <2>6 DEF SearchKnown, FusionSound, Stored
  <2> QED
    BY <1>1, <2>6, <2>7
<1>8. CASE SearchEnds
  BY <1>1, <1>8 DEF SearchEnds, SearchKnown, FusionSound, NoSearch
<1>9. CASE Restart
  <2>1. PutKnown' /\ SearchKnown'
    BY <1>9 DEF Restart, PutKnown, SearchKnown, FusionSound, NoPut, NoSearch
  <2> QED
    BY <1>9, <2>1, OthersKeepSync DEF Restart, IndexInv, IndexTypes
<1>10. CASE UNCHANGED indexVars
  BY <1>1, <1>10 DEF indexVars, IndexInv, SearchKnown, FusionSound, Stored
<1> QED
  BY <1>3, <1>5, <1>6, <1>7, <1>8, <1>9, <1>10, WriteKeepsSync DEF IndexNext

\* MemorySound for any ids, contents, queries and limit (pkg/memory/sqlite/store.go
\* Put, Search, rrf): the indexes are in sync with the objects, and a Search returns
\* a fusion of its two rankings, of which every id has its object.
THEOREM MemoryIsSound == IndexSpec => []MemorySound
<1>1. IndexInit => IndexInv
  BY IndexStart
<1>2. IndexInv /\ [IndexNext]_indexVars => IndexInv'
  BY IndexSteps
<1>3. IndexInv => MemorySound
  BY DEF IndexInv, SearchKnown, MemorySound
<1> QED
  BY <1>1, <1>2, <1>3, PTL DEF IndexSpec
==============================================================================
