----------------------------- MODULE Migrations -----------------------------
(***************************************************************************)
(* Schema migrations at the start of a process (pkg/migrations,            *)
(* internal/db/sqlite/migrate.go): a row for each migration, dirty while   *)
(* its statements run.  No transaction holds the row and the statements    *)
(* together.  The program and the command line open one database, at the   *)
(* same time if need be; either may fail or be killed at every step and be *)
(* started again.                                                          *)
(***************************************************************************)
EXTENDS Integers, Sequences, FiniteSets, SequencesExt

CONSTANTS
  Processes,
  SetsOf,       \* the migration sets of each process, in the order of Migrate
  Statements    \* the number of statements in the SQL of each migration

(* A set is a namespace and its items; an item is a version and whether it has *)
(* a name and SQL.  A migration is a namespace and a version.                  *)

\* validateMigrations: versions from 1 up, each once; names and SQL.
ValidItems(items) ==
  /\ \A i \in DOMAIN items : items[i].version >= 1 /\ items[i].complete
  /\ \A i, j \in DOMAIN items : items[i].version = items[j].version => i = j

\* Add takes all sets: namespaces are there, and differ.
Accepted(sets) ==
  /\ \A i \in DOMAIN sets : sets[i].namespace # "" /\ ValidItems(sets[i].items)
  /\ \A i, j \in DOMAIN sets : sets[i].namespace = sets[j].namespace => i = j

\* Namespaces in the order they were added, versions sorted in each.
Sorted(set) ==
  LET of(item) == [namespace |-> set.namespace, version |-> item.version]
  IN  SetToSortSeq({of(x) : x \in ToSet(set.items)}, LAMBDA m, n : m.version < n.version)

Order(p) == FlattenSeq([i \in DOMAIN SetsOf[p] |-> Sorted(SetsOf[p][i])])

Migrations == UNION {ToSet(Order(p)) : p \in Processes}

\* What sort.Slice returns for a list that validateMigrations took.
ASSUME OrderAssumption ==
  \A p \in Processes :
    Accepted(SetsOf[p]) =>
      /\ Order(p) \in Seq(Migrations)
      /\ \A i, j \in DOMAIN Order(p) : Order(p)[i] = Order(p)[j] => i = j

\* Processes of one program: a namespace has the same migrations in each.
ASSUME SameSetsAssumption ==
  \A p, q \in Processes : \A i, j \in DOMAIN Order(p) : \A k \in DOMAIN Order(q) :
    /\ i < j /\ Order(p)[i].namespace = Order(p)[j].namespace
    /\ Order(q)[k] = Order(p)[j]
    => \E l \in DOMAIN Order(q) : l < k /\ Order(q)[l] = Order(p)[i]

ASSUME StatementsAssumption == Statements \in [Migrations -> Nat \ {0}]

VARIABLES
  rows,   \* the table of migrations: "none", "dirty" or "clean"
  ran,    \* the statements of each migration that took effect, in order
  proc    \* where each process is: pc, its migration, the next statement

vars == <<rows, ran, proc>>

NotRunning == [pc |-> "ended", at |-> 1, next |-> 1]

Init ==
  /\ rows = [m \in Migrations |-> "none"]
  /\ ran  = [m \in Migrations |-> <<>>]
  /\ proc = [p \in Processes |-> NotRunning]

-----------------------------------------------------------------------------

Goto(p, pc)  == proc' = [proc EXCEPT ![p].pc = pc]
Current(p)   == Order(p)[proc[p].at]

\* Add, for each set, and ensureSchema.
Add(p) ==
  /\ proc[p].pc = "ended" /\ Accepted(SetsOf[p])
  /\ proc' = [proc EXCEPT ![p] = [pc |-> "status", at |-> 1, next |-> 1]]
  /\ UNCHANGED <<rows, ran>>

\* A plausible bug: a migration that was left dirty is run again.
RepeatDirty(p) ==
  /\ proc[p].pc = "status" /\ proc[p].at <= Len(Order(p))
  /\ rows[Current(p)] = "dirty"
  /\ proc' = [proc EXCEPT ![p].pc = "exec"]
  /\ UNCHANGED <<rows, ran>>

\* status of a migration whose row says dirty: ErrDirtyMigration.
RefuseDirty(p) ==
  /\ proc[p].pc = "status" /\ proc[p].at <= Len(Order(p))
  /\ rows[Current(p)] = "dirty"
  /\ Goto(p, "ended")
  /\ UNCHANGED <<rows, ran>>

\* status of one that is clean, or that has no row.
Skip(p) ==
  /\ proc[p].pc = "status" /\ proc[p].at <= Len(Order(p))
  /\ rows[Current(p)] = "clean"
  /\ proc' = [proc EXCEPT ![p].at = @ + 1]
  /\ UNCHANGED <<rows, ran>>

FindNew(p) ==
  /\ proc[p].pc = "status" /\ proc[p].at <= Len(Order(p))
  /\ rows[Current(p)] = "none"
  /\ Goto(p, "mark")
  /\ UNCHANGED <<rows, ran>>

\* markDirty inserts the row; it fails on the key if another process was faster.
MarkDirty(p) ==
  /\ proc[p].pc = "mark"
  /\ IF rows[Current(p)] = "none"
       THEN /\ rows' = [rows EXCEPT ![Current(p)] = "dirty"]
            /\ proc' = [proc EXCEPT ![p].pc = "exec", ![p].next = 1]
       ELSE Goto(p, "ended") /\ UNCHANGED rows
  /\ UNCHANGED ran

\* One statement of the SQL takes effect.
Exec(p) ==
  /\ proc[p].pc = "exec"
  /\ ran' = [ran EXCEPT ![Current(p)] = Append(@, proc[p].next)]
  /\ proc' = [proc EXCEPT ![p] =
                [pc   |-> IF proc[p].next = Statements[Current(p)] THEN "clean" ELSE "exec",
                 at   |-> proc[p].at,
                 next |-> proc[p].next + 1]]
  /\ UNCHANGED rows

MarkClean(p) ==
  /\ proc[p].pc = "clean"
  /\ rows' = [rows EXCEPT ![Current(p)] = "clean"]
  /\ proc' = [proc EXCEPT ![p] = [pc |-> "status", at |-> proc[p].at + 1, next |-> 1]]
  /\ UNCHANGED ran

\* Run returns nil.
Finish(p) ==
  /\ proc[p].pc = "status" /\ proc[p].at > Len(Order(p))
  /\ Goto(p, "ready")
  /\ UNCHANGED <<rows, ran>>

\* An operation fails, with or without effect, or the process is killed or stops.
End(p) ==
  /\ proc[p].pc # "ended"
  /\ Goto(p, "ended")
  /\ UNCHANGED <<rows, ran>>

Next ==
  \E p \in Processes :
    \/ Add(p) \/ RefuseDirty(p) \/ Skip(p) \/ FindNew(p)
    \/ MarkDirty(p) \/ Exec(p) \/ MarkClean(p) \/ Finish(p) \/ End(p)

Spec == Init /\ [][Next]_vars

-----------------------------------------------------------------------------
(* Properties.                                                                *)

\* The first k statements ran, each once and in order.
RanFirst(m, k) == Len(ran[m]) = k /\ \A i \in 1..k : ran[m][i] = i
Applied(m)   == RanFirst(m, Statements[m])

\* No statement ever takes effect twice or before the one in front of it.
StatementsRunOnce == \A m \in Migrations : \E k \in 0..Statements[m] : RanFirst(m, k)

\* A clean row means all statements; and none runs without a row.
RowsTellTruth ==
  \A m \in Migrations : /\ rows[m] = "clean" => Applied(m)
                        /\ rows[m] = "none" => ran[m] = <<>>

\* A migration is begun when all before it in its namespace are complete.
VersionsInOrder ==
  \A p \in Processes : \A i, j \in DOMAIN Order(p) :
    i < j /\ Order(p)[i].namespace = Order(p)[j].namespace /\ rows[Order(p)[j]] # "none"
    => Applied(Order(p)[i])

\* A process goes on from Migrate only with every one of its migrations applied.
ReadyMeansApplied ==
  \A p \in Processes : proc[p].pc = "ready" =>
    \A i \in DOMAIN Order(p) : Applied(Order(p)[i])

\* The schema is what the migrations say, whatever fails, is killed, started
\* again or runs at the same time (migrations.go Run).
SchemaSound ==
  StatementsRunOnce /\ RowsTellTruth /\ VersionsInOrder /\ ReadyMeansApplied

=============================================================================
