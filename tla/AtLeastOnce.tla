---------------------------- MODULE AtLeastOnce ----------------------------
(***************************************************************************)
(* What durable reactions promise: work is recorded before anyone handles  *)
(* it, it stays owed until it is settled, it may be handled any number of  *)
(* times while it is owed, it is settled only after it was handled, and    *)
(* it is never handled again after that.                                   *)
(***************************************************************************)
CONSTANT Reactions

VARIABLES recorded, handled, settled
vars == <<recorded, handled, settled>>

Init == recorded = {} /\ handled = {} /\ settled = {}

\* One event: all of its reactions at once, none of which was recorded before.
Record(S) ==
  /\ S \intersect recorded = {}
  /\ recorded' = recorded \union S
  /\ UNCHANGED <<handled, settled>>

Handle(r) ==
  /\ r \in recorded \ settled
  /\ handled' = handled \union {r}
  /\ UNCHANGED <<recorded, settled>>

Settle(r) ==
  /\ r \in handled \ settled
  /\ settled' = settled \union {r}
  /\ UNCHANGED <<recorded, handled>>

Next == \/ \E S \in SUBSET Reactions : Record(S)
        \/ \E r \in Reactions : Handle(r) \/ Settle(r)

Spec == Init /\ [][Next]_vars

=============================================================================
