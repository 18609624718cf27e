------------------------ MODULE MCReactionDispatcher ------------------------
(* Small instances of ReactionDispatcher for TLC. *)
EXTENDS ReactionDispatcher, TLC

CONSTANTS e1, e2

\* Two reactions, of two events or of two handlers of one event.
TwoReactions == {1, 2}
OneEach      == (1 :> e1) @@ (2 :> e2)
TwoOfOne     == (1 :> e1) @@ (2 :> e1)

\* The workers are interchangeable.
Symmetry == Permutations(Workers)

\* Every process registers all handlers; or one may come up without the handler
\* of reaction 1.
AllRegistered  == {TwoReactions}
SomeRegistered == {TwoReactions, {2}}

=============================================================================
