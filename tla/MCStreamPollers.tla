--------------------------- MODULE MCStreamPollers ---------------------------
(* Model-checking instance of StreamPollers: two kinds of one slug. *)
EXTENDS StreamPollers

CONSTANT theSlug

OneSlug == [k \in Keys |-> theSlug]

=============================================================================
