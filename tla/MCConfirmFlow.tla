--------------------------- MODULE MCConfirmFlow ---------------------------
(***************************************************************************)
(* Instances of ConfirmFlow for TLC.                                       *)
(***************************************************************************)
EXTENDS ConfirmFlow, TLC

CONSTANTS alice, bob, root, guest

\* Two operators, an admin and a viewer.
MCRole == [u \in User |-> CASE u = root -> "admin"
                            [] u = guest -> "viewer"
                            [] OTHER -> "operator"]

Symmetry == Permutations(Op) \cup Permutations(Event)

=============================================================================
