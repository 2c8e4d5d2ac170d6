------------------------- MODULE MCCapabilityToken -------------------------
(***************************************************************************)
(* Instances of CapabilityToken for TLC.                                   *)
(***************************************************************************)
EXTENDS CapabilityToken, TLC

Symmetry ==
    Permutations(Thread) \cup Permutations(Nonce) \cup Permutations(Scope)

=============================================================================
