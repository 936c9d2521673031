------------------------------- MODULE MCGateway -------------------------------
(* Model-checking definitions for Gateway. *)
EXTENDS Gateway, TLC

\* Requests have no identity.
CallSymmetry == Permutations(Call)

=============================================================================
