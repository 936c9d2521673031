------------------------------ MODULE MCJobStore ------------------------------
(* Model-checking definitions for JobStore. *)
EXTENDS JobStore, TLC

\* Keys are only compared for equality, so they are interchangeable.
KeySymmetry == Permutations(Key)

=============================================================================
