------------------------------ MODULE MCLookupKey ------------------------------
(***************************************************************************)
(* Texts for LookupKey: languages at both ends of the accepted lengths,    *)
(* with a capital letter, and the one that the path of the empty one has.  *)
(***************************************************************************)
EXTENDS LookupKey

MCLanguage ==
  { <<>>, <<101>>, <<101, 110>>, <<69, 78>>, <<101, 110, 103>>, AutoName }

=============================================================================
