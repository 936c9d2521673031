---------------------------- MODULE LookupKeyProofs ----------------------------
(***************************************************************************)
(* Proofs about LookupKey, for any texts a client may send.  The central   *)
(* fact is that PathOf tells the accepted keys apart: the one name that is *)
(* not taken from the request, `auto', is no accepted language, because it *)
(* has four letters.                                                       *)
(***************************************************************************)
EXTENDS LookupKey, TLAPS

\* A key as the extractor builds it from a request.
IsKey(key) == key = <<key[1], key[2], key[3]>>

\* Two accepted keys with the same path are the same key.
LEMMA PathsDistinct ==
  ASSUME NEW k, NEW l, IsKey(k), IsKey(l), Valid(k), Valid(l), PathOf(k) = PathOf(l)
  PROVE  k = l
<1>1. k[1] = l[1] /\ k[2] = l[2]
  BY DEF PathOf
<1>2. \A key : Valid(key) => key[3] # AutoName
  <2>1. Len(AutoName) = 4 /\ AutoName # <<>>
    BY DEF AutoName
  <2>2. ASSUME NEW language, ValidLanguage(language)
        PROVE  language = <<>> \/ Len(language) \in 2 .. 3
    BY <2>2 DEF ValidLanguage
  <2>3. \A language : ValidLanguage(language) => language # AutoName
    BY <2>1, <2>2
  <2> QED
    BY <2>3 DEF Valid
<1>3. k[3] = l[3]
  BY <1>2 DEF PathOf
<1> QED
  BY <1>1, <1>3 DEF IsKey

\* Every row has a key that was accepted, only such rows are ready, and each
\* file holds what its key is answered with.
KeyInv ==
  /\ \A key \in asked : IsKey(key) /\ Valid(key)
  /\ answered \subseteq asked
  /\ OwnTranscript

LEMMA InitKeyInv == KeyInit => KeyInv
  BY DEF KeyInit, KeyInv, OwnTranscript

LEMMA NextKeyInv == KeyInv /\ [KeyNext]_keyVars => KeyInv'
<1> SUFFICES ASSUME KeyInv, [KeyNext]_keyVars
             PROVE  KeyInv'
  OBVIOUS
<1>1. ASSUME NEW sha, NEW model, NEW language, Lookup(sha, model, language)
      PROVE  KeyInv'
  <2>1. /\ IsKey(KeyOf(sha, model, language))
        /\ Valid(KeyOf(sha, model, language))
        /\ asked' = asked \cup {KeyOf(sha, model, language)}
    BY <1>1 DEF Lookup, KeyOf, IsKey
  <2> QED
    BY <1>1, <2>1 DEF Lookup, KeyInv, OwnTranscript
<1>2. ASSUME NEW key \in asked, Result(key)
      PROVE  KeyInv'
  <2>1. /\ DOMAIN stored' = DOMAIN stored \cup {PathOf(key)}
        /\ stored'[PathOf(key)] = key
        /\ \A path \in DOMAIN stored \ {PathOf(key)} : stored'[path] = stored[path]
    BY <1>2 DEF Result
  <2>2. ASSUME NEW other \in answered'
        PROVE  PathOf(other) \in DOMAIN stored' /\ stored'[PathOf(other)] = other
    <3>1. CASE other = key
      BY <2>1, <3>1
    <3>2. CASE other # key
      <4>1. other \in answered /\ other \in asked
        BY <1>2, <2>2, <3>2 DEF Result, KeyInv
      <4>2. PathOf(other) # PathOf(key)
        BY <3>2, <4>1, PathsDistinct DEF KeyInv
      <4> QED
        BY <2>1, <4>1, <4>2 DEF KeyInv, OwnTranscript
    <3> QED
      BY <3>1, <3>2
  <2> QED
    BY <1>2, <2>2 DEF Result, KeyInv, OwnTranscript
<1>3. CASE UNCHANGED keyVars
  BY <1>3 DEF keyVars, KeyInv, OwnTranscript
<1> QED
  BY <1>1, <1>2, <1>3 DEF KeyNext

\* Whatever clients ask for and in whatever order results come, the file of a
\* ready key holds the transcript of that key (api.rs:289-298, models.rs:162).
THEOREM FilesAreNotShared == KeySpec => []OwnTranscript
<1>1. KeyInv => OwnTranscript
  BY DEF KeyInv
<1> QED
  BY <1>1, InitKeyInv, NextKeyInv, PTL DEF KeySpec

=============================================================================
