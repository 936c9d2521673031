------------------------------- MODULE LookupKey -------------------------------
(***************************************************************************)
(* The cache key: what a lookup request is taken to ask for, which keys    *)
(* validate_key accepts, and the file in which the result handler stores   *)
(* the transcript of a key.  The other modules identify the file with the  *)
(* key; this one shows that they may.                                      *)
(*                                                                         *)
(* A language is a sequence of bytes, because its length and letters are   *)
(* looked at and because `' and `auto' stand for each other in the path.   *)
(* A hash is a member of a set, a model a name.  None of the three may     *)
(* hold a `/' once it is accepted, so a path is the tuple of its parts.    *)
(***************************************************************************)
EXTENDS Naturals, Sequences

CONSTANTS
  Sha,        \* texts sent as sha256
  Canonical,  \* those of 64 lowercase hexadecimal digits
  Model,      \* texts sent as model
  Language    \* texts sent as language

ASSUME ShaAssumption      == Canonical \subseteq Sha
ASSUME LanguageAssumption == Language \subseteq Seq(0 .. 255)

PublicModelId == "whisper-1"
AutoName      == <<97, 117, 116, 111>>      \* "auto"

VARIABLES
  asked,     \* the keys that have a row
  answered,  \* the keys whose row is ready
  stored     \* the key whose transcript each file holds

keyVars == <<asked, answered, stored>>

\* LookupRequest: a field that is left out has its default.
Default(option, default) ==
  IF option = {} THEN default ELSE CHOOSE x \in option : TRUE

KeyOf(sha, model, language) ==
  <<sha, Default(model, PublicModelId), Default(language, <<>>)>>

\* Mutant: a language may have four letters.
UpToFourLetters(language) ==
  \/ language = <<>>
  \/ /\ Len(language) \in 2 .. 4
     /\ \A i \in 1 .. Len(language) : language[i] \in 97 .. 122

\* Empty, or two or three lowercase ASCII letters.
ValidLanguage(language) ==
  \/ language = <<>>
  \/ /\ Len(language) \in 2 .. 3
     /\ \A i \in 1 .. Len(language) : language[i] \in 97 .. 122

\* validate_key.
Valid(key) ==
  /\ key[1] \in Canonical
  /\ key[2] = PublicModelId
  /\ ValidLanguage(key[3])

\* transcripts/{sha256}/{model}/{language}.json
PathOf(key) == <<key[1], key[2], IF key[3] = <<>> THEN AutoName ELSE key[3]>>

KeyInit == asked = {} /\ answered = {} /\ stored = [path \in {} |-> {}]

\* lookup: a field is a set, empty if the request leaves it out.
Lookup(sha, model, language) ==
  LET key == KeyOf(sha, model, language) IN
  /\ Valid(key)
  /\ asked' = asked \cup {key}
  /\ UNCHANGED <<answered, stored>>

\* result: the transcript is moved to its path, and the row is marked.
Result(key) ==
  /\ key \in asked
  /\ stored' = [path \in DOMAIN stored \cup {PathOf(key)} |->
                  IF path = PathOf(key) THEN key ELSE stored[path]]
  /\ answered' = answered \cup {key}
  /\ UNCHANGED asked

KeyNext ==
  \/ \E sha \in Sha,
        model \in {{}} \cup {{m} : m \in Model},
        language \in {{}} \cup {{l} : l \in Language} : Lookup(sha, model, language)
  \/ \E key \in asked : Result(key)

KeySpec == KeyInit /\ [][KeyNext]_keyVars

-----------------------------------------------------------------------------
(* Properties.                                                             *)

\* A file holds the transcript of the one key it is read for: no other key,
\* whatever it asks for and in whatever order results come, has its path
\* (api.rs:289-298).
OwnTranscript ==
  \A key \in answered :
    PathOf(key) \in DOMAIN stored /\ stored[PathOf(key)] = key

=============================================================================
