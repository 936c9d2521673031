SPECIFICATION KeySpec
CONSTANTS
  Sha = {sha1, sha2, short}
  Canonical = {sha1, sha2}
  Model = {"whisper-1", "large"}
  Language <- MCLanguage
INVARIANTS
  OwnTranscript
