------------------------------- MODULE JobReport -------------------------------
(***************************************************************************)
(* What a client is told about a job: JobResponse::from_record and         *)
(* JobProgress::set of models.rs, job_status of api.rs, and the upload     *)
(* token of upload_token.rs.                                               *)
(*                                                                         *)
(* An Option is a set: {} is None and {x} is Some(x).  Of a snapshot, the  *)
(* stage and the percentage are kept: message, language and the two        *)
(* durations come and go with the stage.                                   *)
(***************************************************************************)
EXTENDS Transcriptions

Option(S) == {{}} \cup {{x} : x \in S}

Byte == 0 .. 255        \* u8

\* LiveProgress.  "live" is whatever stage WhisperX names.
LiveProgress == [ stage   : Option({"queued", "awaiting_upload", "live"}),
                  percent : Option(Byte) ]

NoProgress == [stage |-> {}, percent |-> {}]

\* Mutant: the percentage is stored as WhisperX reports it.
Unclamped(p) == p

\* JobProgress::set: 100 is kept for jobs that are ready.
Clamped(p) == IF p < 99 THEN p ELSE 99

\* A snapshot as the progress map holds it, of a report of p percent.
Snapshot(p) == [stage |-> {"live"}, percent |-> {Clamped(p)}]

\* What is shown of the live progress of a job with this row.
Shown(row, live) ==
  CASE row.status = "ready"           -> [stage |-> {}, percent |-> {100}]
    [] row.status = "pending"         -> [stage |-> {"queued"}, percent |-> {0}]
    [] row.status = "awaiting_upload" ->
         [stage |-> {"awaiting_upload"}, percent |-> {0}]
    [] OTHER                          -> live

\* HMAC-SHA256 of `v1|job|sha256|expires_at' is as good as what it signs; the
\* hash is that of the job's key.
Sign(j, expires) == [job |-> j, expires |-> expires]

Token == [job : Job, expires : Deadline]

JobResponse == [ status   : Status,
                 progress : LiveProgress,
                 position : Nat,             \* queue_position, 0 for None
                 error    : BOOLEAN,
                 upload   : Option(Token) ]  \* upload_url, _token, _expires_at

FromRecord(row, live, position) ==
  [ status   |-> row.status,
    progress |-> Shown(row, live),
    position |-> IF row.status = "pending" THEN position ELSE 0,
    error    |-> row.error,
    upload   |-> {} ]

JobStatus(j, row, live, position) ==
  [FromRecord(row, live, position) EXCEPT
     !.upload = IF row.status = "awaiting_upload" /\ row.expires # NULL
                THEN {Sign(j, row.expires)} ELSE {}]

=============================================================================
