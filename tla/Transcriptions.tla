---------------------------- MODULE Transcriptions ----------------------------
(***************************************************************************)
(* The `transcriptions' table of the gateway and every SQL statement that  *)
(* db.rs runs against it.  SQLite executes one statement atomically, so a  *)
(* statement is an operator from a table to a table (or to an answer); the *)
(* modules that EXTEND this one say when, and by whom, statements are run. *)
(*                                                                         *)
(* A table is a function from the job ids that have a row to their rows.   *)
(* Columns nothing here tells apart are left out: `model' has one legal    *)
(* value, `duration_seconds' and `language' are only copied into answers,  *)
(* and the text of `error' and `transcript_path' is reduced to its being   *)
(* NULL or not (the path is a function of the key).                        *)
(***************************************************************************)
EXTENDS Naturals, FiniteSets

CONSTANTS
  Job,        \* job ids; a uuid is compared only by <=, so a number will do
  Key,        \* the cache key (content_sha256, model, requested_language)
  Ttl,        \* UPLOAD_TTL_SECONDS
  MaxTime     \* bound on the clock, for model checking

ASSUME JobAssumption     == Job \subseteq Nat \ {0} /\ IsFiniteSet(Job)
ASSUME TtlAssumption     == Ttl \in Nat \ {0}
ASSUME MaxTimeAssumption == MaxTime \in Nat

Status == {"awaiting_upload", "pending", "processing", "ready", "failed"}

Time     == 0 .. MaxTime            \* what unix_timestamp() may return
NULL     == 0                       \* SQL NULL in upload_expires_at
Deadline == Ttl .. (MaxTime + Ttl)  \* a reading of the clock plus the TTL

Row == [ key     : Key,
         status  : Status,
         expires : Deadline \cup {NULL},  \* upload_expires_at
         error   : BOOLEAN,               \* error IS NOT NULL
         path    : BOOLEAN,               \* transcript_path IS NOT NULL
         created : Time,                  \* created_at, in whole seconds
         rowid   : Nat ]

IsTable(tbl) == DOMAIN tbl \subseteq Job /\ tbl \in [DOMAIN tbl -> Row]

EmptyTable == [j \in {} |-> [status |-> "failed"]]

-----------------------------------------------------------------------------
(* SELECT statements.                                                      *)

InStatus(tbl, s) == {j \in DOMAIN tbl : tbl[j].status = s}

\* find_by_key: the rows of a key.  The primary key allows at most one.
FindByKey(tbl, k) == {j \in DOMAIN tbl : tbl[j].key = k}

\* Mutant: ORDER BY job_id.
ClaimedBeforeById(tbl, i, j) == i < j

\* The order of claim_next's subselect: created_at, and among rows of one
\* second the order of the index on (status, created_at), which is the rowid.
ClaimedBefore(tbl, i, j) ==
  \/ tbl[i].created < tbl[j].created
  \/ tbl[i].created = tbl[j].created /\ tbl[i].rowid < tbl[j].rowid

\* The row claim_next would take: a singleton, or empty when the queue is.
ClaimHead(tbl) ==
  {j \in InStatus(tbl, "pending") :
     \A i \in InStatus(tbl, "pending") \ {j} : ClaimedBefore(tbl, j, i)}

\* Mutant: rows of one second are all counted.
QueuedUpToSecond(tbl, j) ==
  {i \in InStatus(tbl, "pending") : tbl[i].created <= tbl[j].created}

\* pending_position orders rows of one second by job id instead.
QueuedUpTo(tbl, j) ==
  {i \in InStatus(tbl, "pending") :
     \/ tbl[i].created < tbl[j].created
     \/ tbl[i].created = tbl[j].created /\ i <= j}

\* 0 stands for None: the job has no row, or its row is not pending.
PendingPosition(tbl, j) ==
  IF j \in InStatus(tbl, "pending") THEN Cardinality(QueuedUpTo(tbl, j)) ELSE 0

-----------------------------------------------------------------------------
(* INSERT and UPDATE statements.  An UPDATE whose WHERE selects no row     *)
(* leaves the table as it is.                                              *)

\* Mutant: no unique key, so no conflict.
InsertAlways(tbl, j, k, e, t) ==
  [i \in DOMAIN tbl \cup {j} |->
     IF i # j THEN tbl[i]
     ELSE [key |-> k, status |-> "awaiting_upload", expires |-> e,
           error |-> FALSE, path |-> FALSE, created |-> t,
           rowid |-> Cardinality(DOMAIN tbl) + 1]]

\* ON CONFLICT (content_sha256, model, requested_language) DO NOTHING.
InsertAwaitingUpload(tbl, j, k, e, t) ==
  IF FindByKey(tbl, k) # {} THEN tbl
  ELSE [i \in DOMAIN tbl \cup {j} |->
          IF i # j THEN tbl[i]
          ELSE [key |-> k, status |-> "awaiting_upload", expires |-> e,
                error |-> FALSE, path |-> FALSE, created |-> t,
                rowid |-> Cardinality(DOMAIN tbl) + 1]]

\* Mutants: the old error is kept; the status is not in the WHERE clause; the
\* new deadline is forgotten.
RequeueKeepingError(tbl, j, e) ==
  [i \in DOMAIN tbl |->
     IF i = j /\ tbl[i].status = "failed"
     THEN [tbl[i] EXCEPT !.status = "awaiting_upload", !.expires = e]
     ELSE tbl[i]]
RequeueAnyStatus(tbl, j, e) ==
  [i \in DOMAIN tbl |->
     IF i = j
     THEN [tbl[i] EXCEPT !.status = "awaiting_upload", !.error = FALSE,
                         !.expires = e]
     ELSE tbl[i]]
RequeueWithoutDeadline(tbl, j, e) ==
  [i \in DOMAIN tbl |->
     IF i = j /\ tbl[i].status = "failed"
     THEN [tbl[i] EXCEPT !.status = "awaiting_upload", !.error = FALSE,
                         !.expires = NULL]
     ELSE tbl[i]]

RequeueFailed(tbl, j, e) ==
  [i \in DOMAIN tbl |->
     IF i = j /\ tbl[i].status = "failed"
     THEN [tbl[i] EXCEPT !.status = "awaiting_upload", !.error = FALSE,
                         !.expires = e]
     ELSE tbl[i]]

\* Mutants: the deadline of the upload is kept; the status is not looked at.
MarkAudioReadyKeepingDeadline(tbl, j) ==
  [i \in DOMAIN tbl |->
     IF i = j /\ tbl[i].status = "awaiting_upload"
     THEN [tbl[i] EXCEPT !.status = "pending", !.error = FALSE]
     ELSE tbl[i]]

MarkAudioReadyAnyStatus(tbl, j) ==
  [i \in DOMAIN tbl |->
     IF i = j
     THEN [tbl[i] EXCEPT !.status = "pending", !.error = FALSE,
                         !.expires = NULL]
     ELSE tbl[i]]

MarkAudioReady(tbl, j) ==
  [i \in DOMAIN tbl |->
     IF i = j /\ tbl[i].status = "awaiting_upload"
     THEN [tbl[i] EXCEPT !.status = "pending", !.error = FALSE,
                         !.expires = NULL]
     ELSE tbl[i]]

\* Mutants: the time to live is added to the deadline a second time; the
\* status is not looked at.
ReturnWithTtlTwice(tbl, j, e) ==
  [i \in DOMAIN tbl |->
     IF i = j /\ tbl[i].status = "processing"
     THEN [tbl[i] EXCEPT !.status = "awaiting_upload", !.error = FALSE,
                         !.expires = e + Ttl]
     ELSE tbl[i]]

ReturnAnyStatus(tbl, j, e) ==
  [i \in DOMAIN tbl |->
     IF i = j
     THEN [tbl[i] EXCEPT !.status = "awaiting_upload", !.error = FALSE,
                         !.expires = e]
     ELSE tbl[i]]

ReturnToAwaitingUpload(tbl, j, e) ==
  [i \in DOMAIN tbl |->
     IF i = j /\ tbl[i].status = "processing"
     THEN [tbl[i] EXCEPT !.status = "awaiting_upload", !.error = FALSE,
                         !.expires = e]
     ELSE tbl[i]]

\* Mutant: the comparison is the wrong way round.
ExpireEarlyUploads(tbl, t) ==
  [i \in DOMAIN tbl |->
     IF /\ tbl[i].status = "awaiting_upload"
        /\ tbl[i].expires # NULL /\ t <= tbl[i].expires
     THEN [tbl[i] EXCEPT !.status = "failed", !.error = TRUE]
     ELSE tbl[i]]

\* `upload_expires_at <= ?' is not true of NULL.
ExpireUploads(tbl, t) ==
  [i \in DOMAIN tbl |->
     IF /\ tbl[i].status = "awaiting_upload"
        /\ tbl[i].expires # NULL /\ tbl[i].expires <= t
     THEN [tbl[i] EXCEPT !.status = "failed", !.error = TRUE]
     ELSE tbl[i]]

\* Mutant: only rows that have a deadline are reset.
ResetOverdue(tbl) ==
  [i \in DOMAIN tbl |->
     IF tbl[i].status = "processing" /\ tbl[i].expires # NULL
     THEN [tbl[i] EXCEPT !.status = "pending"]
     ELSE tbl[i]]

ResetProcessing(tbl) ==
  [i \in DOMAIN tbl |->
     IF tbl[i].status = "processing"
     THEN [tbl[i] EXCEPT !.status = "pending"]
     ELSE tbl[i]]

ClaimNext(tbl) ==
  [i \in DOMAIN tbl |->
     IF i \in ClaimHead(tbl)
     THEN [tbl[i] EXCEPT !.status = "processing"]
     ELSE tbl[i]]

\* Mutant: the path is not stored.
MarkReadyWithoutPath(tbl, j) ==
  [i \in DOMAIN tbl |->
     IF i = j THEN [tbl[i] EXCEPT !.status = "ready", !.error = FALSE]
     ELSE tbl[i]]

\* mark_ready and mark_failed select by job id alone, whatever the status.
MarkReady(tbl, j) ==
  [i \in DOMAIN tbl |->
     IF i = j
     THEN [tbl[i] EXCEPT !.status = "ready", !.path = TRUE, !.error = FALSE]
     ELSE tbl[i]]

MarkFailed(tbl, j) ==
  [i \in DOMAIN tbl |->
     IF i = j THEN [tbl[i] EXCEPT !.status = "failed", !.error = TRUE]
     ELSE tbl[i]]

=============================================================================
