------------------------------- MODULE JobStore -------------------------------
(***************************************************************************)
(* The database as db.rs offers it to the rest of the gateway: any of its  *)
(* statements, with any legal argument, at any moment.  Nothing is assumed *)
(* about the callers, so what holds here holds whatever the handlers of    *)
(* api.rs and the loop of worker.rs do, however their steps interleave.    *)
(* It is the abstract specification that Gateway is shown to implement.    *)
(***************************************************************************)
EXTENDS Transcriptions

VARIABLES
  table,   \* the transcriptions table
  now      \* the clock

vars == <<table, now>>

Init == table = EmptyTable /\ now = 0

Tick == now < MaxTime /\ now' = now + 1 /\ UNCHANGED table

\* A job id is a fresh uuid: it has no row yet.
Insert(j, k, e) ==
  /\ j \notin DOMAIN table
  /\ table' = InsertAwaitingUpload(table, j, k, e, now)
  /\ UNCHANGED now

Requeue(j, e) == table' = RequeueFailed(table, j, e) /\ UNCHANGED now

AudioReady(j) == table' = MarkAudioReady(table, j) /\ UNCHANGED now

Return(j, e) == table' = ReturnToAwaitingUpload(table, j, e) /\ UNCHANGED now

\* The clock is read before the statement runs: t is never in the future.
Expire(t) == t <= now /\ table' = ExpireUploads(table, t) /\ UNCHANGED now

Reset == table' = ResetProcessing(table) /\ UNCHANGED now

Claim == table' = ClaimNext(table) /\ UNCHANGED now

Ready(j) == table' = MarkReady(table, j) /\ UNCHANGED now

Fail(j) == table' = MarkFailed(table, j) /\ UNCHANGED now

Next ==
  \/ Tick
  \/ Reset
  \/ Claim
  \/ \E t \in Time : Expire(t)
  \/ \E j \in Job :
       \/ AudioReady(j)
       \/ Ready(j)
       \/ Fail(j)
       \/ \E e \in Deadline :
            \/ Requeue(j, e)
            \/ Return(j, e)
            \/ \E k \in Key : Insert(j, k, e)

Spec == Init /\ [][Next]_vars

-----------------------------------------------------------------------------
(* Properties.                                                             *)

\* Type invariant: every row has columns of the declared kinds.
TypeOK == IsTable(table) /\ now \in Time

\* The `error' column is filled exactly while the job is failed, although
\* six statements write the status and only some of them touch the column:
\* JobResponse::from_record (models.rs:150) shows it to clients unchecked.
ErrorIffFailed ==
  \A j \in DOMAIN table : table[j].error <=> table[j].status = "failed"

\* A job that waits for an upload has a deadline, or it could never expire
\* and its answer would carry no token (api.rs:511-512); a job in the queue
\* or at the worker has none left over from its upload.
DeadlineMatchesStatus ==
  \A j \in DOMAIN table :
    /\ table[j].status = "awaiting_upload" => table[j].expires # NULL
    /\ table[j].status \in {"pending", "processing"} => table[j].expires = NULL

\* "ready job has no transcript path" (api.rs:461-463) is never answered.
ReadyHasPath ==
  \A j \in DOMAIN table : table[j].status = "ready" => table[j].path

\* Concurrent lookups of one key never leave two jobs for it.
OneJobPerKey ==
  \A i, j \in DOMAIN table : table[i].key = table[j].key => i = j

\* The queue positions reported to clients number the pending jobs from 1
\* without gap or repetition, also for jobs created in the same second.
PositionsNumberTheQueue ==
  {PendingPosition(table, j) : j \in InStatus(table, "pending")}
    = 1 .. Cardinality(InStatus(table, "pending"))

\* A claim takes the one job whose reported queue position is 1, as the test
\* waits_for_audio_before_claim_and_completion (db.rs:279-283) expects.
FirstInQueueIsClaimed ==
  [][\A j \in DOMAIN table :
       table[j].status = "pending" /\ table'[j].status = "processing"
         => PendingPosition(table, j) = 1]_vars

\* No claim passes over a job created in an earlier second, and no other
\* statement moves a job to the worker or two jobs at once (db.rs:164-178).
ClaimsOldest ==
  [][\A j \in DOMAIN table :
       table[j].status # "processing" /\ table'[j].status = "processing"
         => /\ table[j].status = "pending"
            /\ \A i \in DOMAIN table \ {j} :
                 /\ table'[i] = table[i]
                 /\ table[i].status = "pending"
                      => table[j].created <= table[i].created]_vars

=============================================================================
