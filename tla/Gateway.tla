------------------------------- MODULE Gateway -------------------------------
(***************************************************************************)
(* The gateway process: the request handlers of api.rs, the background     *)
(* loop of worker.rs and process restarts, over the transcriptions table,  *)
(* the transcript files and the in-memory progress map.                    *)
(*                                                                         *)
(* The handlers are async functions on a multi-threaded runtime, so any    *)
(* two of them interleave wherever one of them awaits.  An action here is  *)
(* one awaited call (a SQL statement, a file operation) together with the  *)
(* synchronous code that runs after it, up to the next await.  A request   *)
(* in flight is a Call with the name of the call it awaits next in `pc'.   *)
(*                                                                         *)
(* Notify::notify_waiters stores no permit: it only wakes status streams,  *)
(* which StatusStream models.  Here, where there are none, it has no       *)
(* effect and is left out.                                                 *)
(***************************************************************************)
EXTENDS Transcriptions

CONSTANTS
  Call,       \* requests that may be in flight at once
  NoKey,      \* the key of a request that has none
  MaxStarts,  \* bound on the starts of the process, for model checking
  Serial      \* TRUE: WhisperX sends no result or failure for a job while
              \* an earlier one for that job is still being handled.
              \* FALSE: it may, as a retry after a timeout does.

ASSUME NoKeyAssumption     == NoKey \notin Key
ASSUME MaxStartsAssumption == MaxStarts \in Nat \ {0}
ASSUME SerialAssumption    == Serial \in BOOLEAN

VARIABLES
  table,      \* the transcriptions table
  now,        \* the clock, in seconds
  tmp,        \* DATA_DIR/tmp/{job_id}.json.tmp, by job
  store,      \* DATA_DIR/transcripts/..., by key: the path is made of the key
  call,       \* the requests in flight
  poll,       \* the loop of worker.rs: the call it awaits next
  active,     \* its active_job_id
  progress,   \* the jobs that have a snapshot in JobProgress
  recovered,  \* reset_processing has succeeded since the process started
  epoch,      \* how often the process was started
  claimedIn   \* history: the epoch in which each job was last claimed

db    == <<table, now>>
files == <<tmp, store>>
loop  == <<poll, active, recovered, epoch>>
vars  == <<table, now, tmp, store, call, poll, active, progress, recovered,
           epoch, claimedIn>>

NoJob == 0

\* A file is absent, holds a prefix or a mixture of transcripts, or holds
\* one transcript as serde_json wrote it.
Content == {"absent", "torn", "whole"}

\* Where the file a writer has open is linked: a rename moves it from the
\* temporary name to the transcript's, the next rename unlinks it.
Link == {"none", "tmp", "store", "unlinked"}

Idle == [pc |-> "idle", job |-> NoJob, key |-> NoKey, t |-> 0,
         fd |-> "none", shared |-> FALSE, answer |-> "none"]

Begun(step, j)  == [Idle EXCEPT !.pc = step, !.job = j]
Answer(answer)  == [Idle EXCEPT !.pc = "done", !.answer = answer]
Become(c, r)    == call' = [call EXCEPT ![c] = r]
At(c, step)     == call[c].pc = step
HasRow(j)       == j \in DOMAIN table
IsIn(j, states) == HasRow(j) /\ table[j].status \in states

\* The process accepts requests as soon as main has bound the listener,
\* which does not wait for the loop it spawned before.
Accepts(c) == poll # "down" /\ At(c, "idle")

Init ==
  /\ table = EmptyTable
  /\ now = 0
  /\ tmp = [j \in Job |-> "absent"]
  /\ store = [k \in Key |-> "absent"]
  /\ call = [c \in Call |-> Idle]
  /\ poll = "down"
  /\ active = NoJob
  /\ progress = {}
  /\ recovered = FALSE
  /\ epoch = 0
  /\ claimedIn = [j \in Job |-> 0]

-----------------------------------------------------------------------------
(* Client requests.                                                        *)

\* The answer to a lookup names the key asked for and the job found.
Done(r, j, answer) == [Answer(answer) EXCEPT !.job = j, !.key = r.key]

\* record_response: a ready row sends the handler to the transcript file.
Responded(r, j) ==
  CASE table[j].status = "ready"  -> [r EXCEPT !.pc = "read_file", !.job = j]
    [] table[j].status = "failed" -> Done(r, j, "failed")
    [] OTHER                      -> Done(r, j, "accepted")

\* Mutant: the time to live is not added.
UploadDeadlineNow == now

\* unix_timestamp() + UPLOAD_TTL_SECONDS.
UploadDeadline == now + Ttl

\* The deadline for a new upload is computed here, before the row is read.
LookupExpire(c, k) ==
  /\ Accepts(c)
  /\ table' = ExpireUploads(table, now)
  /\ Become(c, [Begun("lookup_find", NoJob) EXCEPT !.key = k,
                                                   !.t = UploadDeadline])
  /\ UNCHANGED <<now, files, loop, progress, claimedIn>>

\* Uuid::new_v4 returns an id that no row has and no other request holds.
FreshJob == Job \ (DOMAIN table \cup {call[d].job : d \in Call})

LookupFind(c) ==
  /\ At(c, "lookup_find")
  /\ \/ /\ FindByKey(table, call[c].key) = {}
        /\ \E j \in FreshJob :
             Become(c, [call[c] EXCEPT !.pc = "lookup_insert", !.job = j])
     \/ \E j \in FindByKey(table, call[c].key) :
          IF table[j].status = "failed"
          THEN Become(c, [call[c] EXCEPT !.pc = "lookup_requeue", !.job = j])
          ELSE Become(c, Responded(call[c], j))
  /\ UNCHANGED <<db, files, loop, progress, claimedIn>>

LookupInsert(c) ==
  LET r == call[c] IN
  /\ At(c, "lookup_insert")
  /\ table' = InsertAwaitingUpload(table, r.job, r.key, r.t, now)
  /\ Become(c, [r EXCEPT !.pc = IF FindByKey(table, r.key) = {}
                                THEN "lookup_created" ELSE "lookup_conflict"])
  /\ UNCHANGED <<now, files, loop, progress, claimedIn>>

\* Whether the update found the row still failed is not looked at.
LookupRequeue(c) ==
  /\ At(c, "lookup_requeue")
  /\ table' = RequeueFailed(table, call[c].job, call[c].t)
  /\ Become(c, [call[c] EXCEPT !.pc = "lookup_reread"])
  /\ UNCHANGED <<now, files, loop, progress, claimedIn>>

\* Mutant: by job id in any case.
RereadById(c) == {call[c].job} \cap DOMAIN table

\* By job id after an insert or a requeue, by key after a conflict.
Reread(c) ==
  IF At(c, "lookup_conflict") THEN FindByKey(table, call[c].key)
                              ELSE {call[c].job} \cap DOMAIN table

LookupReread(c) ==
  /\ call[c].pc \in {"lookup_created", "lookup_conflict", "lookup_reread"}
  /\ IF Reread(c) = {}
     THEN Become(c, Done(call[c], NoJob, "disappeared"))
     ELSE \E j \in Reread(c) : Become(c, Responded(call[c], j))
  /\ UNCHANGED <<db, files, loop, progress, claimedIn>>

UploadExpired(row) ==
  row.status = "awaiting_upload" /\ row.expires # NULL /\ row.expires <= now

JobFind(c, j) ==
  /\ Accepts(c)
  /\ Become(c, CASE ~HasRow(j) -> Answer("not_found")
                 [] HasRow(j) /\ UploadExpired(table[j]) -> Begun("job_expire", j)
                 [] OTHER -> Responded(Begun("", j), j))
  /\ UNCHANGED <<db, files, loop, progress, claimedIn>>

JobExpire(c) ==
  /\ At(c, "job_expire")
  /\ table' = ExpireUploads(table, now)
  /\ Become(c, [call[c] EXCEPT !.pc = "job_reread"])
  /\ UNCHANGED <<now, files, loop, progress, claimedIn>>

JobReread(c) ==
  /\ At(c, "job_reread")
  /\ Become(c, IF HasRow(call[c].job) THEN Responded(call[c], call[c].job)
                                      ELSE Answer("not_found"))
  /\ UNCHANGED <<db, files, loop, progress, claimedIn>>

\* tokio::fs::read and serde_json::from_slice, of a path taken from the row.
ReadFile(c) ==
  /\ At(c, "read_file")
  /\ LET j == call[c].job IN
     Become(c, Done(call[c], j, IF store[table[j].key] = "whole"
                                THEN "transcript" ELSE "unreadable"))
  /\ UNCHANGED <<db, files, loop, progress, claimedIn>>

-----------------------------------------------------------------------------
(* WhisperX: claims and the audio-ready callback.                          *)

Claim(c) ==
  /\ Accepts(c)
  /\ table' = ClaimNext(table)
  /\ claimedIn' = [j \in Job |-> IF j \in ClaimHead(table) THEN epoch
                                                           ELSE claimedIn[j]]
  /\ \/ ClaimHead(table) = {} /\ Become(c, Answer("no_content"))
     \/ \E j \in ClaimHead(table) : Become(c, Answer("claimed"))
  /\ UNCHANGED <<now, files, loop, progress>>

\* matches: the hash in the request is the row's.
AudioReadyFind(c, j, matches) ==
  /\ Accepts(c)
  /\ Become(c, CASE ~HasRow(j) -> Answer("not_found")
                 [] HasRow(j) /\ ~matches -> Answer("bad_request")
                 [] IsIn(j, {"awaiting_upload"}) /\ matches -> Begun("audio_mark", j)
                 [] IsIn(j, {"pending", "processing", "ready"}) /\ matches ->
                      Answer("no_content")
                 [] OTHER -> Answer("conflict"))
  /\ UNCHANGED <<db, files, loop, progress, claimedIn>>

AudioReadyMark(c) ==
  /\ At(c, "audio_mark")
  /\ table' = MarkAudioReady(table, call[c].job)
  /\ Become(c, Answer(IF IsIn(call[c].job, {"awaiting_upload"})
                      THEN "no_content" ELSE "conflict"))
  /\ UNCHANGED <<now, files, loop, progress, claimedIn>>

-----------------------------------------------------------------------------
(* WhisperX: results.  tokio::fs::write opens and truncates the temporary  *)
(* file and writes it on a blocking thread.                                *)

\* A result or failure for job j that has passed its status check.
InCallback(d, j) ==
  /\ call[d].job = j
  /\ call[d].pc \in {"result_open", "result_write", "result_rename",
                     "result_mark", "fail_return", "fail_mark", "clear"}

CallbackMayStart(j) == Serial => \A d \in Call : ~InCallback(d, j)

\* valid: validate_transcript accepts the body.
ResultFind(c, j, valid) ==
  /\ Accepts(c) /\ CallbackMayStart(j)
  /\ Become(c, CASE ~HasRow(j) -> Answer("not_found")
                 [] IsIn(j, {"ready"}) -> Answer("no_content")
                 [] IsIn(j, {"processing"}) /\ ~valid ->
                      Answer("bad_request")
                 [] IsIn(j, {"processing"}) /\ valid -> Begun("result_open", j)
                 [] OTHER -> Answer("conflict"))
  /\ UNCHANGED <<db, files, loop, progress, claimedIn>>

\* The other requests that have the temporary file of job j open.
TmpWriters(c, j) == {d \in Call \ {c} : call[d].job = j /\ call[d].fd = "tmp"}

ResultOpen(c) ==
  LET others == TmpWriters(c, call[c].job) IN
  /\ At(c, "result_open")
  /\ tmp' = [tmp EXCEPT ![call[c].job] = "torn"]
  /\ call' = [d \in Call |->
       CASE d = c -> [call[c] EXCEPT !.pc = "result_write", !.fd = "tmp",
                                     !.shared = (others # {})]
         [] d \in others -> [call[d] EXCEPT !.shared = TRUE]
         [] OTHER -> call[d]]
  /\ UNCHANGED <<db, store, loop, progress, claimedIn>>

\* Mutant: the row is marked and the file never renamed.
ResultWriteOnly(c) ==
  /\ At(c, "result_write")
  /\ tmp' = [tmp EXCEPT ![call[c].job] = "whole"]
  /\ Become(c, [call[c] EXCEPT !.pc = "result_mark", !.fd = "none",
                               !.shared = FALSE])
  /\ UNCHANGED <<db, store, loop, progress, claimedIn>>

\* Two writers of one file overwrite each other from its start.
ResultWrite(c) ==
  LET r == call[c] IN
  /\ At(c, "result_write")
  /\ \E content \in IF r.shared THEN {"torn", "whole"} ELSE {"whole"} :
       /\ tmp' = IF r.fd = "tmp" THEN [tmp EXCEPT ![r.job] = content] ELSE tmp
       /\ store' = IF r.fd = "store"
                   THEN [store EXCEPT ![table[r.job].key] = content] ELSE store
  /\ Become(c, [r EXCEPT !.pc = "result_rename", !.fd = "none",
                         !.shared = FALSE])
  /\ UNCHANGED <<db, loop, progress, claimedIn>>

\* A second rename of the same temporary name finds nothing to rename.
ResultRename(c) ==
  LET j == call[c].job
      Moved(d) == CASE call[d].job = j /\ call[d].fd = "tmp" -> "store"
                    [] call[d].job = j /\ call[d].fd = "store" -> "unlinked"
                    [] OTHER -> call[d].fd
  IN
  /\ At(c, "result_rename")
  /\ IF tmp[j] = "absent"
     THEN Become(c, Answer("error")) /\ UNCHANGED files
     ELSE /\ store' = [store EXCEPT ![table[j].key] = tmp[j]]
          /\ tmp' = [tmp EXCEPT ![j] = "absent"]
          /\ call' = [d \in Call |->
               IF d = c THEN [call[c] EXCEPT !.pc = "result_mark"]
                        ELSE [call[d] EXCEPT !.fd = Moved(d)]]
  /\ UNCHANGED <<db, loop, progress, claimedIn>>

ResultMark(c) ==
  /\ At(c, "result_mark")
  /\ table' = MarkReady(table, call[c].job)
  /\ Become(c, [call[c] EXCEPT !.pc = "clear"])
  /\ UNCHANGED <<now, files, loop, progress, claimedIn>>

-----------------------------------------------------------------------------
(* WhisperX: failures.                                                     *)

Reason == {"audio_missing", "transcription_failed", "unknown"}

FailFind(c, j, reason) ==
  LET missing == reason = "audio_missing"
      failed  == reason = "transcription_failed"
  IN
  /\ Accepts(c) /\ CallbackMayStart(j)
  /\ Become(c, CASE ~HasRow(j) -> Answer("not_found")
                 [] HasRow(j) /\ ~missing /\ ~failed ->
                      Answer("bad_request")
                 [] \/ missing /\ IsIn(j, {"awaiting_upload"})
                    \/ failed /\ IsIn(j, {"failed"}) ->
                      Answer("no_content")
                 [] missing /\ IsIn(j, {"processing"}) ->
                      [Begun("fail_return", j) EXCEPT !.t = UploadDeadline]
                 [] failed /\ IsIn(j, {"processing"}) -> Begun("fail_mark", j)
                 [] OTHER -> Answer("conflict"))
  /\ UNCHANGED <<db, files, loop, progress, claimedIn>>

FailReturn(c) ==
  /\ At(c, "fail_return")
  /\ table' = ReturnToAwaitingUpload(table, call[c].job, call[c].t)
  /\ Become(c, [call[c] EXCEPT !.pc = "clear"])
  /\ UNCHANGED <<now, files, loop, progress, claimedIn>>

FailMark(c) ==
  /\ At(c, "fail_mark")
  /\ table' = MarkFailed(table, call[c].job)
  /\ Become(c, [call[c] EXCEPT !.pc = "clear"])
  /\ UNCHANGED <<now, files, loop, progress, claimedIn>>

\* progress.clear, after the statement of a result or a failure.
Clear(c) ==
  /\ At(c, "clear")
  /\ progress' = progress \ {call[c].job}
  /\ Become(c, Answer("no_content"))
  /\ UNCHANGED <<db, files, loop, claimedIn>>

-----------------------------------------------------------------------------
(* The end of a request.                                                   *)

Reply(c) ==
  /\ At(c, "done")
  /\ Become(c, Idle)
  /\ UNCHANGED <<db, files, loop, progress, claimedIn>>

\* Mutant: an error of the write is ignored, the rename follows it.
AbandonUnlessWriting(c) ==
  /\ call[c].pc \notin {"idle", "done"}
  /\ Become(c, IF At(c, "result_write")
               THEN [call[c] EXCEPT !.pc = "result_rename", !.fd = "none"]
               ELSE Idle)
  /\ UNCHANGED <<db, files, loop, progress, claimedIn>>

\* A statement or file operation fails and `?' returns early, or the client
\* disconnects and the handler is dropped where it awaits.  A call that is
\* already running on a blocking thread completes all the same: that is the
\* handler being dropped at the next await.
Abandon(c) ==
  /\ call[c].pc \notin {"idle", "done"}
  /\ Become(c, Idle)
  /\ UNCHANGED <<db, files, loop, progress, claimedIn>>

-----------------------------------------------------------------------------
(* The process: start, crash, and the loop of worker.rs.                   *)

Tick ==
  /\ now < MaxTime
  /\ now' = now + 1
  /\ UNCHANGED <<table, files, call, loop, progress, claimedIn>>

Start ==
  /\ poll = "down"
  /\ poll' = "reset"
  /\ epoch' = epoch + 1
  /\ UNCHANGED <<db, files, call, active, progress, recovered, claimedIn>>

\* Everything in memory is lost, at any point of any request.
Crash ==
  /\ poll # "down" /\ epoch < MaxStarts
  /\ poll' = "down"
  /\ active' = NoJob
  /\ progress' = {}
  /\ recovered' = FALSE
  /\ call' = [c \in Call |-> Idle]
  /\ UNCHANGED <<db, files, epoch, claimedIn>>

\* An error is only logged: the loop starts all the same.  It does not if
\* the HTTP client cannot be built, and nothing starts it again.
PollReset ==
  /\ poll = "reset"
  /\ poll' \in {"expire", "stopped"}
  /\ \/ table' = ResetProcessing(table) /\ recovered' = TRUE
     \/ UNCHANGED <<table, recovered>>
  /\ UNCHANGED <<now, files, call, active, progress, epoch, claimedIn>>

PollExpire ==
  /\ poll = "expire"
  /\ poll' = "find"
  /\ table' = ExpireUploads(table, now)
  /\ UNCHANGED <<now, files, call, active, progress, recovered, epoch, claimedIn>>

\* Mutants: the job watched before is never cleared, or only when the loop
\* turns to another job and not when it finds none.
UnwatchNever(j)    == progress
UnwatchOnSwitch(j) ==
  IF j \in {active, NoJob} THEN progress ELSE progress \ {active}

\* progress.clear of the job watched before, when the loop turns to job j.
Unwatch(j) == IF j = active THEN progress ELSE progress \ {active}

\* find_processing takes the row updated longest ago: here, any of them.
PollFind ==
  /\ poll = "find"
  /\ \/ \E j \in InStatus(table, "processing") :
          /\ active' = j
          /\ progress' = Unwatch(j)
          /\ poll' = "fetch"
     \/ /\ InStatus(table, "processing") = {}
        /\ active' = NoJob
        /\ progress' = Unwatch(NoJob)
        /\ poll' = "expire"
  /\ UNCHANGED <<db, files, call, recovered, epoch, claimedIn>>

\* WhisperX answers with a snapshot of this job, or with none in time.
PollFetch ==
  /\ poll = "fetch"
  /\ poll' = "expire"
  /\ progress' \in {progress, progress \cup {active}}
  /\ UNCHANGED <<db, files, call, active, recovered, epoch, claimedIn>>

\* A statement of the loop fails and is logged.
PollError ==
  /\ poll \in {"expire", "find"}
  /\ poll' = IF poll = "expire" THEN "find" ELSE "expire"
  /\ UNCHANGED <<db, files, call, active, progress, recovered, epoch, claimedIn>>

-----------------------------------------------------------------------------
ClientStep(c) ==
  \/ \E k \in Key : LookupExpire(c, k)
  \/ LookupFind(c)
  \/ LookupInsert(c)
  \/ LookupRequeue(c)
  \/ LookupReread(c)
  \/ \E j \in Job : JobFind(c, j)
  \/ JobExpire(c)
  \/ JobReread(c)
  \/ ReadFile(c)

WorkerStep(c) ==
  \/ Claim(c)
  \/ \E j \in Job, matches \in BOOLEAN : AudioReadyFind(c, j, matches)
  \/ AudioReadyMark(c)
  \/ \E j \in Job, valid \in BOOLEAN : ResultFind(c, j, valid)
  \/ ResultOpen(c)
  \/ ResultWrite(c)
  \/ ResultRename(c)
  \/ ResultMark(c)
  \/ \E j \in Job, reason \in Reason : FailFind(c, j, reason)
  \/ FailReturn(c)
  \/ FailMark(c)
  \/ Clear(c)

ProcessStep ==
  \/ Tick
  \/ Start
  \/ Crash
  \/ PollReset
  \/ PollExpire
  \/ PollFind
  \/ PollFetch
  \/ PollError

Next ==
  \/ ProcessStep
  \/ \E c \in Call : \/ ClientStep(c)
                     \/ WorkerStep(c)
                     \/ Reply(c)
                     \/ Abandon(c)

Spec == Init /\ [][Next]_vars

-----------------------------------------------------------------------------
(* Properties that hold whatever WhisperX and the clients do.              *)

Step == {"idle", "lookup_find", "lookup_insert", "lookup_requeue",
         "lookup_reread", "lookup_created", "lookup_conflict", "job_expire",
         "job_reread", "read_file", "audio_mark", "result_open",
         "result_write", "result_rename", "result_mark", "fail_return",
         "fail_mark", "clear", "done"}

AnswerCode == {"none", "accepted", "failed", "transcript", "unreadable",
               "disappeared", "not_found", "claimed", "no_content",
               "bad_request", "conflict", "error"}

CallRecord == [ pc : Step, job : Job \cup {NoJob}, key : Key \cup {NoKey},
                t : Deadline \cup {0}, fd : Link, shared : BOOLEAN,
                answer : AnswerCode ]

\* Type invariant.
TypeOK ==
  /\ IsTable(table)
  /\ now \in Time
  /\ tmp \in [Job -> Content]
  /\ store \in [Key -> Content]
  /\ call \in [Call -> CallRecord]
  /\ poll \in {"down", "reset", "expire", "find", "fetch", "stopped"}
  /\ active \in Job \cup {NoJob}
  /\ progress \subseteq Job
  /\ recovered \in BOOLEAN
  /\ epoch \in 0 .. MaxStarts
  /\ claimedIn \in [Job -> 0 .. MaxStarts]

\* The handlers and the loop change the table only by the statements of
\* db.rs, with arguments those statements are meant for: a deadline counted
\* from a reading of the clock, an expiry that is not in the future.
JS == INSTANCE JobStore
ImplementsJobStore == JS!Spec

\* However lookups of one key race with each other, with expiry and with
\* retries, a lookup finds the job it created, lost the race to or requeued
\* (api.rs:132, 174-176), and answers with the job of the key it was given.
LookupFindsItsJob ==
  \A c \in Call :
    call[c].pc \in {"read_file", "done"} /\ call[c].key # NoKey
      => /\ call[c].answer # "disappeared"
         /\ HasRow(call[c].job) /\ table[call[c].job].key = call[c].key

\* Once the startup reset has succeeded, no job is left at the worker from
\* before the start: a claim whose answer or worker was lost is not stuck
\* beyond the next restart (worker.rs:20-24).
RecoveryIsComplete ==
  recovered =>
    \A j \in InStatus(table, "processing") : claimedIn[j] = epoch

\* The progress map never holds more than the job the loop is polling, so
\* it does not grow with the jobs that were ever processed, although the
\* loop may store a snapshot after a handler cleared it (worker.rs:45-65).
ProgressOnlyOfActiveJob == progress \subseteq {active}

\* However many results and failures for one job overlap, and whatever fails
\* between the write, the rename and the update (api.rs:304-325): a ready job
\* has a file where its transcript is looked for, if not always a whole one.
ReadyHasFile ==
  \A j \in InStatus(table, "ready") : store[table[j].key] # "absent"

\* No statement that was decided on before a job became ready takes it back to
\* its upload or to the queue (the WHERE clauses of db.rs:101-132): its result
\* is undone by nothing but a failure that was on its way as well.
ReadyIsNotRetried ==
  [][\A j \in InStatus(table, "ready") : table'[j].status \in {"ready", "failed"}]_vars

\* A lookup that decided to requeue a job, and a failure that returns one, come
\* with a deadline computed earlier (api.rs:118, 357).  While an upload is waited
\* for, none of them replaces the deadline its client was given a token for.
DeadlineIsKept ==
  [][\A j \in InStatus(table, "awaiting_upload") :
       table'[j].status = "awaiting_upload" => table'[j].expires = table[j].expires]_vars

-----------------------------------------------------------------------------
(* Properties that hold when callbacks for one job do not overlap.         *)

\* A ready job has its transcript on disk, complete, across dropped
\* requests, write errors and crashes at every step of the result handler.
ReadyHasTranscript ==
  \A j \in InStatus(table, "ready") : store[table[j].key] = "whole"

\* A job that is ready stays ready: the status sequence of README.md:47-52
\* has no way out of `ready'.
ReadyIsFinal ==
  [][\A j \in InStatus(table, "ready") : table'[j].status = "ready"]_vars

\* The status sequence of README.md:45-55, with the job at the worker that goes
\* back to its upload (README.md:255).
Successors(status) ==
  CASE status = "awaiting_upload" -> {"pending", "failed"}
    [] status = "pending"         -> {"processing"}
    [] status = "processing"      -> {"ready", "failed", "awaiting_upload", "pending"}
    [] status = "ready"           -> {}
    [] status = "failed"          -> {"awaiting_upload"}

InSequence(j) == table'[j].status \in {table[j].status} \cup Successors(table[j].status)

\* Whatever a handler read before, a job takes no step that is not in the
\* sequence, with one exception: it has been at the worker, the startup reset of
\* this process has returned it to the queue, and a callback that read
\* `processing' before that ends it there (db.rs:202, 234).
OnlyResetBreaksSequence ==
  [][\A j \in DOMAIN table :
       \/ InSequence(j)
       \/ /\ table[j].status = "pending" /\ table'[j].status \in {"ready", "failed"}
          /\ recovered /\ claimedIn[j] # 0]_vars

\* An upload is given up only after its deadline, not by a failure that was
\* reported for an earlier state of the job.
UploadNotCutShort ==
  [][\A j \in InStatus(table, "awaiting_upload") :
       table'[j].status = "failed" => table[j].expires <= now]_vars

\* Seen through the file as well as the row, the gateway keeps the promise
\* of TranscriptCache.
EntryOf(k) ==
  LET rows == FindByKey(table, k)
      In(s) == \E j \in rows : table[j].status \in s
  IN  CASE rows = {}         -> "unknown"
        [] In({"failed"})    -> "given_up"
        [] In({"ready"}) /\ store[k] = "whole" -> "served"
        [] OTHER             -> "wanted"

Cache == INSTANCE TranscriptCache WITH entry <- [k \in Key |-> EntryOf(k)]
ImplementsTranscriptCache == Cache!Spec

-----------------------------------------------------------------------------
(* Statements of the documentation that the code does not keep.            *)

\* README.md:47-52: a job takes no step that is not in the sequence, `pending'
\* being followed by `processing' alone.
FollowsSequence == [][\A j \in DOMAIN table : InSequence(j)]_vars

\* worker.rs:21: the jobs that the startup reset returns to the queue are
\* interrupted ones, claimed before the process was started.
OnlyInterruptedJobsAreReset ==
  [][\A j \in InStatus(table, "processing") :
       table'[j].status = "pending" => claimedIn[j] < epoch]_vars

-----------------------------------------------------------------------------
(* Liveness.  The loop is a task of its own that never returns, systemd    *)
(* starts the process again after a crash, and the statements of the loop  *)
(* do not fail for ever.                                                   *)

Fairness ==
  /\ WF_vars(Start)
  /\ WF_vars(PollReset)
  /\ SF_vars(PollExpire)
  /\ SF_vars(PollFind)
  /\ WF_vars(PollFetch)
  /\ WF_vars(PollError)

FairSpec == Spec /\ Fairness

\* README.md:54-55: a job whose upload was abandoned does not keep waiting
\* after its deadline, even if no client ever asks again, unless the loop could
\* not start.
AbandonedUploadsExpire ==
  \A j \in Job :
    IsIn(j, {"awaiting_upload"}) /\ table[j].expires <= now
      ~> \/ ~(IsIn(j, {"awaiting_upload"}) /\ table[j].expires <= now)
         \/ poll = "stopped"

\* A snapshot stored after its job left the worker is dropped again, so a
\* failed job does not go on showing the progress of its last attempt.
StaleProgressIsDropped ==
  \A j \in Job :
    j \in progress /\ ~IsIn(j, {"processing"})
      ~> j \notin progress \/ IsIn(j, {"processing"})

=============================================================================
