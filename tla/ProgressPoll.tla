----------------------------- MODULE ProgressPoll -----------------------------
(***************************************************************************)
(* Whose progress the loop of worker.rs shows.  Gateway lets the loop find *)
(* any processing row and store a snapshot at will; here find_processing   *)
(* takes the row updated longest ago, and WhisperX answers for the one job *)
(* it works on.  The handlers are their statements: Gateway implements     *)
(* JobStore, which this module extends.                                    *)
(*                                                                         *)
(* WhisperX is external: it works on one file at a time (README.md:269),   *)
(* claims only when it has none, and may drop the one it has (the answer   *)
(* to its claim is lost, it crashes) without the gateway hearing of it.    *)
(***************************************************************************)
EXTENDS JobStore

VARIABLES
  updated,   \* updated_at of the processing rows, 0 for the others
  busy,      \* the job WhisperX works on
  poll,      \* the loop: the call it awaits next
  active,    \* its active_job_id
  shown      \* the jobs that have a snapshot in JobProgress

pollVars == <<table, now, updated, busy, poll, active, shown>>
loopVars == <<poll, active>>

NoJob == 0

PollInit ==
  /\ Init
  /\ updated = [j \in Job |-> 0]
  /\ busy = NoJob
  /\ poll = "find" /\ active = NoJob
  /\ shown = {}

-----------------------------------------------------------------------------
(* The loop.                                                               *)

\* Mutant: the WHERE lets pending rows through.
OldestQueued ==
  LET rows == InStatus(table, "processing") \cup InStatus(table, "pending")
  IN  {j \in rows : \A i \in rows : updated[j] <= updated[i]}

\* ORDER BY updated_at LIMIT 1, in any order among rows of one second.
OldestProcessing ==
  {j \in InStatus(table, "processing") :
     \A i \in InStatus(table, "processing") : updated[j] <= updated[i]}

\* Mutant: the snapshot of the job watched before is kept.
UnwatchNever(j) == shown

\* Turning from job to job, or to none, clears what was shown before.
Unwatch(j) == IF j = active THEN shown ELSE shown \ {active}

Find ==
  /\ poll = "find"
  /\ \/ active' \in OldestProcessing /\ poll' = "fetch"
     \/ OldestProcessing = {} /\ active' = NoJob /\ poll' = "find"
  /\ shown' = Unwatch(active')
  /\ UNCHANGED <<vars, updated, busy>>

\* fetch_whisperx_progress accepts an answer that names the job asked for.
FetchShown ==
  /\ poll = "fetch" /\ busy = active
  /\ poll' = "find"
  /\ shown' = shown \cup {active}
  /\ UNCHANGED <<vars, updated, busy, active>>

\* There is no answer in two seconds, or it names another job or none.
FetchNothing ==
  /\ poll = "fetch"
  /\ poll' = "find"
  /\ UNCHANGED <<vars, updated, busy, active, shown>>

-----------------------------------------------------------------------------
(* WhisperX and the handlers.                                              *)

\* Mutant: every UPDATE but the one of claim_next sets updated_at.
StampNotClaims ==
  updated' = [j \in Job |->
    IF j \in DOMAIN table' /\ j \notin InStatus(table', "processing")
         /\ (j \in DOMAIN table => table'[j] # table[j])
    THEN now ELSE updated[j]]

\* Every UPDATE sets updated_at; of a processing row, only its claim does.
Stamp ==
  updated' = [j \in Job |->
    IF j \notin InStatus(table', "processing") THEN 0
    ELSE IF j \in InStatus(table, "processing") THEN updated[j] ELSE now]

ClaimNextJob ==
  /\ busy = NoJob
  /\ Claim
  /\ busy' \in IF ClaimHead(table) = {} THEN {NoJob} ELSE ClaimHead(table)
  /\ Stamp
  /\ UNCHANGED <<loopVars, shown>>

\* WhisperX is done with its job, or has lost it.
Drop ==
  /\ busy # NoJob /\ busy' = NoJob
  /\ UNCHANGED <<vars, updated, loopVars, shown>>

\* result and fail clear the snapshot of their job after their statement.
Clear(j) ==
  /\ shown' = shown \ {j}
  /\ UNCHANGED <<vars, updated, busy, loopVars>>

Statement ==
  /\ \/ Tick
     \/ \E t \in Time : Expire(t)
     \/ \E j \in Job :
          \/ AudioReady(j) \/ Ready(j) \/ Fail(j)
          \/ \E e \in Deadline : \/ Requeue(j, e) \/ Return(j, e)
                                 \/ \E k \in Key : Insert(j, k, e)
  /\ Stamp
  /\ UNCHANGED <<busy, loopVars, shown>>

PollNext ==
  \/ Find
  \/ FetchShown
  \/ FetchNothing
  \/ ClaimNextJob
  \/ Drop
  \/ \E j \in Job : Clear(j)
  \/ Statement

PollSpec == PollInit /\ [][PollNext]_pollVars

\* The loop goes on, and WhisperX answers now and then when it is asked for
\* the job it works on.
FairPollSpec ==
  PollSpec /\ WF_pollVars(Find) /\ WF_pollVars(FetchNothing)
           /\ SF_pollVars(FetchShown)

-----------------------------------------------------------------------------
(* Properties.                                                             *)

AtWork(j) == busy = j /\ j \in InStatus(table, "processing")

\* The progress map shows no job but the one the loop watches, whichever of
\* several the loop turns from and to; no claim is dated later than now, and a
\* job that has left the worker carries no date of a claim.
PollTypeOK ==
  /\ TypeOK
  /\ updated \in [Job -> 0 .. now]
  /\ \A j \in Job \ InStatus(table, "processing") : updated[j] = 0
  /\ {busy, active} \subseteq Job \cup {NoJob}
  /\ poll \in {"find", "fetch"} /\ (poll = "fetch" => active # NoJob)
  /\ shown \subseteq {active}

\* WhisperX claims one job at a time, so what else is at the worker was claimed
\* before the job it works on and not after it: find_processing, which takes the
\* row updated longest ago (db.rs:180-189), comes to that job last.
WorkIsClaimedLast ==
  \A j \in Job : AtWork(j) =>
    \A i \in InStatus(table, "processing") : updated[i] <= updated[j]

\* The job WhisperX works on is shown if no lost job keeps it company at the
\* worker: the loop finds it and WhisperX answers for it.
LoneWorkIsShown ==
  \A j \in Job :
    \/ []<>~(AtWork(j) /\ InStatus(table, "processing") = {j})
    \/ []<>(j \in shown)

=============================================================================
