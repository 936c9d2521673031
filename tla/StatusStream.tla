----------------------------- MODULE StatusStream -----------------------------
(***************************************************************************)
(* The status streams of api.rs (job_events, job_status_sse) beside the    *)
(* rest of the gateway, and the graceful shutdown of main.rs, which waits  *)
(* for them.                                                               *)
(*                                                                         *)
(* Every step of Gateway is a step here; one that calls notify_waiters     *)
(* also wakes the streams that wait.  notify_waiters leaves no permit for  *)
(* a stream that does not wait yet.  A stream reads its row in a statement *)
(* and goes on when the runtime polls it again: Read is the statement,     *)
(* Report what follows up to the next await, so a change between them      *)
(* wakes nobody.                                                           *)
(***************************************************************************)
EXTENDS Gateway, JobReport

CONSTANTS
  Stream,     \* status streams that may be open at once
  Reported    \* percentages that WhisperX may report

ASSUME ReportedAssumption == Reported \subseteq Byte

VARIABLES
  stream,     \* the streams
  snapshot,   \* what JobProgress holds of each job in `progress'
  stopping    \* the process was told to stop and has not exited

streamVars == <<vars, stream, snapshot, stopping>>

\* The event being sent, the row it is made of, the last event sent.
Closed == [pc |-> "closed", job |-> NoJob, row |-> {}, event |-> {}, last |-> {}]

Open(s)    == stream[s].pc # "closed"
Final      == {"ready", "failed"}
Moves(s, r) == stream' = [stream EXCEPT ![s] = r]

StreamInit ==
  /\ Init
  /\ stream = [s \in Stream |-> Closed]
  /\ snapshot = [j \in Job |-> NoProgress]
  /\ stopping = FALSE

-----------------------------------------------------------------------------
(* One stream.                                                             *)

\* job_events answers 404 if there is no such job, and opens nothing.
StreamOpen(s, j) ==
  /\ poll # "down" /\ ~stopping /\ ~Open(s)
  /\ HasRow(j)
  /\ Moves(s, [Closed EXCEPT !.pc = "read", !.job = j])

\* A missing row or a failing statement ends the stream with an error event.
StreamRead(s) ==
  LET j == stream[s].job IN
  /\ stream[s].pc = "read"
  /\ \/ HasRow(j) /\ Moves(s, [stream[s] EXCEPT !.pc = "report",
                                                !.row = {table[j]}])
     \/ Moves(s, Closed)

\* Mutant: the stream only ends when the job is ready.
AfterReady(status) == IF status = "ready" THEN "closed" ELSE "wait"

After(status) == IF status \in Final THEN "closed" ELSE "wait"

\* If the statement for the position fails, there is none.
StreamReport(s) ==
  LET j == stream[s].job IN
  /\ stream[s].pc = "report"
  /\ \E row \in stream[s].row, position \in {PendingPosition(table, j), 0} :
       LET payload == JobStatus(j, row, snapshot[j], position) IN
       IF stream[s].last = {payload}
       THEN Moves(s, [stream[s] EXCEPT !.pc = After(row.status), !.row = {}])
       ELSE Moves(s, [stream[s] EXCEPT !.pc = "send", !.row = {},
                                       !.event = {payload}])

\* The client takes the event, and the stream is polled again.
StreamSend(s) ==
  /\ stream[s].pc = "send"
  /\ \E payload \in stream[s].event :
       Moves(s, [stream[s] EXCEPT !.pc = After(payload.status), !.event = {},
                                  !.last = {payload}])

\* Mutant: the stream waits for a notification alone.
NoTimer(s) == FALSE /\ UNCHANGED stream

\* The 500 ms are over.
StreamTimer(s) ==
  /\ stream[s].pc = "wait"
  /\ Moves(s, [stream[s] EXCEPT !.pc = "read"])

\* The client disconnects.
StreamLeave(s) ==
  /\ Open(s)
  /\ Moves(s, Closed)

StreamStep(s) ==
  /\ \/ \E j \in Job : StreamOpen(s, j)
     \/ StreamRead(s)
     \/ StreamReport(s)
     \/ StreamSend(s)
     \/ StreamTimer(s)
     \/ StreamLeave(s)
  /\ UNCHANGED <<vars, snapshot, stopping>>

-----------------------------------------------------------------------------
(* The steps of Gateway, and whom they wake.                               *)

\* jobs_changed.notify_waiters().
WakeIf(notifies) ==
  stream' = [s \in Stream |->
               IF notifies /\ stream[s].pc = "wait"
               THEN [stream[s] EXCEPT !.pc = "read"] ELSE stream[s]]

\* Mutant: clearing the progress map leaves what it held.
ClearNothing == UNCHANGED snapshot

\* The snapshots of the jobs the progress map no longer holds are gone.
KeepSnapshots ==
  snapshot' = [j \in Job |-> IF j \in progress' THEN snapshot[j] ELSE NoProgress]

\* The expiry at the start of a lookup and of a job request notifies nobody.
SilentStep(c) ==
  \/ \E k \in Key : LookupExpire(c, k)
  \/ LookupFind(c)
  \/ LookupInsert(c)
  \/ \E j \in Job : JobFind(c, j)
  \/ JobExpire(c)
  \/ JobReread(c)
  \/ ReadFile(c)
  \/ \E j \in Job, matches \in BOOLEAN : AudioReadyFind(c, j, matches)
  \/ \E j \in Job, valid \in BOOLEAN : ResultFind(c, j, valid)
  \/ ResultOpen(c)
  \/ ResultWrite(c)
  \/ ResultRename(c)
  \/ ResultMark(c)
  \/ \E j \in Job, reason \in Reason : FailFind(c, j, reason)
  \/ FailReturn(c)
  \/ FailMark(c)
  \/ Reply(c)
  \/ Abandon(c)

\* While the process is stopping, requests in flight go on and none starts.
RequestStep(c) ==
  /\ stopping => ~At(c, "idle")
  /\ \/ SilentStep(c) /\ WakeIf(FALSE)
     \/ LookupRequeue(c) /\ WakeIf(TRUE)
     \/ LookupReread(c) /\ WakeIf(~At(c, "lookup_reread"))
     \/ Claim(c) /\ WakeIf(ClaimHead(table) # {})
     \/ AudioReadyMark(c) /\ WakeIf(IsIn(call[c].job, {"awaiting_upload"}))
     \/ Clear(c) /\ WakeIf(TRUE)
  /\ KeepSnapshots
  /\ UNCHANGED stopping

\* The reset at startup, and turning from one job to another, notify nobody.
LoopStep ==
  /\ \/ Tick /\ WakeIf(FALSE)
     \/ PollReset /\ WakeIf(FALSE)
     \/ PollExpire /\ WakeIf(table' # table)
     \/ PollFind /\ WakeIf(active # NoJob /\ active' = NoJob)
     \/ PollError /\ WakeIf(FALSE)
     \/ PollFetch /\ progress' = progress /\ WakeIf(FALSE)
  /\ KeepSnapshots
  /\ UNCHANGED stopping

FetchSnapshot(p) ==
  /\ PollFetch
  /\ progress' = progress \cup {active}
  /\ snapshot' = [snapshot EXCEPT ![active] = Snapshot(p)]
  /\ WakeIf(TRUE)
  /\ UNCHANGED stopping

-----------------------------------------------------------------------------
(* Start, crash, and graceful shutdown.                                    *)

StartUp == Start /\ UNCHANGED <<stream, snapshot, stopping>>

\* What a client has received it keeps.
Down ==
  /\ Crash
  /\ stream' = [s \in Stream |-> IF Open(s) THEN Closed ELSE stream[s]]
  /\ KeepSnapshots
  /\ stopping' = FALSE

\* SIGTERM or SIGINT.  axum closes the listener.
Stop ==
  /\ poll # "down" /\ ~stopping
  /\ epoch < MaxStarts
  /\ stopping' = TRUE
  /\ UNCHANGED <<vars, stream, snapshot>>

\* axum::serve returns once every response is finished, streams included.
Exit ==
  /\ stopping
  /\ \A c \in Call : At(c, "idle")
  /\ \A s \in Stream : ~Open(s)
  /\ Down

StreamNext ==
  \/ \E s \in Stream : StreamStep(s)
  \/ \E c \in Call : RequestStep(c)
  \/ LoopStep
  \/ \E p \in Reported : FetchSnapshot(p)
  \/ StartUp
  \/ Down
  \/ Stop
  \/ Exit

StreamSpec == StreamInit /\ [][StreamNext]_streamVars

-----------------------------------------------------------------------------
(* What a client of a stream may rely on.                                  *)

\* The streams go through the steps of job_status_sse with what each needs:
\* a row between the statement and the report, an event while it is sent; and
\* nothing is open while the process is down.
StreamTypeOK ==
  /\ \A s \in Stream :
       LET r == stream[s] IN
       /\ r.pc \in {"closed", "read", "report", "send", "wait"}
       /\ Cardinality(r.row) = IF r.pc = "report" THEN 1 ELSE 0
       /\ Cardinality(r.event) = IF r.pc = "send" THEN 1 ELSE 0
       /\ r.row \subseteq Row /\ r.event \cup r.last \subseteq JobResponse
       /\ Open(s) => r.job \in Job /\ poll # "down"
  /\ snapshot \in [Job -> LiveProgress]
  /\ \A j \in Job \ progress : snapshot[j] = NoProgress
  /\ stopping \in BOOLEAN /\ (stopping => poll # "down")

\* Whatever WhisperX reports, and however late, a client that sees 100 percent
\* can fetch the transcript (models.rs:29-31, 109-114).
HundredPercentMeansReady ==
  \A s \in Stream : \A e \in stream[s].last :
    e.progress.percent = {100} <=> e.status = "ready"

\* README.md:170-182: an event that asks for an upload carries a token with a
\* deadline, however the job came to wait for it, and no other event does.
UploadEventsCarryToken ==
  \A s \in Stream : \A e \in stream[s].last :
    e.status = "awaiting_upload" <=> e.upload # {}

\* README.md:202: `Call the job route after a ready event': from then on it
\* answers with the transcript, across restarts.  Needs Serial.
ReadyEventIsServed ==
  \A s \in Stream : \A e \in stream[s].last, j \in Job :
    e.status = "ready" /\ stream[s].job = j
      => IsIn(j, {"ready"}) /\ store[table[j].key] = "whole"

-----------------------------------------------------------------------------
(* Liveness.  A statement or file operation ends, clients take the events  *)
(* they are sent, and the timer of tokio::select! fires.  A request has    *)
(* finitely many awaits and each of them ends, so it is over in the end.   *)
(* Clients and WhisperX need not make any request.                         *)

StreamFairness ==
  \A s \in Stream :
    WF_streamVars(/\ StreamRead(s) \/ StreamReport(s) \/ StreamSend(s)
                     \/ StreamTimer(s)
                  /\ UNCHANGED <<vars, snapshot, stopping>>)

RequestsEnd ==
  \A c \in Call : []<>At(c, "idle")

FairStreamSpec ==
  StreamSpec /\ StreamFairness /\ RequestsEnd /\ WF_streamVars(Exit)

\* The last event of stream s tells the status of job j and, if it waits for
\* an upload, the deadline.
Told(s, j) ==
  \E e \in stream[s].last :
    /\ e.status = table[j].status
    /\ \A t \in e.upload : t.expires = table[j].expires

\* A status that lasts is reported on every open stream, although many of the
\* changes notify nobody and a notification may come when nobody waits
\* (api.rs:431-434).
StreamCatchesUp ==
  \A s \in Stream, j \in Job :
    \/ []<>(Open(s) /\ stream[s].job = j => Told(s, j))
    \/ []<><<table' # table>>_table

\* Shutdown waits for every open response (main.rs:57-59).  Requests end, and
\* so do the streams of jobs that are ready or failed: only a stream of a job
\* that is still on its way may keep the process from stopping.
ShutdownCompletes ==
  stopping ~> \/ ~stopping
              \/ \E s \in Stream : Open(s) /\ ~IsIn(stream[s].job, Final)

=============================================================================
