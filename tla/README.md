# Verification of the transcription gateway

TLA+ specifications of the transcription gateway (the Rust service in `src/`),
TLC configurations that check them on small instances, and TLAPS proofs for
every instance. The gateway keeps a queue of transcription jobs in SQLite and
finished transcripts as files. Clients look a transcript up by the hash of the
audio; WhisperX claims jobs and posts results back.

## The system

| part | code | state it keeps | operations |
|---|---|---|---|
| table and statements | `src/src/db.rs`, `src/migrations/` | one row per job: key, status, deadline, error, transcript path, creation time | eight writing statements, four reading ones |
| client requests | `src/src/api.rs` `lookup`, `job` | none between requests; a row read earlier while a request runs | find or create the job of a key, requeue a failed one, answer with the transcript |
| WhisperX callbacks | `api.rs` `claim`, `audio_ready`, `result`, `fail` | temporary file, transcript file | move a job along `awaiting_upload -> pending -> processing -> ready / failed` |
| polling loop | `src/src/worker.rs` | `active_job_id`, the progress map | reset at startup, then every 500 ms: expire uploads, find a processing job, fetch its progress |
| process lifecycle | `src/src/main.rs`, the systemd unit | how far startup has come | start the loop, then the listener; drain at a signal; crash, restart |
| status stream | `api.rs` `job_events`, `job_status_sse` | row read, last event sent | send an event when the status changed, wait for a notification or 500 ms, end |
| progress report | `src/src/models.rs` `JobProgress`, `JobResponse::from_record`, `api.rs` `job_status`, `upload_token.rs` | a snapshot per job, in memory | row, snapshot and queue position to answer; sign an upload token |
| cache key | `models.rs` `validate_key`, `api.rs` `result` | none | request to key, key to file |
| authentication, configuration | `api.rs` `require_api_key`, `require_worker_key`, `config.rs` | keys and address read at startup | compare the header with a key |

The parts interact through three things: the table (one SQL statement is
atomic, a handler runs several with awaits between them), the file system (a
transcript is written to `tmp/{job_id}.json.tmp` and renamed), and, inside the
process, the progress map and a `Notify` that wakes status streams.

What is hard, and what has to hold all the same:

- Handlers read a row in one statement and write it in another. Everything may
  happen in between: other handlers, expiry, the startup reset. `mark_ready`
  and `mark_failed` do not look at the status again.
- A handler may stop at any await: an error returns early, and a client that
  disconnects drops it. A crash stops all of them and empties memory.
- The file and the row of a transcript are written in separate steps.
- Claims have no lease and attempts no identity: only a restart returns a job
  whose worker is gone.
- The loop may store a snapshot after a handler cleared it.
- `notify_waiters` wakes only those that wait; a stream between two waits hears
  nothing, and some changes notify nobody at all.
- Shutdown waits for open responses, and a stream is a response without end.
- The loop polls one processing row, the one updated longest ago, whichever of
  them WhisperX is at work on.
- The startup reset runs before the port is bound.
- Keys and address are read once, and `.env` may be edited while they are in use.
- Timestamps have a resolution of one second, so queue order has ties.

`PROJECT.json` lists these hazards line by line with the properties that cover
them, and those no property covers yet.

## Modules

| module | what it is |
|---|---|
| `Transcriptions` | the table: a function from job ids to rows, and every SQL statement as an operator |
| `JobStore` | any statement, with any legal argument, at any time: the table without its callers |
| `TranscriptCache` | what a client is promised about one key: unknown, wanted, given up, served for ever |
| `Gateway` | the process: every handler as a sequence of awaited calls, the loop, crash and restart, files |
| `JobReport` | what an answer about a job shows, of row, snapshot and position; the upload token |
| `StatusStream` | `Gateway` with status streams, the contents of snapshots, and graceful shutdown |
| `ProgressPoll` | `JobStore` with the loop and `updated_at`: whose progress is shown |
| `LookupKey` | request to cache key, cache key to transcript file |
| `Lifecycle` | two processes of the gateway: configuration, startup order, signals, systemd, the two API keys |
| `MCJobStore`, `MCGateway`, `MCLookupKey` | symmetry sets and texts for the model checker |
| `TranscriptionsProofs` | lemmas: what each statement does to a table |
| `JobStoreProofs` | the theorems about `JobStore` |
| `GatewayProofs` | the theorems about `Gateway`, among them that it implements `JobStore` |
| `GatewaySerialProofs` | the theorems that need `Serial`, among them that `Gateway` implements `TranscriptCache` |
| `StatusStreamProofs` | the theorems about `StatusStream`, among them that its steps are steps of `Gateway` |
| `LookupKeyProofs` | the theorem about `LookupKey` |
| `ProgressPollProofs` | the theorems about `ProgressPoll`, among them that its steps are steps of `JobStore` |
| `LifecycleProofs` | the theorems about `Lifecycle` |

`StatusStream` extends `Gateway` and `JobReport`, which extend `Transcriptions`;
`ProgressPoll` extends `JobStore`. `LookupKey` and `Lifecycle` stand alone.
`Gateway` is shown to implement two abstract specifications: `JobStore`
(variables of the same name) and `TranscriptCache` (the state of a key is
computed from its row and its file, `EntryOf`).

### How the state corresponds to the code

`table[j]` is the row with `job_id = j`. Job ids are numbers because the code
only compares them, in `pending_position` by `<=`. A key stands for
`(content_sha256, model, requested_language)`. Columns that only travel into
answers are left out (`model`, `language`, `duration_seconds`), and `error` and
`transcript_path` are reduced to being NULL or not. `updated_at` is not in the
table: only `find_processing` reads it, and in `Gateway` that statement may
return any processing row, which includes the one updated longest ago.
`ProgressPoll` adds it for the rows at the worker. `now` is the clock in
seconds.

In `Gateway` a request in flight is a record `call[c]`: the call it awaits next
(`pc`) and the locals it carries over the await (`job`, `key`, the deadline
`t`). One action is one awaited call and the synchronous code after it. `tmp`
and `store` are the temporary and the transcript files; `fd` follows the file
that a running `tokio::fs::write` has open through renames, because two results
for one job use one temporary name. `poll` is the loop's own program counter.
`claimedIn` is a history variable: the start of the process in which a job was
last claimed. It guards nothing.

In `StatusStream` a stream is a record: where it awaits, the row it has read
and not yet reported, the event it is sending, the last event sent.
`notify_waiters` is `WakeIf`: it moves the streams that wait and nothing else,
so a change between a stream's read and its wait is lost, as in tokio. Which
steps call it is said action by action (`RequestStep`, `LoopStep`); the expiry
inside lookup and job requests does not. `snapshot[j]` is what `JobProgress`
holds of a job; the percentage is what WhisperX reports after the clamp of
`JobProgress::set`. An `Option` is a set with at most one member. `stopping` is
the time between the signal and the exit: no new request is accepted, those in
flight and the loop go on.

In `ProgressPoll` the handlers are reduced to their statements, which is sound
because `Gateway` implements `JobStore`. `busy` is the job WhisperX works on;
it claims only when it has none, and may lose its job without telling.

In `Lifecycle` a process goes down -> connecting -> binding -> serving ->
draining, beside the loop it has spawned. The unit and a process started by
hand share the `.env` and the database. `env` is the file as it is now: both
keys, the address (`GATEWAY_HOST` and `GATEWAY_PORT`), and whether the rest is
valid; `EditEnv` may change any of it at any time. `conf` is what each process
read when it started, and it binds and compares keys by that. A process finds
its address taken (`Taken`) while another serves at the same one. No two members
of `Address` overlap: 0.0.0.0 and 127.0.0.1 with one port count as one address.

In `LookupKey` a language is a sequence of bytes, since the code looks at its
length and letters; a hash is a member of a set, and a path is the tuple of its
parts, because no accepted part can hold a `/`.

`Serial` is an assumption about WhisperX, not about the gateway: with
`Serial = TRUE` it sends no result or failure for a job while an earlier one
for that job is still being handled. `Serial = FALSE` allows it, as happens
when WhisperX retries after a timeout.

## Runs

| run | what it asks | bounds |
|---|---|---|
| `job_store` | what the table guarantees whatever its callers do | 3 jobs, 3 keys, clock 0..1, TTL 1 |
| `gateway_serial` | what clients are promised, callbacks not overlapping; the one way out of the sequence of statuses; what the startup reset returns to the queue and the loop keeps in memory | 2 requests in flight, 1 key, clock 0..1, 2 starts |
| `gateway_overlap` | races of lookups with every handler; the table changes only as `JobStore` allows; an upload keeps its deadline, a ready job a file, and it is not sent back | 2 requests, 1 key, clock 0..1, 1 start |
| `gateway_live` | abandoned uploads expire, stale progress goes away | 1 request at a time, 1 key, clock 0..2, 2 starts |
| `stream` | what events say is true, also later; a status that lasts is reported; shutdown ends unless a job is still on its way | 1 stream, 1 request at a time, 1 key, reports of 100 percent, clock stopped, 2 starts |
| `progress_poll` | the loop comes to the job WhisperX works on last; it is shown if it is alone at the worker | 2 jobs, 2 keys, clock 0..1 |
| `lifecycle` | the keys keep the routes of an address apart; the service comes back | 2 processes, 2 key texts, 2 addresses |
| `lookup_key` | no two keys share a file | 2 valid hashes and an invalid one, 2 models, 6 languages |
| `queue_order` | violated: position 1 is claimed next | 2 jobs of one second |
| `torn_transcript` | violated with overlapping callbacks: a ready job's transcript is whole | 2 requests, 1 key |
| `early_claim_reset` | violated: the startup reset touches only interrupted jobs | 2 requests, 1 key |
| `status_sequence` | violated, callbacks not overlapping: `pending` is followed by `processing` alone | 1 request at a time, 1 key, 1 start |

Why the bounds suffice for what they are used for: every race in this code is
between two requests or a request and the loop, so two requests in flight show
it; ordering of the queue needs three jobs to have one between two others; a
clock of two readings lets a deadline pass or not pass between any two steps
(with TTL 1 an upload made at 0 expires at 1, one made at 1 does not expire);
two starts give one crash at any step, with everything before and after. Job ids
are never reused, so the number of jobs is at least the number of keys, and with
two requests one more, for the id of the lookup that loses the race to insert.
In `stream` the clock stands still, so uploads do not expire there. Jobs still
fail and go back and forth by the callbacks, and of the changes that notify
nobody the startup reset is there; the expiry inside a lookup is another such
change. Streams never write, so one stream beside one request shows every order
of a read and a change, and other streams add nothing to it. WhisperX may report
any byte; 100 stands for all that the clamp changes. Two jobs are enough for one
to hide the other from the loop, and two processes, two keys and two addresses
for one process to disturb the other or to pass it by.

What the bounds leave out: with one key, `gateway_serial` never has two jobs at
the worker, so the loop turning from one job to another is checked in
`progress_poll` only; and `gateway_overlap` has no crash, so that a ready job
keeps its file and an upload its deadline across crashes rests on the theorems
`ReadyHasItsFile` and `DeadlinesAreKept`.

The clock is capped by `MaxTime` and the starts of the process by `MaxStarts`
(`Stop` too happens only while another start is left); both only bound the
exploration. Deadlock is checked in every run.

### Fairness

`FairSpec` is used by `gateway_live` only. `Start` is weakly fair because
systemd restarts the process (`Restart=on-failure`). The steps of the loop are
weakly fair because it is a task of its own that never blocks for ever: the
request for progress has a timeout of two seconds. `PollExpire` and `PollFind`
are strongly fair: each may fail now and then (`PollError` is enabled with
them) but not every time for ever. No request is fair: clients and WhisperX
may stop at any time. The clock is not fair either; the properties speak of
deadlines that have passed. If the HTTP client of the loop cannot be built,
the loop ends and nothing restarts it while the process runs
(`worker.rs:28-31`, although `/health` still says `running`); the property
excepts that case.

`FairStreamSpec` (used by `stream`) makes each stream weakly fair from its read
to its wait: a statement ends, a client takes the event it is sent or
disconnects, and the timer of `tokio::select!` fires. The exit of a process
that waits for nothing more is weakly fair too. Every await in a handler ends
one way or the other, so requests in flight end: `RequestsEnd` says it as
"again and again no request is in flight in `c`", which is what fairness of the
steps of one request comes to, and costs the checker much less. Nothing says
that a client disconnects, that WhisperX sends anything, or that the loop makes
progress.

`FairPollSpec` makes the loop fair and says that WhisperX, asked again and again
for the job it works on, answers now and then (strong fairness of
`FetchShown`). `FairLifeSpec` says that systemd relaunches a failed unit, that
opening the database does not fail for ever, and that binding an address does
not fail for ever if it is free again and again. A unit that waits while the
other process has its address is what `ServiceComesBack` excepts.

### What the violated runs show

Each checks one statement of the repository that the code does not keep; the
findings in `PROJECT.json` quote it. In short: a claim and a queue position
break ties of one second differently; overlapping results for one job can store
a transcript that is not whole; a claim served before the startup reset is
undone by it; and a callback that found its job at the worker before that reset
ends it in the queue, so that `pending` is followed by `ready` or `failed`,
which the README's sequence does not have.

The last is the only way out of that sequence as long as callbacks do not
overlap (`OnlyResetBreaksSequence`, in `gateway_serial`): the job had been
claimed, and the reset of the running process had returned it.

Overlapping callbacks can damage a ready job in two ways only: its transcript
may not be whole, and a failure on its way may still fail it. `gateway_overlap`
checks that nothing else happens to it: it has a file (`ReadyHasFile`), and no
statement decided on earlier takes it back to its upload or to the queue
(`ReadyIsNotRetried`). Nor does a request that computed a deadline before it
read the row replace the deadline of an upload that is waited for
(`DeadlineIsKept`). For the queue the damage is bounded by ties
(`FirstUnlessTied`).

Reading the same models shows more of this kind, for which there is no run of
its own:

- a job WhisperX has lost stays at `processing`, and since `find_processing`
  takes the row updated longest ago (`db.rs:184`), the progress of the job
  WhisperX works on is not shown until a restart; the README promises nothing
  else, and `WorkIsClaimedLast` and `LoneWorkIsShown` say what does hold;
- two processes that read different versions of `.env` may serve at two
  addresses, and if the keys were swapped in between, one key opens client
  routes at one and internal routes at the other; `RoutesApart` speaks of one
  address;
- with overlapping callbacks `ReadyIsFinal` fails as well, because
  `mark_failed` does not look at the status again (`db.rs:234`);
- of two overlapping audio-ready callbacks the second is answered 409
  (`api.rs:252`), although the README promises 204 for a pending job;
- a job that fails and is requeued between two reads of a stream is not
  reported as failed (`api.rs:413`);
- a second process started on the same database resets the jobs of the first
  before it fails to bind its port (`main.rs:39`, `main.rs:52`);
- `/health` says that the worker runs, by a constant (`api.rs:106`).

## Proofs

TLAPS checks the following for every set of jobs and keys, every positive TTL
and every bound on the clock, and for `Gateway` also for any number of requests
in flight and of starts, and for both values of `Serial`. The assumptions are
those the modules name: jobs are finitely many positive numbers, the TTL and
the number of starts are positive, `NoKey` is not a key.

About `JobStore`:

- Its invariants `Typing`, `ErrorColumn`, `DeadlineColumn`, `PathColumn`,
  `UniqueKeys`. The typing of the table and the properties of single rows are
  inductive only together: that a failed job has an error after `mark_failed`
  is local, but that a requeued one has none needs the invariant about rows
  that `requeue_failed` does not select. The predicate `Good` of
  `TranscriptionsProofs` is that conjunction, with one lemma per statement.
- `Positions`: the queue positions are 1..n. The order of `pending_position`
  is total, so of two jobs the later counts strictly more (`LaterCountsMore`);
  positions are therefore an injection of the queue into 1..n, and an
  injection between finite sets of one size is onto (`PositionsFill`).
- `Claims`: only `claim_next` moves a job to the worker, one at a time and
  never past a job created in an earlier second.
- `FirstUnlessTied`: the run `queue_order` shows that position 1 need not be
  claimed next; without a second job of its second it is (`EarliestIsFirst`).

About `Gateway`:

- `Implementation`: every step of a handler or of the loop is a step of
  `JobStore` or leaves table and clock alone. `TableIsSound` and
  `GatewayClaims` state what follows: all that `JobStore` promises holds of the
  gateway's table, whatever its handlers do to each other.
- `GatewayTyping`, `LookupsFindTheirJob`, `RecoveryCompletes` and
  `ProgressIsBounded`: the invariants of `gateway_overlap` and
  the two of `gateway_serial` that need no `Serial`.
- `ReadyIsKept`, `ReadyHasItsFile` and `DeadlinesAreKept`: the properties of
  `gateway_overlap` about a ready job and about an upload, with or without
  `Serial`.

They rest on one inductive invariant, `IInv`, in three parts. `TableOK` is
`Good` of the table. `CallsOK` says what a request may rely on between one
await and the next: that the row it read is still there and has the key it
asked for, that a lookup that lost the race to insert finds a row of its key,
and that an id about to be inserted is nobody else's. It survives the steps of
others because no statement deletes a row or changes a key (`KeepsRows`,
`StillOK`), and without it an insert could not be shown to be one of
`JobStore`, whose ids are fresh. `ProcessOK` ties the loop to the history:
before the reset nothing is claimed to be recovered, and afterwards only a
claim of this process creates a job at the worker (`OnlyClaims`). The
preservation of each part is one lemma with one step per action (`TableStep`,
`CallsStep`, `ProcessOKStep`).

`ReadyHasItsFile` adds `FileInv`: a request about to mark its row has a file
under the transcript's name, and so has every ready row. The first part is what
makes the second inductive, and it holds although other results rename, write
and mark meanwhile, because a step replaces what is linked under a transcript's
name or writes into it and never unlinks it (`FilesStay`), only a rename leads
to `mark_ready` (`OnlyRenamesMark`), and only `mark_ready` makes a row ready
(`NoneMadeReady`). `ReadyIsKept` needs the table alone: the `WHERE` clauses of
the statements that requeue, return, reset and claim select no ready row
(`ReadyOrFailed`). `DeadlinesAreKept` needs no more: the statements that write a
deadline select no row that waits for its upload (`DeadlineStays`).

About `Gateway` with `Serial` (`GatewaySerialProofs`):

- `ReadyIsServed`, `ReadyStays`, `OnlyResetLeavesSequence`, `UploadsHaveTheirTime`
  and `CacheImplementation`: the other properties of `gateway_serial`.

`IInv` says nothing about files, so these rest on `IInv` and a second invariant,
`SInv`. It follows each result or failure through its steps (`Holds`): while it
is in flight its row is queued or at the worker, the temporary file it is about
to rename is whole, and the transcript it is about to mark is whole. That
survives the steps of others because no two callbacks for one job are in flight
(`Alone`, from `Serial`), and every other statement keeps queued rows queued
and makes none ready (`Kept`). Without `Alone` another result could truncate
the file, which is what the run `torn_transcript` shows.

What `SInv` cannot say is how a row in a callback came to be in the queue. That
is `Claimed`: the job of a callback has been claimed, and if its row is queued,
the reset of this process has succeeded. It is inductive because a callback
begins only for a row at the worker (`CallbackOrigin`), only the reset takes a
row from there to the queue (`QueuedByReset`), and what it has set is undone
only by a crash, which ends every callback (`ResetStands`).

From the three together every step is one of few moves of the table
(`TableMoves`). Each moves a status along its sequence, but for the end of a
queued job that `Claimed` describes (`RowMoves`), and each is a step of
`TranscriptCache` or changes nothing in it (`CacheStep`): a key has one row at
most, so its entry is a function of that row's status (`EntryIs`).

About `StatusStream`, for any number of streams and any reports:

- `StreamsKeepGateway`: its behaviours are behaviours of `Gateway`, so all of
  the above holds beside streams and shutdowns.
- `StreamTyping`, `HundredMeansReady` and `TokensWhereNeeded`, from the
  invariant `StreamInv`: no snapshot says 100 percent (`SnapshotType`), a row
  waits for an upload only with a deadline (`Good`, by `IInv`), and so
  `job_status` makes an honest event of any row at any time (`StatusIsHonest`).
- `ReadyEventsAreTrue`, with `Serial`: a row that says ready, read some time ago
  and still to be reported, stays true until it is reported and for ever after
  (`KnownReady`), because no step takes a row out of ready (`ReadyKept`).

About `LookupKey`, for any texts a client may send:

- `FilesAreNotShared`: accepted keys with one path are one key
  (`PathsDistinct`), because `auto` has four letters and no accepted language
  does.

About `ProgressPoll`, for any number of jobs:

- `StepsOfJobStore`: its behaviours are behaviours of `JobStore`, so the
  invariant of that module comes with them.
- `PollTyping`, and `WorkIsFoundLast`: what else is at the worker was claimed
  before the job WhisperX works on. That is why a lost job hides it. No claim is
  stamped later than now (`PollTypeOK`), so a claim, which WhisperX makes only
  when it has no job, is the latest of all (`ClaimStep`), and no other statement
  adds to the jobs at the worker (`StatementStep`, by `OnlyClaims`).

About `Lifecycle`, for any set of key texts and of addresses:

- `LifeTyping` and `KeysStayApart`. The latter speaks of processes that serve,
  but holds because of what happened when they were launched: the two keys of
  each were compared before anything else (`ReadAccepted`), and of two that bind
  one address, with keys of two versions of `.env`, one finds it taken
  (`Disjoint`).

Only model-checked: the liveness properties (`AbandonedUploadsExpire`,
`StaleProgressIsDropped`, `StreamCatchesUp`, `ShutdownCompletes`,
`LoneWorkIsShown`, `ServiceComesBack`), which need fairness and are out of the
prover's reach. Every invariant and every action property of a passing run is a
theorem.

## Not modelled

- Attempts: a failure that arrives late for a job that was reset and claimed
  again ends the new attempt. The code has no notion of an attempt a property
  could speak of.
- The text of answers and errors, `model`, `language` and durations, which are
  copied; a failing statement is not told from a client that disconnects.
- The HMAC of upload tokens and the comparison of headers: a token stands for
  what it signs, a header for the key it carries.
- Parsing of host, port and URLs in the configuration: one Boolean. Hosts that
  overlap, such as 0.0.0.0 and 127.0.0.1, are not told from equal ones.
- The routes a key opens are told apart as client and internal; which of them a
  client then calls is in `Gateway`.
- The earlier migrations, which run once before requests.
- Files lost or damaged outside the gateway, and power loss (nothing is
  fsynced).
- `pending_position` and the read of a row are two statements of one stream or
  answer; the position is computed when the answer is made, which loses nothing
  because only pending rows use it and their snapshot is not shown.
- systemd's limit on the time to stop and on the rate of restarts.
