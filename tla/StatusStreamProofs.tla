-------------------------- MODULE StatusStreamProofs --------------------------
(***************************************************************************)
(* Proofs about StatusStream.  Its steps are steps of Gateway, so what is  *)
(* proved of Gateway holds beside any number of streams and shutdowns.     *)
(*                                                                         *)
(* The inductive invariant StreamInv follows an event from the row it is   *)
(* made of to the client: rows and snapshots are such that from_record     *)
(* shows 100 percent and a token exactly where it should.  KnownReady adds *)
(* that a row or event that says ready is still true when it is used.      *)
(***************************************************************************)
EXTENDS StatusStream, GatewaySerialProofs

StreamRecord == [ pc    : {"closed", "read", "report", "send", "wait"},
                  job   : Job \cup {NoJob},
                  row   : SUBSET Row,
                  event : SUBSET JobResponse,
                  last  : SUBSET JobResponse ]

\* What a client may conclude from an event.
Honest(e) ==
  /\ e.progress.percent = {100} <=> e.status = "ready"
  /\ e.status = "awaiting_upload" <=> e.upload # {}

\* What a stream holds between two awaits.
Sound(r) ==
  /\ r \in StreamRecord
  /\ r.pc # "closed" => r.job \in Job
  /\ IF r.pc = "report" THEN \E row : r.row = {row} ELSE r.row = {}
  /\ IF r.pc = "send" THEN \E e : r.event = {e} ELSE r.event = {}
  /\ \A row \in r.row : RowOK(row)
  /\ \A e \in r.event \cup r.last : Honest(e)

SnapshotsOK ==
  /\ snapshot \in [Job -> LiveProgress]
  /\ \A j \in Job : snapshot[j].percent # {100}
  /\ \A j \in Job \ progress : snapshot[j] = NoProgress

StreamsOK ==
  /\ stream \in [Stream -> StreamRecord]
  /\ \A s \in Stream : Sound(stream[s])

UpOK ==
  /\ stopping \in BOOLEAN
  /\ poll = "down" => ~stopping /\ \A s \in Stream : ~Open(s)

StreamInv == StreamsOK /\ SnapshotsOK /\ UpOK

-----------------------------------------------------------------------------
(* The steps as steps of Gateway.                                          *)

LEMMA RequestIsGateway ==
  ASSUME NEW c \in Call, RequestStep(c)
  PROVE  ClientStep(c) \/ WorkerStep(c) \/ Reply(c) \/ Abandon(c)
<1>1. CASE SilentStep(c)
  BY <1>1 DEF SilentStep, ClientStep, WorkerStep
<1>2. CASE ~SilentStep(c)
  BY <1>2 DEF RequestStep, ClientStep, WorkerStep
<1> QED
  BY <1>1, <1>2

\* Of all the steps only a crash, or an exit, takes the process down.
LEMMA StreamStepIs ==
  ASSUME StreamNext
  PROVE  \/ UNCHANGED vars /\ UNCHANGED snapshot
            /\ \/ \E s \in Stream : StreamStep(s)
               \/ Stop
         \/ Next /\ StartUp
         \/ Next /\ Down
         \/ /\ Next
            /\ \/ \E c \in Call : RequestStep(c)
               \/ LoopStep
               \/ \E p \in Reported : FetchSnapshot(p)
<1>1. ASSUME NEW c \in Call, RequestStep(c)
      PROVE  Next
  BY <1>1, RequestIsGateway DEF Next
<1>2. LoopStep => Next
  BY DEF LoopStep, Next, ProcessStep
<1>3. \A p : FetchSnapshot(p) => Next
  BY DEF FetchSnapshot, Next, ProcessStep
<1>4. (StartUp => Next) /\ (Down => Next) /\ (Exit => Down)
  BY DEF StartUp, Down, Exit, Next, ProcessStep
<1>5. (Stop => UNCHANGED <<vars, snapshot>>)
      /\ \A s : StreamStep(s) => UNCHANGED <<vars, snapshot>>
  BY DEF Stop, StreamStep
<1> QED
  BY <1>1, <1>2, <1>3, <1>4, <1>5 DEF StreamNext

LEMMA NextIsGateway == [StreamNext]_streamVars => [Next]_vars
  BY StreamStepIs DEF streamVars

\* The streams and the shutdown only ever add to Gateway: every behaviour is,
\* of its variables, one of Gateway, and all its theorems hold here.
THEOREM StreamsKeepGateway == StreamSpec => Spec
<1>1. StreamInit => Init
  BY DEF StreamInit
<1> QED
  BY <1>1, NextIsGateway, PTL DEF StreamSpec, Spec

LEMMA StreamIInv == StreamSpec => []IInv
  BY StreamsKeepGateway, SpecIInv, PTL

-----------------------------------------------------------------------------
(* Events.                                                                 *)

LEMMA PositionType ==
  ASSUME NEW tbl, Good(tbl), NEW j
  PROVE  PendingPosition(tbl, j) \in Nat
<1>1. QueuedUpTo(tbl, j) \subseteq Job
  BY DEF QueuedUpTo, InStatus, Good
<1>2. IsFiniteSet(QueuedUpTo(tbl, j))
  BY <1>1, JobAssumption, FS_Subset
<1> QED
  BY <1>2, FS_CardinalityType DEF PendingPosition

LEMMA NoProgressType == NoProgress \in LiveProgress /\ NoProgress.percent # {100}
  BY DEF NoProgress, LiveProgress, Option

\* JobProgress::set never stores 100 percent, whatever is reported.
LEMMA SnapshotType ==
  ASSUME NEW p \in Reported
  PROVE  Snapshot(p) \in LiveProgress /\ Snapshot(p).percent # {100}
<1>1. Clamped(p) \in 0 .. 99
  BY ReportedAssumption DEF Clamped, Byte
<1>2. Clamped(p) \in Byte /\ Clamped(p) # 100
  BY <1>1 DEF Byte
<1>3. {"live"} \in Option({"queued", "awaiting_upload", "live"})
      /\ {Clamped(p)} \in Option(Byte)
  BY <1>2 DEF Option
<1>4. {Clamped(p)} # {100}
  BY <1>2
<1> QED
  BY <1>3, <1>4 DEF Snapshot, LiveProgress

\* job_status makes an honest event of any row and snapshot.
LEMMA StatusIsHonest ==
  ASSUME NEW j \in Job, NEW row, RowOK(row),
         NEW live \in LiveProgress, live.percent # {100}, NEW n \in Nat
  PROVE  /\ JobStatus(j, row, live, n) \in JobResponse
         /\ Honest(JobStatus(j, row, live, n))
         /\ JobStatus(j, row, live, n).status = row.status
<1> DEFINE e == JobStatus(j, row, live, n)
           shown == Shown(row, live)
           token == IF row.status = "awaiting_upload" /\ row.expires # NULL
                    THEN {Sign(j, row.expires)} ELSE {}
<1>1. /\ row.status \in Status /\ row.error \in BOOLEAN
      /\ row.expires \in Deadline \cup {NULL}
      /\ row.status = "awaiting_upload" => row.expires # NULL
  BY DEF RowOK, Row
<1>2. /\ {0} \in Option(Byte) /\ {100} \in Option(Byte)
      /\ \A x \in {"queued", "awaiting_upload"} :
           {x} \in Option({"queued", "awaiting_upload", "live"})
      /\ {} \in Option({"queued", "awaiting_upload", "live"})
  BY DEF Option, Byte
<1>3. shown \in LiveProgress
  BY <1>1, <1>2 DEF Shown, LiveProgress, Status
<1>4. shown.percent = {100} <=> row.status = "ready"
  <2>1. {0} # {100}
    OBVIOUS
  <2> QED
    BY <1>1, <2>1 DEF Shown, Status
<1>5. token \in Option(Token) /\ (row.status = "awaiting_upload" <=> token # {})
  <2>1. row.status = "awaiting_upload" => Sign(j, row.expires) \in Token
    BY <1>1 DEF Sign, Token
  <2> QED
    BY <1>1, <2>1 DEF Option
<1>6. e = [ status   |-> row.status,
            progress |-> shown,
            position |-> IF row.status = "pending" THEN n ELSE 0,
            error    |-> row.error,
            upload   |-> token ]
  BY DEF JobStatus, FromRecord
<1> HIDE DEF e, shown, token
<1>7. e \in JobResponse
  BY <1>1, <1>3, <1>5, <1>6 DEF JobResponse
<1>8. Honest(e) /\ e.status = row.status
  BY <1>4, <1>5, <1>6 DEF Honest
<1> QED
  BY <1>7, <1>8 DEF e

-----------------------------------------------------------------------------
(* One stream.                                                             *)

LEMMA ClosedSound == Sound(Closed) /\ Closed.last = {}
  BY DEF Sound, Closed, StreamRecord, NoJob

\* A stream of another moves one record.
LEMMA MovesSound ==
  ASSUME StreamsOK, NEW s \in Stream, NEW r, Sound(r), Moves(s, r)
  PROVE  StreamsOK'
<1>1. r \in StreamRecord
  BY DEF Sound
<1>2. stream' \in [Stream -> StreamRecord]
  BY <1>1 DEF Moves, StreamsOK
<1>3. \A t \in Stream : stream'[t] = IF t = s THEN r ELSE stream[t]
  BY DEF Moves, StreamsOK
<1> QED
  BY <1>2, <1>3 DEF StreamsOK

LEMMA AfterStep ==
  \A status : After(status) \in {"closed", "wait"}
  BY DEF After

LEMMA StreamStepSound ==
  ASSUME IInv, StreamsOK, SnapshotsOK, NEW s \in Stream, StreamStep(s)
  PROVE  StreamsOK'
<1> DEFINE r == stream[s]
<1>0. r \in StreamRecord /\ Sound(r)
  BY DEF StreamsOK
<1>1. ASSUME NEW j \in Job, StreamOpen(s, j)
      PROVE  StreamsOK'
  <2> DEFINE q == [Closed EXCEPT !.pc = "read", !.job = j]
  <2>1. Closed \in StreamRecord
    BY ClosedSound DEF Sound
  <2>2. /\ q.pc = "read" /\ q.job = j /\ q.row = Closed.row
        /\ q.event = Closed.event /\ q.last = Closed.last /\ q \in StreamRecord
    BY <2>1 DEF StreamRecord
  <2>3. Sound(q)
    BY <2>2 DEF Sound, Closed
  <2> QED
    BY <1>1, <2>3, MovesSound DEF StreamOpen
<1>2. CASE StreamRead(s)
  <2> DEFINE j == r.job
             q == [r EXCEPT !.pc = "report", !.row = {table[j]}]
  <2>1. CASE Moves(s, Closed)
    BY <2>1, ClosedSound, MovesSound
  <2>2. CASE HasRow(j) /\ Moves(s, q)
    <3>1. RowOK(table[j]) /\ table[j] \in Row
      BY <2>2 DEF HasRow, IInv, TableOK, Good, RowOK
    <3>2. /\ q.pc = "report" /\ q.row = {table[j]} /\ q.job = r.job
          /\ q.event = r.event /\ q.last = r.last /\ q \in StreamRecord
      BY <1>0, <3>1 DEF StreamRecord
    <3>3. r.pc = "read"
      BY <1>2 DEF StreamRead
    <3>4. Sound(q)
      BY <1>0, <3>1, <3>2, <3>3 DEF Sound
    <3> QED
      BY <2>2, <3>4, MovesSound
  <2> QED
    BY <1>2, <2>1, <2>2 DEF StreamRead
<1>3. CASE StreamReport(s)
  <2>1. r.pc = "report"
    BY <1>3 DEF StreamReport
  <2>2. PICK row \in r.row, n \in {PendingPosition(table, r.job), 0} :
          LET e == JobStatus(r.job, row, snapshot[r.job], n) IN
          IF r.last = {e}
          THEN Moves(s, [r EXCEPT !.pc = After(row.status), !.row = {}])
          ELSE Moves(s, [r EXCEPT !.pc = "send", !.row = {}, !.event = {e}])
    BY <1>3 DEF StreamReport
  <2> DEFINE e == JobStatus(r.job, row, snapshot[r.job], n)
             p == [r EXCEPT !.pc = After(row.status), !.row = {}]
             q == [r EXCEPT !.pc = "send", !.row = {}, !.event = {e}]
  <2>3. r.job \in Job /\ RowOK(row)
    BY <1>0, <2>1 DEF Sound
  <2>4. n \in Nat
    BY <2>2, PositionType DEF IInv, TableOK
  <2>5. e \in JobResponse /\ Honest(e)
    BY <2>3, <2>4, StatusIsHonest DEF SnapshotsOK
  <2> HIDE DEF e
  <2>6. Sound(p)
    <3>1. /\ p.pc = After(row.status) /\ p.row = {} /\ p.job = r.job
          /\ p.event = r.event /\ p.last = r.last /\ p \in StreamRecord
      BY <1>0, AfterStep DEF StreamRecord
    <3> QED
      BY <1>0, <2>1, <2>3, <3>1, AfterStep DEF Sound
  <2>7. Sound(q)
    <3>1. /\ q.pc = "send" /\ q.row = {} /\ q.job = r.job
          /\ q.event = {e} /\ q.last = r.last /\ q \in StreamRecord
      BY <1>0, <2>5 DEF StreamRecord
    <3> QED
      BY <1>0, <2>3, <2>5, <3>1 DEF Sound
  <2> QED
    BY <2>2, <2>6, <2>7, MovesSound DEF e
<1>4. CASE StreamSend(s)
  <2>1. PICK e \in r.event :
          Moves(s, [r EXCEPT !.pc = After(e.status), !.event = {}, !.last = {e}])
    BY <1>4 DEF StreamSend
  <2> DEFINE q == [r EXCEPT !.pc = After(e.status), !.event = {}, !.last = {e}]
  <2>2. r.pc = "send"
    BY <1>4 DEF StreamSend
  <2>3. e \in JobResponse /\ Honest(e) /\ r.job \in Job
    BY <1>0, <2>2 DEF Sound, StreamRecord
  <2>4. /\ q.pc = After(e.status) /\ q.row = r.row /\ q.job = r.job
        /\ q.event = {} /\ q.last = {e} /\ q \in StreamRecord
    BY <1>0, <2>3, AfterStep DEF StreamRecord
  <2>5. Sound(q)
    BY <1>0, <2>2, <2>3, <2>4, AfterStep DEF Sound
  <2> QED
    BY <2>1, <2>5, MovesSound
<1>5. CASE StreamTimer(s)
  <2> DEFINE q == [r EXCEPT !.pc = "read"]
  <2>1. /\ q.pc = "read" /\ q.row = r.row /\ q.job = r.job
        /\ q.event = r.event /\ q.last = r.last /\ q \in StreamRecord
    BY <1>0 DEF StreamRecord
  <2>2. r.pc = "wait" /\ Moves(s, q)
    BY <1>5 DEF StreamTimer
  <2>3. Sound(q)
    BY <1>0, <2>1, <2>2 DEF Sound
  <2> QED
    BY <2>2, <2>3, MovesSound
<1>6. CASE StreamLeave(s)
  BY <1>6, ClosedSound, MovesSound DEF StreamLeave
<1> QED
  BY <1>1, <1>2, <1>3, <1>4, <1>5, <1>6 DEF StreamStep

\* A wake-up changes nothing but where a stream is.
Awake(r, q) ==
  /\ q.job = r.job /\ q.row = r.row /\ q.event = r.event /\ q.last = r.last
  /\ \/ q.pc = r.pc
     \/ r.pc = "wait" /\ q.pc = "read"

LEMMA WokenSound ==
  ASSUME StreamsOK, \E b : WakeIf(b)
  PROVE  StreamsOK' /\ \A s \in Stream : Awake(stream[s], stream'[s])
<1>1. ASSUME NEW s \in Stream
      PROVE  /\ Awake(stream[s], stream'[s])
             /\ stream'[s] \in StreamRecord
  <2>1. stream[s] \in StreamRecord
    BY DEF StreamsOK
  <2>2. \/ stream'[s] = stream[s]
        \/ stream[s].pc = "wait" /\ stream'[s] = [stream[s] EXCEPT !.pc = "read"]
    BY DEF WakeIf
  <2>3. CASE stream'[s] = stream[s]
    BY <2>1, <2>3 DEF Awake
  <2>4. CASE stream[s].pc = "wait"
             /\ stream'[s] = [stream[s] EXCEPT !.pc = "read"]
    <3> DEFINE r == stream[s]
               q == [r EXCEPT !.pc = "read"]
    <3>1. /\ q.pc = "read" /\ q.row = r.row /\ q.job = r.job
          /\ q.event = r.event /\ q.last = r.last /\ q \in StreamRecord
      BY <2>1 DEF StreamRecord
    <3> QED
      BY <2>4, <3>1 DEF Awake
  <2> QED
    BY <2>2, <2>3, <2>4
<1>2. stream' = [s \in Stream |-> stream'[s]]
  BY DEF WakeIf
<1>3. stream' \in [Stream -> StreamRecord]
  BY <1>1, <1>2
<1>4. \A s \in Stream : Sound(stream'[s])
  BY <1>1 DEF StreamsOK, Sound, Awake
<1> QED
  BY <1>1, <1>3, <1>4 DEF StreamsOK

-----------------------------------------------------------------------------
(* All of the system.                                                      *)

LEMMA KeptSnapshots ==
  ASSUME SnapshotsOK, KeepSnapshots
  PROVE  SnapshotsOK'
  BY NoProgressType DEF SnapshotsOK, KeepSnapshots

\* A step that is not a crash leaves a running process running.
LEMMA StaysUp ==
  ASSUME IInv, \/ \E c \in Call : RequestStep(c)
               \/ LoopStep
               \/ \E p : FetchSnapshot(p)
  PROVE  poll' = "down" => poll = "down"
<1>1. ASSUME NEW c \in Call, RequestStep(c)
      PROVE  poll' = poll
  BY <1>1, RequestIsGateway, RequestLoop DEF SameLoop, Claim, loop
<1>2. CASE LoopStep
  BY <1>2 DEF LoopStep, Tick, PollReset, PollExpire, PollFind, PollError,
              PollFetch, loop
<1>3. ASSUME NEW p, FetchSnapshot(p)
      PROVE  poll' # "down"
  BY <1>3 DEF FetchSnapshot, PollFetch
<1> QED
  BY <1>1, <1>2, <1>3

LEMMA InitStreamInv == StreamInit => StreamInv
<1> SUFFICES ASSUME StreamInit
             PROVE  StreamInv
  OBVIOUS
<1>1. StreamsOK
  BY ClosedSound DEF StreamInit, StreamsOK, Sound
<1>2. SnapshotsOK
  BY NoProgressType DEF StreamInit, SnapshotsOK
<1>3. UpOK
  BY DEF StreamInit, UpOK, Open, Closed
<1> QED
  BY <1>1, <1>2, <1>3 DEF StreamInv

LEMMA NextStreamInv == IInv /\ StreamInv /\ [StreamNext]_streamVars => StreamInv'
<1> SUFFICES ASSUME IInv, StreamsOK, SnapshotsOK, UpOK, [StreamNext]_streamVars
             PROVE  StreamsOK' /\ SnapshotsOK' /\ UpOK'
  BY DEF StreamInv
<1>1. CASE UNCHANGED streamVars
  BY <1>1 DEF streamVars, vars, StreamsOK, SnapshotsOK, UpOK, Open
<1>2. ASSUME NEW s \in Stream, StreamStep(s)
      PROVE  StreamsOK' /\ SnapshotsOK' /\ UpOK'
  <2>1. StreamsOK'
    BY <1>2, StreamStepSound
  <2>2. UNCHANGED <<poll, progress, snapshot, stopping>>
    BY <1>2 DEF StreamStep, vars
  <2>3. poll # "down"
    BY <1>2 DEF StreamStep, StreamOpen, StreamRead, StreamReport, StreamSend,
                StreamTimer, StreamLeave, UpOK, Open
  <2> QED
    BY <2>1, <2>2, <2>3 DEF SnapshotsOK, UpOK
<1>3. CASE Stop
  BY <1>3 DEF Stop, vars, StreamsOK, SnapshotsOK, UpOK
<1>4. CASE StartUp
  BY <1>4 DEF StartUp, Start, StreamsOK, SnapshotsOK, UpOK
<1>5. CASE Down
  <2>1. SnapshotsOK'
    BY <1>5, KeptSnapshots DEF Down
  <2>2. stream' = [s \in Stream |-> IF Open(s) THEN Closed ELSE stream[s]]
        /\ stopping' = FALSE
    BY <1>5 DEF Down
  <2>3. \A s \in Stream : Sound(stream'[s]) /\ stream'[s].pc = "closed"
    BY <2>2, ClosedSound DEF StreamsOK, Open, Closed
  <2>4. StreamsOK'
    BY <2>2, <2>3 DEF StreamsOK, Sound
  <2>5. UpOK'
    BY <2>2, <2>3 DEF UpOK, Open
  <2> QED
    BY <2>1, <2>4, <2>5
<1>6. CASE (\E c \in Call : RequestStep(c)) \/ LoopStep
  <2>1. (\E b : WakeIf(b)) /\ KeepSnapshots /\ stopping' = stopping
    BY <1>6 DEF RequestStep, LoopStep
  <2>2. StreamsOK' /\ \A s \in Stream : Awake(stream[s], stream'[s])
    BY <2>1, WokenSound
  <2>3. poll' = "down" => poll = "down"
    BY <1>6, StaysUp
  <2>4. UpOK'
    BY <2>1, <2>2, <2>3 DEF UpOK, Open, Awake
  <2> QED
    BY <2>1, <2>2, <2>4, KeptSnapshots
<1>7. ASSUME NEW p \in Reported, FetchSnapshot(p)
      PROVE  StreamsOK' /\ SnapshotsOK' /\ UpOK'
  <2>1. /\ WakeIf(TRUE) /\ stopping' = stopping
        /\ snapshot' = [snapshot EXCEPT ![active] = Snapshot(p)]
        /\ progress' = progress \cup {active}
    BY <1>7 DEF FetchSnapshot
  <2>2. StreamsOK' /\ \A s \in Stream : Awake(stream[s], stream'[s])
    BY <2>1, WokenSound
  <2>3. SnapshotsOK'
    BY <2>1, SnapshotType DEF SnapshotsOK
  <2>4. poll' = "down" => poll = "down"
    BY <1>7, StaysUp
  <2>5. UpOK'
    BY <2>1, <2>2, <2>4 DEF UpOK, Open, Awake
  <2> QED
    BY <2>2, <2>3, <2>5
<1> QED
  BY <1>1, <1>2, <1>3, <1>4, <1>5, <1>6, <1>7 DEF StreamNext, Exit

LEMMA SpecStreamInv == StreamSpec => [](IInv /\ StreamInv)
  BY StreamIInv, InitStreamInv, NextStreamInv, PTL DEF StreamSpec

\* The streams go through the steps of job_status_sse, and none is open while
\* the process is down.
THEOREM StreamTyping == StreamSpec => []StreamTypeOK
<1>1. ASSUME StreamInv
      PROVE  StreamTypeOK
  <2>1. ASSUME NEW s \in Stream
        PROVE  LET r == stream[s] IN
               /\ r.pc \in {"closed", "read", "report", "send", "wait"}
               /\ Cardinality(r.row) = IF r.pc = "report" THEN 1 ELSE 0
               /\ Cardinality(r.event) = IF r.pc = "send" THEN 1 ELSE 0
               /\ r.row \subseteq Row /\ r.event \cup r.last \subseteq JobResponse
               /\ Open(s) => r.job \in Job /\ poll # "down"
    <3> DEFINE r == stream[s]
    <3>1. r \in StreamRecord /\ Sound(r)
      BY <1>1 DEF StreamInv, StreamsOK
    <3>2. Cardinality({}) = 0 /\ \A x : Cardinality({x}) = 1
      BY FS_EmptySet, FS_Singleton
    <3>3. Open(s) => r.job \in Job /\ poll # "down"
      BY <1>1, <3>1 DEF StreamInv, UpOK, Sound, Open
    <3> QED
      BY <3>1, <3>2, <3>3 DEF Sound, StreamRecord
  <2>2. stopping \in BOOLEAN /\ (stopping => poll # "down")
    BY <1>1 DEF StreamInv, UpOK
  <2> QED
    BY <1>1, <2>1, <2>2 DEF StreamTypeOK, StreamInv, SnapshotsOK
<1> QED
  BY <1>1, SpecStreamInv, PTL

\* A client that sees 100 percent sees a job that is ready, whatever WhisperX
\* reports (models.rs:29-31, 109-114).
THEOREM HundredMeansReady == StreamSpec => []HundredPercentMeansReady
<1>1. StreamInv => HundredPercentMeansReady
  BY DEF StreamInv, StreamsOK, Sound, Honest, HundredPercentMeansReady
<1> QED
  BY <1>1, SpecStreamInv, PTL

\* An event that asks for an upload carries a token, and no other does
\* (README.md:170-182).
THEOREM TokensWhereNeeded == StreamSpec => []UploadEventsCarryToken
<1>1. StreamInv => UploadEventsCarryToken
  BY DEF StreamInv, StreamsOK, Sound, Honest, UploadEventsCarryToken
<1> QED
  BY <1>1, SpecStreamInv, PTL

-----------------------------------------------------------------------------
(* When callbacks for one job do not overlap.                              *)

\* What stream record r holds that says ready is true of the table.
Known(r, tbl) ==
  \A e \in r.row \cup r.event \cup r.last :
    e.status = "ready" => r.job \in InStatus(tbl, "ready")

KnownReady == \A s \in Stream : Known(stream[s], table)

LEMMA ReadyKept ==
  ASSUME Serial, IInv, SInv, Claimed, [Next]_vars
  PROVE  InStatus(table, "ready") \subseteq InStatus(table', "ready")
<1>1. DOMAIN table \subseteq DOMAIN table'
  BY TableStep DEF KeepsRows
<1>2. TableMove
  BY TableMoves
<1> QED
  BY <1>1, <1>2, RowMoves DEF InStatus

LEMMA MovesKnown ==
  ASSUME StreamsOK, KnownReady, UNCHANGED table,
         NEW s \in Stream, NEW r, Known(r, table), Moves(s, r)
  PROVE  KnownReady'
<1>1. \A t \in Stream : stream'[t] = IF t = s THEN r ELSE stream[t]
  BY DEF Moves, StreamsOK
<1> QED
  BY <1>1 DEF KnownReady

LEMMA ClosedKnown == \A tbl : Known(Closed, tbl)
  BY DEF Known, Closed

LEMMA StreamStepKnown ==
  ASSUME IInv, StreamsOK, SnapshotsOK, KnownReady, NEW s \in Stream, StreamStep(s)
  PROVE  KnownReady'
<1> DEFINE r == stream[s]
<1>0. /\ r \in StreamRecord /\ Sound(r) /\ Known(r, table)
      /\ UNCHANGED table
  BY DEF StreamsOK, KnownReady, StreamStep, vars
<1>1. ASSUME NEW j \in Job, StreamOpen(s, j)
      PROVE  KnownReady'
  <2> DEFINE q == [Closed EXCEPT !.pc = "read", !.job = j]
  <2>1. Closed \in StreamRecord
    BY ClosedSound DEF Sound
  <2>2. q.row = Closed.row /\ q.event = Closed.event /\ q.last = Closed.last
    BY <2>1 DEF StreamRecord
  <2>3. Known(q, table)
    BY <2>2 DEF Known, Closed
  <2> QED
    BY <1>0, <1>1, <2>3, MovesKnown DEF StreamOpen
<1>2. CASE StreamRead(s)
  <2> DEFINE j == r.job
             q == [r EXCEPT !.pc = "report", !.row = {table[j]}]
  <2>1. CASE Moves(s, Closed)
    BY <1>0, <2>1, ClosedKnown, MovesKnown
  <2>2. CASE HasRow(j) /\ Moves(s, q)
    <3>1. /\ q.row = {table[j]} /\ q.job = r.job
          /\ q.event = r.event /\ q.last = r.last
      BY <1>0 DEF StreamRecord
    <3>2. Known(q, table)
      BY <1>0, <2>2, <3>1 DEF Known, HasRow, InStatus
    <3> QED
      BY <1>0, <2>2, <3>2, MovesKnown
  <2> QED
    BY <1>2, <2>1, <2>2 DEF StreamRead
<1>3. CASE StreamReport(s)
  <2>1. r.pc = "report"
    BY <1>3 DEF StreamReport
  <2>2. PICK row \in r.row, n \in {PendingPosition(table, r.job), 0} :
          LET e == JobStatus(r.job, row, snapshot[r.job], n) IN
          IF r.last = {e}
          THEN Moves(s, [r EXCEPT !.pc = After(row.status), !.row = {}])
          ELSE Moves(s, [r EXCEPT !.pc = "send", !.row = {}, !.event = {e}])
    BY <1>3 DEF StreamReport
  <2> DEFINE e == JobStatus(r.job, row, snapshot[r.job], n)
             p == [r EXCEPT !.pc = After(row.status), !.row = {}]
             q == [r EXCEPT !.pc = "send", !.row = {}, !.event = {e}]
  <2>3. r.job \in Job /\ RowOK(row) /\ n \in Nat
    BY <1>0, <2>1, <2>2, PositionType DEF Sound, IInv, TableOK
  <2>4. e.status = row.status
    BY <2>3, StatusIsHonest DEF SnapshotsOK
  <2> HIDE DEF e
  <2>5. /\ p.row = {} /\ p.job = r.job /\ p.event = r.event /\ p.last = r.last
        /\ q.row = {} /\ q.job = r.job /\ q.event = {e} /\ q.last = r.last
    BY <1>0 DEF StreamRecord
  <2>6. Known(p, table) /\ Known(q, table)
    BY <1>0, <2>4, <2>5 DEF Known
  <2> QED
    BY <1>0, <2>2, <2>6, MovesKnown DEF e
<1>4. CASE StreamSend(s)
  <2>1. PICK e \in r.event :
          Moves(s, [r EXCEPT !.pc = After(e.status), !.event = {}, !.last = {e}])
    BY <1>4 DEF StreamSend
  <2> DEFINE q == [r EXCEPT !.pc = After(e.status), !.event = {}, !.last = {e}]
  <2>2. q.row = r.row /\ q.job = r.job /\ q.event = {} /\ q.last = {e}
    BY <1>0 DEF StreamRecord
  <2>3. Known(q, table)
    BY <1>0, <2>2 DEF Known
  <2> QED
    BY <1>0, <2>1, <2>3, MovesKnown
<1>5. CASE StreamTimer(s)
  <2> DEFINE q == [r EXCEPT !.pc = "read"]
  <2>1. /\ q.row = r.row /\ q.job = r.job /\ q.event = r.event /\ q.last = r.last
    BY <1>0 DEF StreamRecord
  <2>2. Known(q, table)
    BY <1>0, <2>1 DEF Known
  <2> QED
    BY <1>0, <1>5, <2>2, MovesKnown DEF StreamTimer
<1>6. CASE StreamLeave(s)
  BY <1>0, <1>6, ClosedKnown, MovesKnown DEF StreamLeave
<1> QED
  BY <1>1, <1>2, <1>3, <1>4, <1>5, <1>6 DEF StreamStep

LEMMA NextKnownReady ==
  ASSUME Serial
  PROVE  IInv /\ SInv /\ Claimed /\ StreamInv /\ KnownReady /\ [StreamNext]_streamVars
           => KnownReady'
<1> SUFFICES ASSUME IInv, SInv, Claimed, StreamsOK, SnapshotsOK, KnownReady,
                    [StreamNext]_streamVars
             PROVE  KnownReady'
  BY DEF StreamInv
<1>1. InStatus(table, "ready") \subseteq InStatus(table', "ready")
  BY NextIsGateway, ReadyKept
<1>2. ASSUME NEW s \in Stream, Awake(stream[s], stream'[s]) \/ stream'[s] = Closed
      PROVE  Known(stream'[s], table')
  BY <1>1, <1>2, ClosedKnown DEF KnownReady, Known, Awake
<1>3. CASE (\E c \in Call : RequestStep(c)) \/ LoopStep
           \/ \E p \in Reported : FetchSnapshot(p)
  <2>1. \E b : WakeIf(b)
    BY <1>3 DEF RequestStep, LoopStep, FetchSnapshot
  <2> QED
    BY <1>2, <2>1, WokenSound DEF KnownReady
<1>4. CASE Down
  <2>1. \A s \in Stream : stream'[s] = Closed \/ stream'[s] = stream[s]
    BY <1>4 DEF Down
  <2>2. \A s \in Stream : stream'[s] = Closed \/ Awake(stream[s], stream'[s])
    BY <2>1 DEF Awake
  <2> QED
    BY <1>2, <2>2 DEF KnownReady
<1>5. CASE StartUp \/ Stop \/ UNCHANGED streamVars
  <2>1. UNCHANGED <<table, stream>>
    BY <1>5 DEF StartUp, Start, Stop, streamVars, vars, db
  <2> QED
    BY <2>1 DEF KnownReady
<1> QED
  BY <1>3, <1>4, <1>5, StreamStepKnown DEF StreamNext, Exit

\* From a ready event on, the job is ready and its transcript on disk, whole,
\* through crashes and restarts (README.md:202).
THEOREM ReadyEventsAreTrue ==
  ASSUME Serial
  PROVE  StreamSpec => []ReadyEventIsServed
<1>1. StreamInit => KnownReady
  BY DEF StreamInit, KnownReady, Known, Closed
<1>2. StreamSpec => [](IInv /\ SInv /\ Claimed)
  BY StreamsKeepGateway, SpecClaimed, PTL
<1>3. StreamSpec => []KnownReady
  BY <1>1, <1>2, SpecStreamInv, NextKnownReady, PTL DEF StreamSpec
<1>4. SInv /\ KnownReady => ReadyEventIsServed
  BY DEF SInv, KnownReady, Known, ReadyHasTranscript, ReadyEventIsServed,
         InStatus, IsIn, HasRow
<1> QED
  BY <1>2, <1>3, <1>4, PTL

=============================================================================
