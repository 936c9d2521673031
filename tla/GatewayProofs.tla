----------------------------- MODULE GatewayProofs -----------------------------
(***************************************************************************)
(* Proofs about Gateway, for any jobs, keys and requests in flight, any    *)
(* number of starts, and whether or not callbacks overlap.                 *)
(*                                                                         *)
(* The inductive invariant has three parts: TableOK about the table and    *)
(* the clock, CallsOK about what a request in flight relies on from one    *)
(* await to the next, and ProcessOK about files, loop and history.  The    *)
(* file of a ready job needs FileInv besides, at the end of the module.    *)
(***************************************************************************)
EXTENDS Gateway, TranscriptionsProofs

\* Requests that have read a row and go on to use it.
RowStep == {"lookup_requeue", "lookup_reread", "lookup_created",
            "job_expire", "job_reread", "read_file", "audio_mark",
            "result_open", "result_write", "result_rename", "result_mark",
            "fail_return", "fail_mark", "clear"}

LookupStep == {"lookup_find", "lookup_insert", "lookup_requeue",
               "lookup_reread", "lookup_created", "lookup_conflict"}

\* What request r holds, over table tbl.
CallOK(r, tbl) ==
  /\ r \in CallRecord
  /\ r.answer # "disappeared"
  /\ r.pc \in {"lookup_find", "lookup_insert", "lookup_requeue", "fail_return"}
       => r.t \in Deadline
  /\ r.pc \in LookupStep => r.key \in Key
  /\ r.pc \in {"lookup_insert", "lookup_conflict"} => r.job \in Job
  /\ r.pc \in RowStep => r.job \in DOMAIN tbl
  /\ r.pc \in RowStep \cup {"done"} /\ r.key # NoKey
       => r.job \in DOMAIN tbl /\ tbl[r.job].key = r.key
  /\ r.pc = "lookup_conflict" => FindByKey(tbl, r.key) # {}

\* An id that is about to be inserted is nobody else's.
Reserved(calls, tbl) ==
  \A c \in Call :
    calls[c].pc = "lookup_insert"
      => /\ calls[c].job \notin DOMAIN tbl
         /\ \A d \in Call \ {c} : calls[d].job # calls[c].job

CallsOK(calls, tbl) ==
  /\ calls \in [Call -> CallRecord]
  /\ \A c \in Call : CallOK(calls[c], tbl)
  /\ Reserved(calls, tbl)

TableOK == Good(table) /\ now \in Time

ProcessOK ==
  /\ tmp \in [Job -> Content]
  /\ store \in [Key -> Content]
  /\ poll \in {"down", "reset", "expire", "find", "fetch", "stopped"}
  /\ active \in Job \cup {NoJob}
  /\ poll = "fetch" => active \in Job
  /\ progress \subseteq Job
  /\ progress \subseteq {active}
  /\ recovered \in BOOLEAN
  /\ poll \in {"down", "reset"} => ~recovered
  /\ epoch \in 0 .. MaxStarts
  /\ poll = "down" => epoch < MaxStarts
  /\ claimedIn \in [Job -> 0 .. MaxStarts]
  /\ recovered => \A j \in InStatus(table, "processing") : claimedIn[j] = epoch

IInv == TableOK /\ CallsOK(call, table) /\ ProcessOK

\* The inductive invariant implies the invariants of the runs.
LEMMA IInvImplies ==
  IInv => /\ TypeOK
          /\ LookupFindsItsJob
          /\ RecoveryIsComplete
          /\ ProgressOnlyOfActiveJob
<1> SUFFICES ASSUME IInv
             PROVE  /\ TypeOK
                    /\ LookupFindsItsJob
                    /\ RecoveryIsComplete
                    /\ ProgressOnlyOfActiveJob
  OBVIOUS
<1>1. TypeOK
  BY DEF IInv, TableOK, CallsOK, ProcessOK, TypeOK, IsTable, Good, RowOK
<1>2. LookupFindsItsJob
  BY DEF IInv, CallsOK, CallOK, RowStep, LookupFindsItsJob, HasRow
<1>3. RecoveryIsComplete /\ ProgressOnlyOfActiveJob
  BY DEF IInv, ProcessOK, RecoveryIsComplete, ProgressOnlyOfActiveJob
<1> QED
  BY <1>1, <1>2, <1>3

-----------------------------------------------------------------------------
(* Single requests.                                                        *)

LEMMA UploadDeadlineType == now \in Time => UploadDeadline \in Deadline
  BY TtlAssumption, MaxTimeAssumption DEF Time, Deadline, UploadDeadline

LEMMA IdleOK == \A tbl : CallOK(Idle, tbl)
  BY DEF CallOK, Idle, CallRecord, Step, Link, AnswerCode, RowStep, LookupStep,
         NoJob

\* An answer without a job refers to nothing.
LEMMA AnswerOK ==
  ASSUME NEW a \in AnswerCode \ {"disappeared"}, NEW tbl
  PROVE  CallOK(Answer(a), tbl) /\ Answer(a).job = NoJob /\ Answer(a).pc = "done"
  BY DEF CallOK, Answer, Idle, CallRecord, Step, Link, AnswerCode, RowStep,
         LookupStep, NoJob

\* A request that starts from a row may rely on it.
LEMMA BegunOK ==
  ASSUME NEW tbl, NEW j \in Job, j \in DOMAIN tbl,
         NEW step \in {"job_expire", "audio_mark", "result_open", "fail_mark"}
  PROVE  /\ CallOK(Begun(step, j), tbl)
         /\ Begun(step, j).job = j
         /\ Begun(step, j).pc = step
  BY DEF CallOK, Begun, Idle, CallRecord, Step, Link, AnswerCode, RowStep,
         LookupStep, NoJob

LEMMA DoneOK ==
  ASSUME NEW tbl, NEW j \in Job, j \in DOMAIN tbl,
         NEW r, r.key \in Key \cup {NoKey}, r.key # NoKey => tbl[j].key = r.key,
         NEW a \in AnswerCode \ {"disappeared"}
  PROVE  CallOK(Done(r, j, a), tbl) /\ Done(r, j, a).job = j
         /\ Done(r, j, a).pc = "done"
<1> DEFINE b == Answer(a)
<1>1. b \in CallRecord /\ b.answer # "disappeared" /\ b.pc = "done"
  BY AnswerOK DEF CallOK
<1> HIDE DEF b
<1>2. Done(r, j, a) = [b EXCEPT !.job = j, !.key = r.key]
  BY DEF Done, b
<1>3. [b EXCEPT !.job = j, !.key = r.key] \in CallRecord
  BY <1>1 DEF CallRecord
<1>4. /\ [b EXCEPT !.job = j, !.key = r.key].pc = "done"
      /\ [b EXCEPT !.job = j, !.key = r.key].job = j
      /\ [b EXCEPT !.job = j, !.key = r.key].key = r.key
      /\ [b EXCEPT !.job = j, !.key = r.key].answer # "disappeared"
  BY <1>1 DEF CallRecord
<1> QED
  BY <1>2, <1>3, <1>4 DEF CallOK, RowStep, LookupStep

\* What record_response makes of a row that has the key asked for.
LEMMA RespondedOK ==
  ASSUME NEW j \in Job, j \in DOMAIN table, NEW r \in CallRecord,
         r.answer # "disappeared",
         r.key # NoKey => table[j].key = r.key
  PROVE  /\ CallOK(Responded(r, j), table)
         /\ Responded(r, j).job = j
         /\ Responded(r, j).pc \in {"read_file", "done"}
<1>1. CASE table[j].status = "ready"
  <2> DEFINE n == [r EXCEPT !.pc = "read_file", !.job = j]
  <2>1. Responded(r, j) = n
    BY <1>1 DEF Responded
  <2>2. /\ n \in CallRecord /\ n.pc = "read_file" /\ n.job = j
        /\ n.key = r.key /\ n.answer = r.answer
    BY DEF CallRecord, Step
  <2> HIDE DEF n
  <2>3. CallOK(n, table)
    BY <2>2 DEF CallOK, RowStep, LookupStep
  <2> QED
    BY <2>1, <2>2, <2>3
<1>2. CASE table[j].status # "ready"
  <2>1. \E a \in {"failed", "accepted"} : Responded(r, j) = Done(r, j, a)
    BY <1>2 DEF Responded
  <2>2. r.key \in Key \cup {NoKey}
    BY DEF CallRecord
  <2> QED
    BY <2>1, <2>2, DoneOK DEF AnswerCode
<1> QED
  BY <1>1, <1>2

\* The same for a request that carries no key.  Begun("", j) is in no step.
LEMMA RespondedFresh ==
  ASSUME NEW j \in Job, j \in DOMAIN table
  PROVE  /\ CallOK(Responded(Begun("", j), j), table)
         /\ Responded(Begun("", j), j).job = j
         /\ Responded(Begun("", j), j).pc \in {"read_file", "done"}
<1> DEFINE b == Begun("", j)
<1>1. b.key = NoKey
  BY DEF Begun, Idle
<1>2. CASE table[j].status = "ready"
  <2> DEFINE n == [b EXCEPT !.pc = "read_file", !.job = j]
  <2>1. Responded(b, j) = n
    BY <1>2 DEF Responded
  <2>2. /\ n \in CallRecord /\ n.pc = "read_file" /\ n.job = j
        /\ n.key = NoKey /\ n.answer = "none"
    BY DEF Begun, Idle, CallRecord, Step, Link, AnswerCode, NoJob
  <2> HIDE DEF n
  <2>3. CallOK(n, table)
    BY <2>2 DEF CallOK, RowStep, LookupStep
  <2> QED
    BY <2>1, <2>2, <2>3
<1>3. CASE table[j].status # "ready"
  <2>1. PICK a \in {"failed", "accepted"} : Responded(b, j) = Done(b, j, a)
    BY <1>3 DEF Responded
  <2>2. a \in AnswerCode \ {"disappeared"}
    BY DEF AnswerCode
  <2> HIDE DEF b
  <2>3. CallOK(Done(b, j, a), table) /\ Done(b, j, a).job = j
        /\ Done(b, j, a).pc = "done"
    BY <1>1, <2>2, DoneOK
  <2> QED
    BY <2>1, <2>3 DEF b
<1> QED
  BY <1>2, <1>3

-----------------------------------------------------------------------------
(* The table: every step of the gateway is a step of JobStore or leaves    *)
(* table and clock alone.                                                  *)

\* What a request in flight hands to a statement is of the right kind.
LEMMA Arguments ==
  ASSUME IInv, NEW c \in Call
  PROVE  /\ call[c] \in CallRecord
         /\ call[c].pc \in RowStep => call[c].job \in Job /\ call[c].job \in DOMAIN table
         /\ call[c].pc \in {"lookup_find", "lookup_insert", "lookup_requeue", "fail_return"}
              => call[c].t \in Deadline
         /\ call[c].pc \in LookupStep => call[c].key \in Key
         /\ call[c].pc = "lookup_insert"
              => call[c].job \in Job /\ call[c].job \notin DOMAIN table
  BY DEF IInv, CallsOK, CallOK, Reserved, TableOK, Good

SameTable == UNCHANGED <<table, now>>

\* A statement that rewrites rows, as JobStore and as this module see it.
Statement == /\ JS!Next
             /\ Rewritten(table, table')
             /\ now' = now

\* JobStore and this module extend the same definitions of the statements.
LEMMA SameStatements ==
  /\ JS!Time = Time /\ JS!Deadline = Deadline /\ JS!NULL = NULL
  /\ \A tbl, j, k, e, t : JS!InsertAwaitingUpload(tbl, j, k, e, t) = InsertAwaitingUpload(tbl, j, k, e, t)
  /\ \A tbl, j, e : JS!RequeueFailed(tbl, j, e) = RequeueFailed(tbl, j, e)
  /\ \A tbl, j : JS!MarkAudioReady(tbl, j) = MarkAudioReady(tbl, j)
  /\ \A tbl, j, e : JS!ReturnToAwaitingUpload(tbl, j, e) = ReturnToAwaitingUpload(tbl, j, e)
  /\ \A tbl, t : JS!ExpireUploads(tbl, t) = ExpireUploads(tbl, t)
  /\ \A tbl : JS!ResetProcessing(tbl) = ResetProcessing(tbl)
  /\ \A tbl : JS!ClaimNext(tbl) = ClaimNext(tbl)
  /\ \A tbl, j : JS!MarkReady(tbl, j) = MarkReady(tbl, j)
  /\ \A tbl, j : JS!MarkFailed(tbl, j) = MarkFailed(tbl, j)
<1>1. JS!Time = Time /\ JS!Deadline = Deadline /\ JS!NULL = NULL
  BY DEF JS!Time, Time, JS!Deadline, Deadline, JS!NULL, NULL
<1>2. \A tbl : JS!ClaimNext(tbl) = ClaimNext(tbl)
  BY DEF JS!InStatus, InStatus, JS!ClaimedBefore, ClaimedBefore, JS!ClaimHead,
         ClaimHead, JS!ClaimNext, ClaimNext
<1>3. \A tbl, j, k, e, t : JS!InsertAwaitingUpload(tbl, j, k, e, t)
                             = InsertAwaitingUpload(tbl, j, k, e, t)
  <2>1. \A tbl, k : JS!FindByKey(tbl, k) = FindByKey(tbl, k)
    BY DEF JS!FindByKey, FindByKey
  <2>2. \A S : JS!Cardinality(S) = Cardinality(S)
    BY DEF JS!Cardinality, Cardinality
  <2> TAKE tbl, j, k, e, t
  <2>3. CASE FindByKey(tbl, k) # {}
    BY <2>1, <2>3 DEF JS!InsertAwaitingUpload, InsertAwaitingUpload
  <2>4. CASE FindByKey(tbl, k) = {}
    <3> DEFINE new == [i \in DOMAIN tbl \cup {j} |->
                         IF i # j THEN tbl[i]
                         ELSE [key |-> k, status |-> "awaiting_upload",
                               expires |-> e, error |-> FALSE, path |-> FALSE,
                               created |-> t,
                               rowid |-> Cardinality(DOMAIN tbl) + 1]]
    <3>1. JS!FindByKey(tbl, k) = {}
      BY <2>1, <2>4
    <3>2. JS!InsertAwaitingUpload(tbl, j, k, e, t) = new
      BY <2>2, <3>1 DEF JS!InsertAwaitingUpload
    <3>3. InsertAwaitingUpload(tbl, j, k, e, t) = new
      BY <2>4 DEF InsertAwaitingUpload
    <3> QED
      BY <3>2, <3>3
  <2> QED
    BY <2>3, <2>4
<1>4. \A tbl, j, e : JS!RequeueFailed(tbl, j, e) = RequeueFailed(tbl, j, e)
  BY <1>1 DEF JS!RequeueFailed, RequeueFailed
<1>5. \A tbl, j : JS!MarkAudioReady(tbl, j) = MarkAudioReady(tbl, j)
  BY <1>1 DEF JS!MarkAudioReady, MarkAudioReady
<1>6. \A tbl, j, e : JS!ReturnToAwaitingUpload(tbl, j, e) = ReturnToAwaitingUpload(tbl, j, e)
  BY <1>1 DEF JS!ReturnToAwaitingUpload, ReturnToAwaitingUpload
<1>7. \A tbl, t : JS!ExpireUploads(tbl, t) = ExpireUploads(tbl, t)
  BY <1>1 DEF JS!ExpireUploads, ExpireUploads
<1>8. \A tbl : JS!ResetProcessing(tbl) = ResetProcessing(tbl)
  BY <1>1 DEF JS!ResetProcessing, ResetProcessing
<1>9. \A tbl, j : JS!MarkReady(tbl, j) = MarkReady(tbl, j)
  BY <1>1 DEF JS!MarkReady, MarkReady
<1>10. \A tbl, j : JS!MarkFailed(tbl, j) = MarkFailed(tbl, j)
  BY <1>1 DEF JS!MarkFailed, MarkFailed
<1> QED
  BY <1>1, <1>2, <1>3, <1>4, <1>5, <1>6, <1>7, <1>8, <1>9, <1>10

LEMMA ClientTable ==
  ASSUME IInv, NEW c \in Call, ClientStep(c)
  PROVE  SameTable \/ Statement \/ LookupInsert(c)
<1>1. ASSUME NEW k \in Key, LookupExpire(c, k)
      PROVE  Statement
  BY <1>1, ExpireRewrites, SameStatements
     DEF IInv, TableOK, LookupExpire, Statement, JS!Next, JS!Expire, Time
<1>2. CASE LookupRequeue(c)
  BY <1>2, Arguments, RequeueRewrites, SameStatements
     DEF IInv, TableOK, LookupRequeue, At, RowStep, Statement, JS!Next, JS!Requeue
<1>3. CASE JobExpire(c)
  BY <1>3, ExpireRewrites, SameStatements
     DEF IInv, TableOK, JobExpire, Statement, JS!Next, JS!Expire, Time
<1>4. ASSUME NEW j \in Job, JobFind(c, j)
      PROVE  SameTable
  BY <1>4 DEF JobFind, SameTable, db
<1>5. CASE LookupFind(c) \/ LookupReread(c) \/ JobReread(c) \/ ReadFile(c)
  BY <1>5 DEF LookupFind, LookupReread, JobReread, ReadFile, SameTable, db
<1> QED
  BY <1>1, <1>2, <1>3, <1>4, <1>5 DEF ClientStep

LEMMA WorkerTable ==
  ASSUME IInv, NEW c \in Call, WorkerStep(c)
  PROVE  SameTable \/ Statement
<1>1. CASE Claim(c)
  BY <1>1, ClaimRewrites, SameStatements
     DEF IInv, TableOK, Claim, Statement, JS!Next, JS!Claim
<1>2. CASE AudioReadyMark(c)
  BY <1>2, Arguments, AudioReadyRewrites, SameStatements
     DEF IInv, TableOK, AudioReadyMark, At, RowStep, Statement, JS!Next, JS!AudioReady
<1>3. CASE ResultMark(c)
  BY <1>3, Arguments, ReadyRewrites, SameStatements
     DEF IInv, TableOK, ResultMark, At, RowStep, Statement, JS!Next, JS!Ready
<1>4. CASE FailReturn(c)
  BY <1>4, Arguments, ReturnRewrites, SameStatements
     DEF IInv, TableOK, FailReturn, At, RowStep, Statement, JS!Next, JS!Return
<1>5. CASE FailMark(c)
  BY <1>5, Arguments, FailRewrites, SameStatements
     DEF IInv, TableOK, FailMark, At, RowStep, Statement, JS!Next, JS!Fail
<1>6. ASSUME NEW j \in Job, NEW b \in BOOLEAN,
             AudioReadyFind(c, j, b) \/ ResultFind(c, j, b)
      PROVE  SameTable
  BY <1>6 DEF AudioReadyFind, ResultFind, SameTable, db
<1>7. ASSUME NEW j \in Job, NEW reason \in Reason, FailFind(c, j, reason)
      PROVE  SameTable
  BY <1>7 DEF FailFind, SameTable, db
<1>8. CASE ResultOpen(c) \/ ResultWrite(c) \/ ResultRename(c) \/ Clear(c)
  BY <1>8 DEF ResultOpen, ResultWrite, ResultRename, Clear, SameTable, db
<1> QED
  BY <1>1, <1>2, <1>3, <1>4, <1>5, <1>6, <1>7, <1>8 DEF WorkerStep

LEMMA ProcessTable ==
  ASSUME IInv, ProcessStep
  PROVE  SameTable \/ Statement \/ JS!Tick
<1>1. CASE PollReset
  BY <1>1, ResetRewrites, SameStatements
     DEF IInv, TableOK, PollReset, SameTable, Statement, JS!Next, JS!Reset
<1>2. CASE PollExpire
  BY <1>2, ExpireRewrites, SameStatements
     DEF IInv, TableOK, PollExpire, Statement, JS!Next, JS!Expire, Time
<1>3. CASE Tick
  BY <1>3 DEF Tick, JS!Tick
<1>4. CASE Start \/ Crash \/ PollFind \/ PollFetch \/ PollError
  BY <1>4 DEF Start, Crash, PollFind, PollFetch, PollError, SameTable, db
<1> QED
  BY <1>1, <1>2, <1>3, <1>4 DEF ProcessStep

\* The insert of a lookup: the reserved id has no row yet.
LEMMA InsertTable ==
  ASSUME IInv, NEW c \in Call, LookupInsert(c)
  PROVE  /\ JS!Next
         /\ Good(table')
         /\ KeepsRows(table, table')
         /\ DOMAIN table' \subseteq DOMAIN table \cup {call[c].job}
         /\ now' = now
         /\ FindByKey(table, call[c].key) = {}
              => call[c].job \in DOMAIN table'
                 /\ table'[call[c].job].key = call[c].key
         /\ FindByKey(table', call[c].key) # {}
<1> DEFINE j == call[c].job
           k == call[c].key
           e == call[c].t
<1>1. /\ j \in Job /\ j \notin DOMAIN table /\ k \in Key /\ e \in Deadline
      /\ now \in Time /\ Good(table)
  BY Arguments DEF LookupInsert, At, LookupStep, IInv, TableOK
<1>2. table' = InsertAwaitingUpload(table, j, k, e, now) /\ now' = now
  BY DEF LookupInsert
<1> HIDE DEF j, k, e
<1>3. JS!Insert(j, k, e)
  BY <1>1, <1>2, SameStatements DEF JS!Insert
<1>4. JS!Next
  BY <1>1, <1>3, SameStatements DEF JS!Next
<1>5. Good(table')
  BY <1>1, <1>2, InsertGood
<1>6. /\ KeepsRows(table, table')
      /\ DOMAIN table' \subseteq DOMAIN table \cup {j}
      /\ FindByKey(table, k) = {} => j \in DOMAIN table' /\ table'[j].key = k
      /\ FindByKey(table', k) # {}
  BY <1>1, <1>2, InsertKeepsRows
<1> QED
  BY <1>2, <1>4, <1>5, <1>6 DEF j, k

LEMMA TableStep ==
  ASSUME IInv, [Next]_vars
  PROVE  /\ JS!Next \/ SameTable
         /\ TableOK'
         /\ KeepsRows(table, table')
<1>1. CASE SameTable
  BY <1>1 DEF SameTable, IInv, TableOK, KeepsRows
<1>2. CASE Statement
  BY <1>2 DEF Statement, Rewritten, IInv, TableOK
<1>3. CASE JS!Tick
  BY <1>3, MaxTimeAssumption DEF JS!Tick, JS!Next, IInv, TableOK, KeepsRows, Time
<1>4. ASSUME NEW c \in Call, LookupInsert(c)
      PROVE  /\ JS!Next
             /\ TableOK'
             /\ KeepsRows(table, table')
  BY <1>4, InsertTable DEF IInv, TableOK
<1>5. ASSUME NEW c \in Call, Reply(c) \/ Abandon(c)
      PROVE  SameTable
  BY <1>5 DEF Reply, Abandon, SameTable, db
<1>6. UNCHANGED vars => SameTable
  BY DEF vars, SameTable
<1> QED
  BY <1>1, <1>2, <1>3, <1>4, <1>5, <1>6, ClientTable, WorkerTable, ProcessTable
     DEF Next

-----------------------------------------------------------------------------
(* Requests in flight.                                                     *)

\* Rows are never deleted and keep their key, so a request may go on
\* relying on the row it read, whatever others do to it meanwhile.
LEMMA StillOK ==
  ASSUME NEW tbl, NEW new, KeepsRows(tbl, new), NEW r, CallOK(r, tbl)
  PROVE  CallOK(r, new)
<1>1. \A k : FindByKey(tbl, k) # {} => FindByKey(new, k) # {}
  BY DEF KeepsRows, FindByKey
<1> QED
  BY <1>1 DEF CallOK, KeepsRows

\* Request c moves on to r, which holds an id of its own, of a row or none.
LEMMA Settle ==
  ASSUME CallsOK(call, table), DOMAIN table \subseteq Job,
         NEW c \in Call, NEW r, Become(c, r),
         KeepsRows(table, table'), CallOK(r, table'),
         DOMAIN table' \subseteq DOMAIN table
           \cup (IF At(c, "lookup_insert") THEN {call[c].job} ELSE {}),
         r.job \in {NoJob, call[c].job} \cup DOMAIN table', r.pc # "lookup_insert"
  PROVE  CallsOK(call', table')
<1>1. call' \in [Call -> CallRecord]
  BY DEF CallsOK, CallOK, Become
<1>2. \A d \in Call : CallOK(call'[d], table')
  BY StillOK DEF CallsOK, Become
<1>3. ASSUME NEW d \in Call, call'[d].pc = "lookup_insert"
      PROVE  /\ call'[d].job \notin DOMAIN table'
             /\ \A e \in Call \ {d} : call'[e].job # call'[d].job
  <2>1. d # c /\ call'[d] = call[d]
    BY <1>3 DEF CallsOK, Become
  <2>2. /\ call[d].job \in Job /\ call[d].job \notin DOMAIN table
        /\ \A e \in Call \ {d} : call[e].job # call[d].job
    BY <1>3, <2>1 DEF CallsOK, CallOK, Reserved
  <2>3. call[d].job \notin DOMAIN table'
    BY <2>1, <2>2
  <2>4. call[d].job # NoJob
    BY <2>2, JobAssumption DEF NoJob
  <2> QED
    BY <2>1, <2>2, <2>3, <2>4 DEF CallsOK, Become
<1> QED
  BY <1>1, <1>2, <1>3 DEF CallsOK, Reserved

\* The same when the step adds no row.
LEMMA SettleHere ==
  ASSUME CallsOK(call, table), DOMAIN table \subseteq Job,
         NEW c \in Call, NEW r, Become(c, r),
         KeepsRows(table, table'), CallOK(r, table'), DOMAIN table' = DOMAIN table,
         r.job \in {NoJob, call[c].job} \cup DOMAIN table, r.pc # "lookup_insert"
  PROVE  CallsOK(call', table')
  BY Settle

\* A new id is reserved.
LEMMA Reserve ==
  ASSUME CallsOK(call, table), NEW c \in Call, NEW r, Become(c, r),
         table' = table, CallOK(r, table), r.job \in FreshJob
  PROVE  CallsOK(call', table')
<1>1. call' \in [Call -> CallRecord]
  BY DEF CallsOK, CallOK, Become
<1>2. \A d \in Call : CallOK(call'[d], table)
  BY DEF CallsOK, Become
<1>3. \A d \in Call \ {c} : call'[d] = call[d] /\ call[d].job # r.job
  BY DEF CallsOK, Become, FreshJob
<1>4. call'[c] = r /\ r.job \notin DOMAIN table
  BY DEF CallsOK, Become, FreshJob
<1>5. Reserved(call', table)
  BY <1>3, <1>4 DEF CallsOK, Reserved
<1> QED
  BY <1>1, <1>2, <1>5 DEF CallsOK

\* What the lemmas above need of a table that changes by a statement.
LEMMA TableFacts ==
  ASSUME IInv
  PROVE  /\ CallsOK(call, table) /\ DOMAIN table \subseteq Job
         /\ SameTable \/ Statement
              => KeepsRows(table, table') /\ DOMAIN table' = DOMAIN table
  BY DEF IInv, TableOK, Good, KeepsRows, SameTable, Statement, Rewritten

\* A request that goes on to its next step with what it holds.
LEMMA NextStepOK ==
  ASSUME NEW tbl, NEW r, CallOK(r, tbl), r.pc \in RowStep,
         NEW step \in {"lookup_reread", "job_reread", "result_mark", "clear"},
         step = "lookup_reread" => r.key \in Key
  PROVE  /\ CallOK([r EXCEPT !.pc = step], tbl)
         /\ [r EXCEPT !.pc = step].job = r.job
         /\ [r EXCEPT !.pc = step].pc = step
  BY NoKeyAssumption DEF CallOK, CallRecord, Step, RowStep, LookupStep

LEMMA ClientCalls ==
  ASSUME IInv, NEW c \in Call, ClientStep(c)
  PROVE  CallsOK(call', table')
<1> USE TableFacts
<1> DEFINE r == call[c]
<1>1. CallOK(r, table) /\ r \in CallRecord
  BY DEF IInv, CallsOK, CallOK
<1>2. SameTable \/ Statement \/ LookupInsert(c)
  BY ClientTable
<1>3. ASSUME NEW k \in Key, LookupExpire(c, k)
      PROVE  CallsOK(call', table')
  <2> DEFINE n == [Begun("lookup_find", NoJob) EXCEPT !.key = k,
                                                      !.t = UploadDeadline]
  <2>1. UploadDeadline \in Deadline
    BY UploadDeadlineType DEF IInv, TableOK
  <2>2. CallOK(n, table') /\ n.job = NoJob /\ n.pc = "lookup_find"
    BY <2>1 DEF Begun, Idle, CallOK, CallRecord, Step, Link, AnswerCode, RowStep,
       LookupStep, NoJob
  <2>3. Become(c, n) /\ ~LookupInsert(c)
    BY <1>3 DEF LookupExpire, LookupInsert, Accepts, At
  <2> HIDE DEF n
  <2> QED
    BY <1>2, <2>2, <2>3, SettleHere
<1>4. CASE LookupFind(c)
  <2>1. /\ r.pc = "lookup_find" /\ r.key \in Key /\ r.t \in Deadline
        /\ r.answer # "disappeared"
    BY <1>1, <1>4 DEF LookupFind, At, CallOK, LookupStep
  <2>2. SameTable
    BY <1>4 DEF LookupFind, db, SameTable
  <2>3. ASSUME NEW j \in FreshJob,
               Become(c, [r EXCEPT !.pc = "lookup_insert", !.job = j])
        PROVE  CallsOK(call', table')
    <3> DEFINE n == [r EXCEPT !.pc = "lookup_insert", !.job = j]
    <3>1. j \in Job
      BY DEF FreshJob
    <3>2. CallOK(n, table) /\ n.job = j
      BY <1>1, <2>1, <3>1 DEF CallOK, CallRecord, Step, RowStep, LookupStep
    <3> HIDE DEF n
    <3> QED
      BY <2>2, <2>3, <3>2, Reserve DEF SameTable, n
  <2>4. ASSUME NEW j \in FindByKey(table, r.key),
               Become(c, [r EXCEPT !.pc = "lookup_requeue", !.job = j])
        PROVE  CallsOK(call', table')
    <3> DEFINE n == [r EXCEPT !.pc = "lookup_requeue", !.job = j]
    <3>1. j \in DOMAIN table /\ j \in Job /\ table[j].key = r.key
      BY DEF FindByKey
    <3>2. CallOK(n, table) /\ n.job = j /\ n.pc = "lookup_requeue"
      BY <1>1, <2>1, <3>1 DEF CallOK, CallRecord, Step, RowStep, LookupStep
    <3> HIDE DEF n
    <3> QED
      BY <2>2, <2>4, <3>1, <3>2, SettleHere DEF SameTable, n
  <2>5. ASSUME NEW j \in FindByKey(table, r.key), Become(c, Responded(r, j))
        PROVE  CallsOK(call', table')
    <3>1. j \in DOMAIN table /\ j \in Job /\ table[j].key = r.key
      BY DEF FindByKey
    <3>2. /\ CallOK(Responded(r, j), table) /\ Responded(r, j).job = j
          /\ Responded(r, j).pc # "lookup_insert"
      BY <1>1, <2>1, <3>1, RespondedOK
    <3> QED
      BY <2>2, <2>5, <3>1, <3>2, SettleHere DEF SameTable
  <2> QED
    BY <1>4, <2>3, <2>4, <2>5 DEF LookupFind
<1>5. CASE LookupInsert(c)
  <2>1. /\ r.pc = "lookup_insert" /\ r.key \in Key /\ r.job \in Job
    BY <1>1, <1>5 DEF LookupInsert, At, CallOK, LookupStep
  <2>2. ASSUME FindByKey(table, r.key) = {},
               Become(c, [r EXCEPT !.pc = "lookup_created"])
        PROVE  CallsOK(call', table')
    <3> DEFINE n == [r EXCEPT !.pc = "lookup_created"]
    <3>1. r.job \in DOMAIN table' /\ table'[r.job].key = r.key
      BY <1>5, <2>2, InsertTable
    <3>2. CallOK(n, table') /\ n.job = r.job /\ n.pc = "lookup_created"
      BY <1>1, <2>1, <3>1 DEF CallOK, CallRecord, Step, RowStep, LookupStep
    <3> HIDE DEF n
    <3> QED
      BY <1>5, <2>1, <2>2, <3>2, InsertTable, Settle DEF At, n
  <2>3. ASSUME FindByKey(table, r.key) # {},
               Become(c, [r EXCEPT !.pc = "lookup_conflict"])
        PROVE  CallsOK(call', table')
    <3> DEFINE n == [r EXCEPT !.pc = "lookup_conflict"]
    <3>1. FindByKey(table', r.key) # {}
      BY <1>5, InsertTable
    <3>2. CallOK(n, table') /\ n.job = r.job /\ n.pc = "lookup_conflict"
      BY <1>1, <2>1, <3>1 DEF CallOK, CallRecord, Step, RowStep, LookupStep
    <3> HIDE DEF n
    <3> QED
      BY <1>5, <2>1, <2>3, <3>2, InsertTable, Settle DEF At, n
  <2> QED
    BY <1>5, <2>2, <2>3 DEF LookupInsert
<1>6. CASE LookupRequeue(c)
  <2>1. /\ r.pc \in RowStep /\ r.key \in Key /\ ~LookupInsert(c)
        /\ Become(c, [r EXCEPT !.pc = "lookup_reread"])
    BY <1>1, <1>6 DEF LookupRequeue, LookupInsert, At, CallOK, RowStep, LookupStep
  <2>2. CallOK(r, table')
    BY <1>1, <1>2, <2>1, StillOK
  <2> QED
    BY <1>2, <2>1, <2>2, NextStepOK, SettleHere
<1>7. CASE LookupReread(c)
  <2>1. /\ SameTable /\ r.key \in Key /\ r.answer # "disappeared"
        /\ r.pc \in {"lookup_created", "lookup_conflict", "lookup_reread"}
    BY <1>1, <1>7 DEF LookupReread, At, db, SameTable, CallOK, LookupStep
  <2>2. Reread(c) # {} /\ \A j \in Reread(c) : j \in DOMAIN table /\ table[j].key = r.key
    BY <1>1, <2>1, NoKeyAssumption
       DEF Reread, At, CallOK, RowStep, LookupStep, FindByKey
  <2>3. PICK j \in Reread(c) : Become(c, Responded(r, j))
    BY <1>7, <2>2 DEF LookupReread
  <2>4. /\ CallOK(Responded(r, j), table) /\ Responded(r, j).job = j
        /\ Responded(r, j).pc # "lookup_insert" /\ j \in DOMAIN table
    BY <1>1, <2>1, <2>2, RespondedOK
  <2> QED
    BY <2>1, <2>3, <2>4, SettleHere DEF SameTable
<1>8. ASSUME NEW j \in Job, JobFind(c, j)
      PROVE  CallsOK(call', table')
  <2> DEFINE b == Begun("", j)
  <2>1. SameTable
    BY <1>8 DEF JobFind, db, SameTable
  <2>2. CASE Become(c, Answer("not_found"))
    BY <2>1, <2>2, AnswerOK, SettleHere DEF SameTable, AnswerCode
  <2>3. CASE HasRow(j) /\ Become(c, Begun("job_expire", j))
    BY <2>1, <2>3, BegunOK, SettleHere DEF SameTable, HasRow
  <2>4. CASE HasRow(j) /\ Become(c, Responded(b, j))
    <3>1. /\ CallOK(Responded(b, j), table) /\ Responded(b, j).job = j
          /\ Responded(b, j).pc # "lookup_insert"
      BY <2>4, RespondedFresh DEF HasRow
    <3> QED
      BY <2>1, <2>4, <3>1, SettleHere DEF SameTable, HasRow
  <2> QED
    BY <1>8, <2>2, <2>3, <2>4 DEF JobFind
<1>9. CASE JobExpire(c)
  <2>1. /\ r.pc \in RowStep /\ ~LookupInsert(c)
        /\ Become(c, [r EXCEPT !.pc = "job_reread"])
    BY <1>9 DEF JobExpire, LookupInsert, At, RowStep
  <2>2. CallOK(r, table')
    BY <1>1, <1>2, <2>1, StillOK
  <2> QED
    BY <1>2, <2>1, <2>2, NextStepOK, SettleHere
<1>10. CASE JobReread(c)
  <2>1. /\ SameTable /\ r.answer # "disappeared" /\ r.job \in DOMAIN table
        /\ r.key # NoKey => table[r.job].key = r.key
    BY <1>1, <1>10 DEF JobReread, At, db, SameTable, CallOK, RowStep
  <2>2. Become(c, Responded(r, r.job))
    BY <1>10, <2>1 DEF JobReread, HasRow
  <2>3. /\ CallOK(Responded(r, r.job), table) /\ Responded(r, r.job).job = r.job
        /\ Responded(r, r.job).pc # "lookup_insert"
    BY <1>1, <2>1, RespondedOK
  <2> QED
    BY <2>1, <2>2, <2>3, SettleHere DEF SameTable
<1>11. CASE ReadFile(c)
  <2>1. /\ SameTable /\ r.job \in DOMAIN table
        /\ r.key # NoKey => table[r.job].key = r.key
    BY <1>1, <1>11 DEF ReadFile, At, db, SameTable, CallOK, RowStep
  <2>2. PICK a \in {"transcript", "unreadable"} : Become(c, Done(r, r.job, a))
    BY <1>11 DEF ReadFile
  <2>3. r.job \in Job /\ r.key \in Key \cup {NoKey}
    BY <1>1, <2>1 DEF CallRecord
  <2>4. a \in AnswerCode \ {"disappeared"}
    BY DEF AnswerCode
  <2> HIDE DEF r
  <2>5. CallOK(Done(r, r.job, a), table) /\ Done(r, r.job, a).job = r.job
        /\ Done(r, r.job, a).pc = "done"
    BY <2>1, <2>3, <2>4, DoneOK
  <2> QED
    BY <2>1, <2>2, <2>5, SettleHere DEF SameTable, r
<1> QED
  BY <1>3, <1>4, <1>5, <1>6, <1>7, <1>8, <1>9, <1>10, <1>11 DEF ClientStep

\* Requests that keep their step and their id, or give the id up.
LEMMA SettleAll ==
  ASSUME CallsOK(call, table), SameTable, call' = [d \in Call |-> call'[d]],
         \A d \in Call :
           /\ CallOK(call'[d], table)
           /\ call'[d].job \in {NoJob, call[d].job}
           /\ call'[d].pc = "lookup_insert"
                => call[d].pc = "lookup_insert" /\ call'[d].job = call[d].job
  PROVE  CallsOK(call', table')
<1>1. call' \in [Call -> CallRecord]
  BY DEF CallOK
<1>2. ASSUME NEW d \in Call, call'[d].pc = "lookup_insert"
      PROVE  /\ call'[d].job \notin DOMAIN table
             /\ \A e \in Call \ {d} : call'[e].job # call'[d].job
  <2>1. /\ call'[d].job = call[d].job
        /\ call[d].job \in Job /\ call[d].job \notin DOMAIN table
        /\ \A e \in Call \ {d} : call[e].job # call[d].job
    BY <1>2 DEF CallsOK, CallOK, Reserved
  <2>2. call[d].job # NoJob
    BY <2>1, JobAssumption DEF NoJob
  <2> QED
    BY <2>1, <2>2
<1> QED
  BY <1>1, <1>2 DEF CallsOK, Reserved, SameTable

\* An answer that refers to no job is always in order.
LEMMA SettleAnswer ==
  ASSUME IInv, NEW c \in Call, SameTable \/ Statement,
         NEW a \in AnswerCode \ {"disappeared"}, Become(c, Answer(a))
  PROVE  CallsOK(call', table')
<1>1. CallOK(Answer(a), table') /\ Answer(a).job = NoJob /\ Answer(a).pc = "done"
  BY AnswerOK
<1> QED
  BY <1>1, TableFacts, SettleHere

\* So is a request that starts from a row it has just read.
LEMMA SettleBegun ==
  ASSUME IInv, NEW c \in Call, SameTable, NEW j \in Job, HasRow(j),
         NEW step \in {"job_expire", "audio_mark", "result_open", "fail_mark"},
         Become(c, Begun(step, j))
  PROVE  CallsOK(call', table')
<1>1. CallOK(Begun(step, j), table') /\ Begun(step, j).job = j
      /\ Begun(step, j).pc # "lookup_insert"
  BY BegunOK DEF SameTable, HasRow
<1> QED
  BY <1>1, TableFacts, SettleHere DEF HasRow

\* And one that goes on after a statement.
LEMMA SettleNext ==
  ASSUME IInv, NEW c \in Call, SameTable \/ Statement, call[c].pc \in RowStep,
         NEW step \in {"job_reread", "result_mark", "clear"},
         Become(c, [call[c] EXCEPT !.pc = step])
  PROVE  CallsOK(call', table')
<1>1. CallOK(call[c], table')
  BY TableFacts, StillOK DEF CallsOK
<1> DEFINE r == call[c]
<1>2. /\ CallOK(r, table') /\ r.pc \in RowStep /\ step # "lookup_reread"
      /\ step \in {"lookup_reread", "job_reread", "result_mark", "clear"}
  BY <1>1
<1> HIDE DEF r
<1>3. CallOK([r EXCEPT !.pc = step], table') /\ [r EXCEPT !.pc = step].job = r.job
      /\ [r EXCEPT !.pc = step].pc = step
  BY <1>2, NextStepOK
<1> QED
  BY <1>3, TableFacts, SettleHere DEF r

LEMMA FileCalls ==
  ASSUME IInv, NEW c \in Call,
         ResultOpen(c) \/ ResultWrite(c) \/ ResultRename(c)
  PROVE  CallsOK(call', table')
<1> USE TableFacts
<1> DEFINE r == call[c]
<1>1. \A d \in Call : CallOK(call[d], table) /\ call[d] \in CallRecord
  BY DEF CallsOK, CallOK
<1>2. SameTable
  BY DEF ResultOpen, ResultWrite, ResultRename, db, SameTable
<1>3. CASE ResultOpen(c)
  <2> DEFINE others == TmpWriters(c, r.job)
             n == [r EXCEPT !.pc = "result_write", !.fd = "tmp",
                            !.shared = (others # {})]
  <2>1. r.pc = "result_open" /\ CallOK(r, table)
    BY <1>1, <1>3 DEF ResultOpen, At
  <2>2. CallOK(n, table) /\ n.job = r.job /\ n.pc = "result_write"
    BY <2>1 DEF CallOK, CallRecord, Step, Link, RowStep, LookupStep
  <2>3. call' = [d \in Call |->
           CASE d = c -> n
             [] d \in others -> [call[d] EXCEPT !.shared = TRUE]
             [] OTHER -> call[d]]
    BY <1>3 DEF ResultOpen
  <2> HIDE DEF n
  <2>4. call'[c] = n
    BY <2>3 DEF TmpWriters
  <2>5. ASSUME NEW d \in Call \ {c}
        PROVE  call'[d] \in {call[d], [call[d] EXCEPT !.shared = TRUE]}
    <3>1. d \in others => call'[d] = [call[d] EXCEPT !.shared = TRUE]
      BY <2>3 DEF TmpWriters
    <3>2. d \notin others => call'[d] = call[d]
      BY <2>3
    <3> QED
      BY <3>1, <3>2
  <2>6. call' = [d \in Call |-> call'[d]]
    BY <2>3
  <2>7. ASSUME NEW d \in Call \ {c}
        PROVE  /\ CallOK(call'[d], table)
               /\ call'[d].job = call[d].job
               /\ call'[d].pc = call[d].pc
    <3>1. CallOK(call[d], table)
      BY <1>1
    <3>2. /\ CallOK([call[d] EXCEPT !.shared = TRUE], table)
          /\ [call[d] EXCEPT !.shared = TRUE].job = call[d].job
          /\ [call[d] EXCEPT !.shared = TRUE].pc = call[d].pc
      BY <1>1 DEF CallOK, CallRecord
    <3> QED
      BY <2>5, <3>1, <3>2
  <2> QED
    BY <1>2, <2>2, <2>4, <2>6, <2>7, SettleAll
<1>4. CASE ResultWrite(c)
  <2> DEFINE n == [r EXCEPT !.pc = "result_rename", !.fd = "none", !.shared = FALSE]
  <2>1. r.pc = "result_write" /\ CallOK(r, table) /\ Become(c, n)
    BY <1>1, <1>4 DEF ResultWrite, At
  <2>2. CallOK(n, table) /\ n.job = r.job /\ n.pc = "result_rename"
    BY <2>1 DEF CallOK, CallRecord, Step, Link, RowStep, LookupStep
  <2> HIDE DEF n
  <2> QED
    BY <1>2, <2>1, <2>2, SettleHere DEF SameTable
<1>5. CASE ResultRename(c)
  <2>1. CASE Become(c, Answer("error"))
    BY <1>2, <2>1, SettleAnswer DEF AnswerCode
  <2>2. CASE ~Become(c, Answer("error"))
    <3> DEFINE n == [r EXCEPT !.pc = "result_mark"]
               Moved(d) == CASE call[d].job = r.job /\ call[d].fd = "tmp" -> "store"
                             [] call[d].job = r.job /\ call[d].fd = "store" -> "unlinked"
                             [] OTHER -> call[d].fd
    <3>1. call' = [d \in Call |->
            IF d = c THEN n ELSE [call[d] EXCEPT !.fd = Moved(d)]]
      BY <1>5, <2>2 DEF ResultRename
    <3>2. \A d \in Call : Moved(d) \in Link
      BY <1>1 DEF CallRecord, Link
    <3>3. r.pc = "result_rename" /\ CallOK(r, table)
      BY <1>1, <1>5 DEF ResultRename, At
    <3>4. CallOK(n, table) /\ n.job = r.job /\ n.pc = "result_mark"
      BY <3>3, NextStepOK DEF RowStep
    <3> HIDE DEF n, Moved
    <3>5. /\ call'[c] = n
          /\ \A d \in Call \ {c} : call'[d] = [call[d] EXCEPT !.fd = Moved(d)]
          /\ call' = [d \in Call |-> call'[d]]
      BY <3>1
    <3>6. ASSUME NEW d \in Call \ {c}
          PROVE  /\ CallOK(call'[d], table)
                 /\ call'[d].job = call[d].job
                 /\ call'[d].pc = call[d].pc
      <4>1. CallOK(call[d], table) /\ Moved(d) \in Link
        BY <1>1, <3>2
      <4>2. /\ CallOK([call[d] EXCEPT !.fd = Moved(d)], table)
            /\ [call[d] EXCEPT !.fd = Moved(d)].job = call[d].job
            /\ [call[d] EXCEPT !.fd = Moved(d)].pc = call[d].pc
        BY <4>1 DEF CallOK, CallRecord
      <4> QED
        BY <3>5, <4>2
    <3> QED
      BY <1>2, <3>4, <3>5, <3>6, SettleAll
  <2> QED
    BY <2>1, <2>2
<1> QED
  BY <1>3, <1>4, <1>5

LEMMA WorkerCalls ==
  ASSUME IInv, NEW c \in Call, WorkerStep(c)
  PROVE  CallsOK(call', table')
<1>1. SameTable \/ Statement
  BY WorkerTable
<1>2. CASE Claim(c)
  <2>1. \E a \in {"no_content", "claimed"} : Become(c, Answer(a))
    BY <1>2 DEF Claim
  <2> QED
    BY <1>1, <2>1, SettleAnswer DEF AnswerCode
<1>3. ASSUME NEW j \in Job, NEW matches \in BOOLEAN, AudioReadyFind(c, j, matches)
      PROVE  CallsOK(call', table')
  <2>1. SameTable
    BY <1>3 DEF AudioReadyFind, db, SameTable
  <2>2. \/ \E a \in {"not_found", "bad_request", "no_content", "conflict"} :
             Become(c, Answer(a))
        \/ HasRow(j) /\ Become(c, Begun("audio_mark", j))
    BY <1>3 DEF AudioReadyFind, IsIn
  <2> QED
    BY <2>1, <2>2, SettleAnswer, SettleBegun DEF AnswerCode
<1>4. CASE AudioReadyMark(c)
  <2>1. \E a \in {"no_content", "conflict"} : Become(c, Answer(a))
    BY <1>4 DEF AudioReadyMark
  <2> QED
    BY <1>1, <2>1, SettleAnswer DEF AnswerCode
<1>5. ASSUME NEW j \in Job, NEW valid \in BOOLEAN, ResultFind(c, j, valid)
      PROVE  CallsOK(call', table')
  <2>1. SameTable
    BY <1>5 DEF ResultFind, db, SameTable
  <2>2. \/ \E a \in {"not_found", "bad_request", "no_content", "conflict"} :
             Become(c, Answer(a))
        \/ HasRow(j) /\ Become(c, Begun("result_open", j))
    BY <1>5 DEF ResultFind, IsIn
  <2> QED
    BY <2>1, <2>2, SettleAnswer, SettleBegun DEF AnswerCode
<1>6. CASE ResultOpen(c) \/ ResultWrite(c) \/ ResultRename(c)
  BY <1>6, FileCalls
<1>7. CASE ResultMark(c) \/ FailReturn(c) \/ FailMark(c)
  <2>1. call[c].pc \in RowStep /\ Become(c, [call[c] EXCEPT !.pc = "clear"])
    BY <1>7 DEF ResultMark, FailReturn, FailMark, At, RowStep
  <2> QED
    BY <1>1, <2>1, SettleNext
<1>8. ASSUME NEW j \in Job, NEW reason \in Reason, FailFind(c, j, reason)
      PROVE  CallsOK(call', table')
  <2> DEFINE n == [Begun("fail_return", j) EXCEPT !.t = UploadDeadline]
  <2>1. SameTable
    BY <1>8 DEF FailFind, db, SameTable
  <2>2. \/ \E a \in {"not_found", "bad_request", "no_content", "conflict"} :
             Become(c, Answer(a))
        \/ HasRow(j) /\ Become(c, n)
        \/ HasRow(j) /\ Become(c, Begun("fail_mark", j))
    BY <1>8 DEF FailFind, IsIn
  <2>3. ASSUME HasRow(j), Become(c, n)
        PROVE  CallsOK(call', table')
    <3>1. UploadDeadline \in Deadline /\ j \in DOMAIN table
      BY <2>3, UploadDeadlineType DEF IInv, TableOK, HasRow
    <3>2. CallOK(n, table) /\ n.job = j /\ n.pc = "fail_return"
      BY <3>1 DEF Begun, Idle, CallOK, CallRecord, Step, Link, AnswerCode, RowStep,
         LookupStep, NoJob
    <3> HIDE DEF n
    <3> QED
      BY <2>1, <2>3, <3>1, <3>2, TableFacts, SettleHere DEF SameTable
  <2> HIDE DEF n
  <2> QED
    BY <2>1, <2>2, <2>3, SettleAnswer, SettleBegun DEF AnswerCode
<1>9. CASE Clear(c)
  BY <1>1, <1>9, SettleAnswer DEF Clear, AnswerCode
<1> QED
  BY <1>2, <1>3, <1>4, <1>5, <1>6, <1>7, <1>8, <1>9 DEF WorkerStep

LEMMA CallsStep ==
  ASSUME IInv, [Next]_vars
  PROVE  CallsOK(call', table')
<1>1. ASSUME NEW c \in Call, Reply(c) \/ Abandon(c)
      PROVE  CallsOK(call', table')
  <2>1. Become(c, Idle) /\ SameTable
    BY <1>1 DEF Reply, Abandon, SameTable, db
  <2>2. CallOK(Idle, table') /\ Idle.job = NoJob /\ Idle.pc = "idle"
    BY IdleOK DEF Idle
  <2> QED
    BY <2>1, <2>2, TableFacts, SettleHere
<1>2. CASE Crash
  <2>1. call' = [c \in Call |-> Idle]
    BY <1>2 DEF Crash
  <2>2. CallOK(Idle, table') /\ Idle.pc = "idle"
    BY IdleOK DEF Idle
  <2> QED
    BY <2>1, <2>2 DEF CallsOK, CallOK, Reserved
<1>3. CASE ProcessStep /\ ~Crash
  <2>1. UNCHANGED call
    BY <1>3 DEF ProcessStep, Tick, Start, PollReset, PollExpire, PollFind,
       PollFetch, PollError
  <2>2. KeepsRows(table, table') /\ DOMAIN table' = DOMAIN table
    BY <1>3, ProcessTable, TableFacts
       DEF JS!Tick, KeepsRows
  <2>3. \A c \in Call : CallOK(call[c], table')
    BY <2>2, StillOK DEF IInv, CallsOK
  <2> QED
    BY <2>1, <2>2, <2>3 DEF IInv, CallsOK, Reserved
<1>4. CASE UNCHANGED vars
  BY <1>4 DEF vars, IInv, CallsOK
<1> QED
  BY <1>1, <1>2, <1>3, <1>4, ClientCalls, WorkerCalls DEF Next

-----------------------------------------------------------------------------
(* Files, loop and history.                                                *)

\* Only a claim hands a job to the worker.
NoneClaimed == InStatus(table', "processing") \subseteq InStatus(table, "processing")

\* The loop and the history that a request leaves as they are.
SameLoop == UNCHANGED <<loop, claimedIn>> /\ progress' \subseteq progress /\ NoneClaimed

\* The files that a step leaves of their kind.
FilesOK == tmp \in [Job -> Content] /\ store \in [Key -> Content]

LEMMA RequestLoop ==
  ASSUME IInv, NEW c \in Call,
         ClientStep(c) \/ WorkerStep(c) \/ Reply(c) \/ Abandon(c)
  PROVE  SameLoop \/ Claim(c)
<1>1. Good(table)
  BY DEF IInv, TableOK
<1>2. CASE ClientStep(c)
  BY <1>1, <1>2, OnlyClaims
     DEF ClientStep, LookupExpire, LookupFind, LookupInsert, LookupRequeue,
         LookupReread, JobFind, JobExpire, JobReread, ReadFile, SameLoop, NoneClaimed, db
<1>3. CASE WorkerStep(c) /\ ~Claim(c)
  BY <1>1, <1>3, OnlyClaims
     DEF WorkerStep, AudioReadyFind, AudioReadyMark, ResultFind, ResultOpen,
         ResultWrite, ResultRename, ResultMark, FailFind, FailReturn, FailMark,
         Clear, SameLoop, NoneClaimed, db
<1>4. CASE Reply(c) \/ Abandon(c)
  BY <1>1, <1>4, OnlyClaims DEF Reply, Abandon, SameLoop, NoneClaimed, db
<1> QED
  BY <1>2, <1>3, <1>4

LEMMA FilesStep ==
  ASSUME IInv, [Next]_vars
  PROVE  FilesOK'
<1> USE DEF FilesOK
<1>1. FilesOK
  BY DEF IInv, ProcessOK
<1>2. ASSUME NEW c \in Call, ResultOpen(c)
      PROVE  FilesOK'
  BY <1>1, <1>2 DEF ResultOpen, Content
<1>3. ASSUME NEW c \in Call, ResultWrite(c)
      PROVE  FilesOK'
  BY <1>1, <1>3 DEF ResultWrite, Content
<1>4. ASSUME NEW c \in Call, ResultRename(c)
      PROVE  FilesOK'
  <2>1. call[c].job \in Job
    BY <1>4, Arguments DEF ResultRename, At, RowStep
  <2> QED
    BY <1>1, <1>4, <2>1 DEF ResultRename, files, Content
<1>5. ASSUME NEW c \in Call,
             \/ ClientStep(c) \/ Reply(c) \/ Abandon(c)
             \/ WorkerStep(c) /\ ~ResultOpen(c) /\ ~ResultWrite(c) /\ ~ResultRename(c)
      PROVE  FilesOK'
  BY <1>1, <1>5
     DEF ClientStep, LookupExpire, LookupFind, LookupInsert, LookupRequeue,
         LookupReread, JobFind, JobExpire, JobReread, ReadFile, WorkerStep,
         Claim, AudioReadyFind, AudioReadyMark, ResultFind, ResultMark,
         FailFind, FailReturn, FailMark, Clear, Reply, Abandon, files
<1>6. CASE ProcessStep \/ UNCHANGED vars
  BY <1>1, <1>6
     DEF ProcessStep, Tick, Start, Crash, PollReset, PollExpire, PollFind,
         PollFetch, PollError, files, vars
<1> QED
  BY <1>2, <1>3, <1>4, <1>5, <1>6 DEF Next

LEMMA ProcessOKStep ==
  ASSUME IInv, [Next]_vars
  PROVE  ProcessOK'
<1> USE FilesStep DEF FilesOK
<1>1. ProcessOK /\ Good(table)
  BY DEF IInv, TableOK
<1>2. CASE SameLoop
  BY <1>1, <1>2 DEF SameLoop, loop, ProcessOK, NoneClaimed
<1>3. ASSUME NEW c \in Call, Claim(c)
      PROVE  ProcessOK'
  <2>1. /\ UNCHANGED loop /\ progress' = progress
        /\ claimedIn' = [j \in Job |-> IF j \in ClaimHead(table) THEN epoch
                                       ELSE claimedIn[j]]
        /\ table' = ClaimNext(table)
    BY <1>3 DEF Claim
  <2>2. \A j \in InStatus(table', "processing") :
          j \in Job /\ (j \in ClaimHead(table) \/ j \in InStatus(table, "processing"))
    BY <1>1, <2>1 DEF ClaimNext, InStatus, Good
  <2>3. recovered => \A j \in InStatus(table', "processing") : claimedIn'[j] = epoch
    BY <1>1, <2>1, <2>2 DEF ProcessOK
  <2> QED
    BY <1>1, <2>1, <2>3 DEF ProcessOK, loop
<1>4. CASE Start
  <2>1. NoneClaimed
    BY <1>1, <1>4, OnlyClaims DEF Start, NoneClaimed, db
  <2> QED
    BY <1>1, <1>4, <2>1, MaxStartsAssumption DEF Start, ProcessOK
<1>5. CASE Crash
  BY <1>1, <1>5 DEF Crash, ProcessOK
<1>6. CASE PollReset
  <2>1. CASE table' = ResetProcessing(table) /\ recovered' = TRUE
    <3>1. InStatus(table', "processing") = {}
      BY <1>1, <2>1 DEF ResetProcessing, InStatus, Good, RowOK, Row
    <3> QED
      BY <1>1, <1>6, <2>1, <3>1 DEF PollReset, ProcessOK
  <2>2. CASE UNCHANGED <<table, recovered>>
    BY <1>1, <1>6, <2>2 DEF PollReset, ProcessOK
  <2> QED
    BY <1>6, <2>1, <2>2 DEF PollReset
<1>7. CASE PollFind
  <2>1. ASSUME NEW j \in InStatus(table, "processing"), active' = j,
               progress' = Unwatch(j), poll' = "fetch"
        PROVE  ProcessOK'
    <3>1. j \in Job /\ progress' \subseteq {j} /\ progress' \subseteq Job
      BY <1>1, <2>1 DEF InStatus, Good, Unwatch, ProcessOK
    <3> QED
      BY <1>1, <1>7, <2>1, <3>1 DEF PollFind, ProcessOK, db
  <2>2. CASE active' = NoJob /\ progress' = Unwatch(NoJob) /\ poll' = "expire"
    <3>1. progress' \subseteq {NoJob} /\ progress' \subseteq Job
      BY <1>1, <2>2 DEF Unwatch, ProcessOK
    <3> QED
      BY <1>1, <1>7, <2>2, <3>1 DEF PollFind, ProcessOK, db
  <2> QED
    BY <1>7, <2>1, <2>2 DEF PollFind
<1>8. CASE PollFetch
  BY <1>1, <1>8 DEF PollFetch, ProcessOK, db
<1>9. CASE PollExpire \/ PollError \/ Tick
  <2>1. NoneClaimed
    BY <1>1, <1>9, OnlyClaims
       DEF PollExpire, PollError, Tick, NoneClaimed, db
  <2> QED
    BY <1>1, <1>9, <2>1
       DEF PollExpire, PollError, Tick, loop, ProcessOK, NoneClaimed
<1>10. CASE UNCHANGED vars
  BY <1>1, <1>10 DEF vars, ProcessOK
<1> QED
  BY <1>2, <1>3, <1>4, <1>5, <1>6, <1>7, <1>8, <1>9, <1>10, RequestLoop
     DEF Next, ProcessStep

-----------------------------------------------------------------------------
(* The theorems.                                                           *)

LEMMA InitIInv == Init => IInv
<1> SUFFICES ASSUME Init
             PROVE  IInv
  OBVIOUS
<1>1. TableOK
  BY MaxTimeAssumption DEF Init, TableOK, Good, EmptyTable, Time
<1>2. CallsOK(call, table)
  BY IdleOK DEF Init, CallsOK, CallOK, Reserved, Idle
<1>3. ProcessOK
  <2>1. 0 \in 0 .. MaxStarts /\ 0 < MaxStarts
    BY MaxStartsAssumption
  <2>2. /\ tmp \in [Job -> Content] /\ store \in [Key -> Content]
        /\ claimedIn \in [Job -> 0 .. MaxStarts]
    BY <2>1 DEF Init, Content
  <2> QED
    BY <2>1, <2>2 DEF Init, ProcessOK, NoJob
<1> QED
  BY <1>1, <1>2, <1>3 DEF IInv

LEMMA NextIInv == IInv /\ [Next]_vars => IInv'
<1> SUFFICES ASSUME IInv, [Next]_vars
             PROVE  IInv'
  OBVIOUS
<1>1. TableOK'
  BY TableStep
<1>2. CallsOK(call', table')
  BY CallsStep
<1>3. ProcessOK'
  BY ProcessOKStep
<1> QED
  BY <1>1, <1>2, <1>3 DEF IInv, CallsOK

LEMMA SpecIInv == Spec => []IInv
  BY InitIInv, NextIInv, PTL DEF Spec

\* Every variable has its type at every moment of every run.
THEOREM GatewayTyping == Spec => []TypeOK
  BY SpecIInv, IInvImplies, PTL

\* A lookup never answers that its job disappeared, nor with the job of
\* another key (api.rs:132, 174-176): rows are never deleted, and a conflict
\* means the key has a row.
THEOREM LookupsFindTheirJob == Spec => []LookupFindsItsJob
  BY SpecIInv, IInvImplies, PTL

\* After a successful startup reset every job at the worker was claimed
\* from this process (worker.rs:20-24).
THEOREM RecoveryCompletes == Spec => []RecoveryIsComplete
  BY SpecIInv, IInvImplies, PTL

\* The progress map holds no job but the one polled (worker.rs:45-65).
THEOREM ProgressIsBounded == Spec => []ProgressOnlyOfActiveJob
  BY SpecIInv, IInvImplies, PTL

\* The handlers and the loop implement the database of JobStore, so its
\* theorems (JobStoreProofs) hold of every run of the gateway.
THEOREM Implementation == Spec => ImplementsJobStore
<1>1. Init => JS!Init
  BY DEF Init, JS!Init, EmptyTable, JS!EmptyTable
<1>2. IInv /\ [Next]_vars => [JS!Next]_(JS!vars)
  BY TableStep DEF SameTable, JS!vars
<1> QED
  BY <1>1, <1>2, SpecIInv, PTL DEF Spec, JS!Spec, ImplementsJobStore

\* What JobStore promises of each of its states, of the table here.
LEMMA SoundTable ==
  IInv => /\ JS!ErrorIffFailed
          /\ JS!DeadlineMatchesStatus
          /\ JS!ReadyHasPath
          /\ JS!OneJobPerKey
          /\ JS!PositionsNumberTheQueue
<1> SUFFICES ASSUME IInv
             PROVE  /\ JS!ErrorIffFailed
                    /\ JS!DeadlineMatchesStatus
                    /\ JS!ReadyHasPath
                    /\ JS!OneJobPerKey
                    /\ JS!PositionsNumberTheQueue
  OBVIOUS
<1>1. Good(table)
  BY DEF IInv, TableOK
<1>2. JS!ErrorIffFailed /\ JS!ReadyHasPath /\ JS!OneJobPerKey
  BY <1>1 DEF Good, RowOK, JS!ErrorIffFailed, JS!ReadyHasPath, JS!OneJobPerKey
<1>3. JS!DeadlineMatchesStatus
  BY <1>1, SameStatements DEF Good, RowOK, JS!DeadlineMatchesStatus
<1>4. JS!PositionsNumberTheQueue
  <2>1. \A S : JS!Cardinality(S) = Cardinality(S)
    BY DEF JS!Cardinality, Cardinality
  <2>2. \A status : JS!InStatus(table, status) = InStatus(table, status)
    BY DEF JS!InStatus, InStatus
  <2>3. \A j : JS!QueuedUpTo(table, j) = QueuedUpTo(table, j)
    BY <2>2 DEF JS!QueuedUpTo, QueuedUpTo
  <2>4. \A j : JS!PendingPosition(table, j) = PendingPosition(table, j)
    BY <2>1, <2>2, <2>3 DEF JS!PendingPosition, PendingPosition
  <2> QED
    BY <1>1, <2>1, <2>2, <2>4, PositionsFill DEF JS!PositionsNumberTheQueue
<1> QED
  BY <1>2, <1>3, <1>4

\* What clients are told of the queue, and what they find in a row, is as
\* JobStore promises under the handlers and the loop, however they interleave.
THEOREM TableIsSound ==
  Spec => [](/\ JS!ErrorIffFailed
             /\ JS!DeadlineMatchesStatus
             /\ JS!ReadyHasPath
             /\ JS!OneJobPerKey
             /\ JS!PositionsNumberTheQueue)
  BY SpecIInv, SoundTable, PTL

\* However claims interleave with each other and with everything else, the
\* worker is handed one pending job at a time, and never past a job created in
\* an earlier second (api.rs:218-238, db.rs:164-178).
THEOREM GatewayClaims == Spec => JS!ClaimsOldest
<1>1. ASSUME IInv, [Next]_vars
      PROVE  OldestOnly(table, table')
  <2>1. Good(table) /\ DOMAIN table \subseteq DOMAIN table'
    BY <1>1, TableStep DEF IInv, TableOK, KeepsRows
  <2>2. CASE SameTable
    BY <2>2 DEF SameTable, OldestOnly
  <2>3. CASE JS!Claim
    BY <2>1, <2>3, ClaimOldestOnly, SameStatements DEF JS!Claim
  <2>4. CASE JS!Next /\ ~JS!Claim
    <3>1. InStatus(table', "processing") \subseteq InStatus(table, "processing")
      BY <2>1, <2>4, OnlyClaims, SameStatements
         DEF JS!Next, JS!Tick, JS!Reset, JS!Expire, JS!AudioReady, JS!Ready,
             JS!Fail, JS!Requeue, JS!Return, JS!Insert
    <3> QED
      BY <2>1, <3>1, NoneOldestOnly
  <2> QED
    BY <1>1, <2>2, <2>3, <2>4, TableStep
<1>2. IInv /\ [Next]_vars
        => [\A j \in DOMAIN table :
              table[j].status # "processing" /\ table'[j].status = "processing"
                => /\ table[j].status = "pending"
                   /\ \A i \in DOMAIN table \ {j} :
                        /\ table'[i] = table[i]
                        /\ table[i].status = "pending"
                             => table[j].created <= table[i].created]_(JS!vars)
  BY <1>1 DEF OldestOnly
<1> QED
  BY <1>2, SpecIInv, PTL DEF Spec, JS!ClaimsOldest

-----------------------------------------------------------------------------
(* A ready job, however callbacks overlap.                                 *)

LEMMA ReadyNotRetried ==
  ASSUME IInv, [Next]_vars, NEW j \in InStatus(table, "ready")
  PROVE  table'[j].status \in {"ready", "failed"}
<1>1. Good(table)
  BY DEF IInv, TableOK
<1>2. CASE SameTable
  BY <1>2 DEF SameTable, InStatus
<1>3. CASE JS!Next
  BY <1>1, <1>3, ReadyOrFailed, SameStatements
     DEF JS!Next, JS!Tick, JS!Reset, JS!Claim, JS!Expire, JS!AudioReady,
         JS!Ready, JS!Fail, JS!Requeue, JS!Return, JS!Insert, InStatus
<1> QED
  BY <1>2, <1>3, TableStep

\* No handler takes a ready job back to its upload or to the queue, whatever it
\* read before and however callbacks overlap (db.rs:101-132).
THEOREM ReadyIsKept == Spec => ReadyIsNotRetried
<1>1. IInv /\ [Next]_vars
        => [\A j \in InStatus(table, "ready") :
              table'[j].status \in {"ready", "failed"}]_vars
  BY ReadyNotRetried
<1> QED
  BY <1>1, SpecIInv, PTL DEF Spec, ReadyIsNotRetried

LEMMA DeadlineNotReplaced ==
  ASSUME IInv, [Next]_vars, NEW j \in InStatus(table, "awaiting_upload")
  PROVE  table'[j].status = "awaiting_upload" => table'[j].expires = table[j].expires
<1>1. Good(table)
  BY DEF IInv, TableOK
<1>2. CASE SameTable
  BY <1>2 DEF SameTable, InStatus
<1>3. CASE JS!Next
  <2>1. CASE JS!Tick \/ JS!Reset \/ JS!Claim \/ \E t \in JS!Time : JS!Expire(t)
    BY <1>1, <2>1, DeadlineStays, SameStatements
       DEF JS!Tick, JS!Reset, JS!Claim, JS!Expire, InStatus
  <2>2. ASSUME NEW i, JS!AudioReady(i) \/ JS!Ready(i) \/ JS!Fail(i)
        PROVE  table'[j].status = "awaiting_upload" => table'[j].expires = table[j].expires
    BY <1>1, <2>2, DeadlineStays, SameStatements DEF JS!AudioReady, JS!Ready, JS!Fail
  <2>3. ASSUME NEW i, NEW e, JS!Requeue(i, e) \/ JS!Return(i, e)
        PROVE  table'[j].status = "awaiting_upload" => table'[j].expires = table[j].expires
    <3>1. CASE table' = RequeueFailed(table, i, e)
      BY <1>1, <3>1, DeadlineStays
    <3>2. CASE table' = ReturnToAwaitingUpload(table, i, e)
      BY <1>1, <3>2, DeadlineStays
    <3> QED
      BY <2>3, <3>1, <3>2, SameStatements DEF JS!Requeue, JS!Return
  <2>4. ASSUME NEW i, NEW e, NEW k, JS!Insert(i, k, e)
        PROVE  table'[j].status = "awaiting_upload" => table'[j].expires = table[j].expires
    <3>1. i \notin DOMAIN table /\ table' = InsertAwaitingUpload(table, i, k, e, now)
      BY <2>4, SameStatements DEF JS!Insert
    <3> QED
      BY <1>1, <3>1, DeadlineStays
  <2> QED
    BY <1>3, <2>1, <2>2, <2>3, <2>4 DEF JS!Next
<1> QED
  BY <1>2, <1>3, TableStep

\* While an upload is waited for its deadline stays the one its client was
\* given, although lookups and failures carry deadlines computed before the
\* statement that uses them (api.rs:118, 357).
THEOREM DeadlinesAreKept == Spec => DeadlineIsKept
<1>1. IInv /\ [Next]_vars
        => [\A j \in InStatus(table, "awaiting_upload") :
              table'[j].status = "awaiting_upload"
                => table'[j].expires = table[j].expires]_vars
  BY DeadlineNotReplaced
<1> QED
  BY <1>1, SpecIInv, PTL DEF Spec, DeadlineIsKept

-----------------------------------------------------------------------------
(* The file of a ready job.                                                *)

\* What is linked under a transcript's name is overwritten or replaced, and
\* never removed: a request that has renamed its file may rely on one.
FileInv ==
  /\ \A c \in Call : At(c, "result_mark") => store[table[call[c].job].key] # "absent"
  /\ ReadyHasFile

LEMMA KeyOfRow ==
  ASSUME IInv, [Next]_vars, NEW j \in DOMAIN table
  PROVE  j \in DOMAIN table' /\ table'[j].key = table[j].key /\ table[j].key \in Key
  BY TableStep DEF IInv, TableOK, Good, RowOK, Row, KeepsRows

LEMMA FilesStay ==
  ASSUME IInv, [Next]_vars, NEW k \in Key, store[k] # "absent"
  PROVE  store'[k] # "absent"
<1>1. store \in [Key -> Content] /\ tmp \in [Job -> Content]
  BY DEF IInv, ProcessOK
<1>2. ASSUME NEW c \in Call, ResultWrite(c)
      PROVE  store'[k] # "absent"
  BY <1>1, <1>2 DEF ResultWrite
<1>3. ASSUME NEW c \in Call, ResultRename(c)
      PROVE  store'[k] # "absent"
  BY <1>1, <1>3 DEF ResultRename, files
<1>4. ASSUME NEW c \in Call,
             \/ ClientStep(c) \/ Reply(c) \/ Abandon(c)
             \/ WorkerStep(c) /\ ~ResultWrite(c) /\ ~ResultRename(c)
      PROVE  store' = store
  BY <1>4
     DEF ClientStep, LookupExpire, LookupFind, LookupInsert, LookupRequeue,
         LookupReread, JobFind, JobExpire, JobReread, ReadFile, WorkerStep,
         Claim, AudioReadyFind, AudioReadyMark, ResultFind, ResultOpen,
         ResultMark, FailFind, FailReturn, FailMark, Clear, Reply, Abandon, files
<1>5. CASE ProcessStep \/ UNCHANGED vars
  BY <1>5
     DEF ProcessStep, Tick, Start, Crash, PollReset, PollExpire, PollFind,
         PollFetch, PollError, files, vars
<1> QED
  BY <1>2, <1>3, <1>4, <1>5 DEF Next

LEMMA NoneMadeReady ==
  ASSUME IInv, [Next]_vars, \A c \in Call : ~ResultMark(c)
  PROVE  InStatus(table', "ready") \subseteq InStatus(table, "ready")
<1>1. Good(table)
  BY DEF IInv, TableOK
<1>2. ASSUME NEW c \in Call, ClientStep(c)
      PROVE  InStatus(table', "ready") \subseteq InStatus(table, "ready")
  BY <1>1, <1>2, OnlyMarkedReady
     DEF ClientStep, LookupExpire, LookupFind, LookupInsert, LookupRequeue,
         LookupReread, JobFind, JobExpire, JobReread, ReadFile, db
<1>3. ASSUME NEW c \in Call, WorkerStep(c)
      PROVE  InStatus(table', "ready") \subseteq InStatus(table, "ready")
  BY <1>1, <1>3, OnlyMarkedReady
     DEF WorkerStep, Claim, AudioReadyFind, AudioReadyMark, ResultFind,
         ResultOpen, ResultWrite, ResultRename, FailFind, FailReturn, FailMark,
         Clear, db
<1>4. ASSUME NEW c \in Call, Reply(c) \/ Abandon(c)
      PROVE  InStatus(table', "ready") \subseteq InStatus(table, "ready")
  BY <1>4 DEF Reply, Abandon, db
<1>5. CASE ProcessStep \/ UNCHANGED vars
  BY <1>1, <1>5, OnlyMarkedReady
     DEF ProcessStep, Tick, Start, Crash, PollReset, PollExpire, PollFind,
         PollFetch, PollError, db, vars
<1> QED
  BY <1>2, <1>3, <1>4, <1>5 DEF Next

\* A request awaits mark_ready only because it has just renamed its file.
LEMMA OnlyRenamesMark ==
  ASSUME IInv, [Next]_vars, NEW d \in Call, call'[d].pc = "result_mark"
  PROVE  /\ call'[d].job = call[d].job /\ call[d].job \in DOMAIN table
         /\ At(d, "result_mark") \/ store'[table[call[d].job].key] # "absent"
<1> DEFINE Same(c) == call'[c].pc = call[c].pc /\ call'[c].job = call[c].job
<1>0. call \in [Call -> CallRecord] /\ store \in [Key -> Content]
  BY DEF IInv, CallsOK, ProcessOK
<1>1. CASE Same(d)
  BY <1>1, Arguments DEF At, RowStep
<1>2. ASSUME NEW c \in Call, NEW r, Become(c, r), r.pc # "result_mark"
      PROVE  Same(d)
  BY <1>0, <1>2 DEF Become
<1>3. ASSUME NEW c \in Call, ClientStep(c)
      PROVE  Same(d)
  <2>1. \A r, j : /\ Done(r, j, "accepted").pc = "done"
                  /\ Done(r, j, "failed").pc = "done"
                  /\ Done(r, j, "transcript").pc = "done"
                  /\ Done(r, j, "unreadable").pc = "done"
                  /\ Done(r, j, "disappeared").pc = "done"
    BY DEF Done, Answer, Idle
  <2>2. ASSUME NEW r \in CallRecord \cup {Begun("", i) : i \in Job}, NEW j
        PROVE  Responded(r, j).pc # "result_mark"
    BY <2>1 DEF Responded, CallRecord, Begun, Idle
  <2>3. \E r : Become(c, r) /\ r.pc # "result_mark"
    <3>1. ASSUME NEW k \in Key, LookupExpire(c, k)
          PROVE  \E r : Become(c, r) /\ r.pc # "result_mark"
      <4> DEFINE n == [Begun("lookup_find", NoJob) EXCEPT !.key = k,
                                                          !.t = UploadDeadline]
      <4>1. Become(c, n)
        BY <3>1 DEF LookupExpire
      <4>2. n.pc = "lookup_find"
        BY DEF Begun, Idle
      <4> QED
        BY <4>1, <4>2
    <3>2. CASE LookupFind(c)
      <4>1. \/ \E j : Become(c, [call[c] EXCEPT !.pc = "lookup_insert", !.job = j])
            \/ \E j : Become(c, [call[c] EXCEPT !.pc = "lookup_requeue", !.job = j])
            \/ \E j : Become(c, Responded(call[c], j))
        BY <3>2 DEF LookupFind
      <4>2. call[c] \in CallRecord
        BY <1>0
      <4>3. ASSUME NEW j, Become(c, Responded(call[c], j))
            PROVE  \E r : Become(c, r) /\ r.pc # "result_mark"
        BY <2>2, <4>2, <4>3
      <4>4. ASSUME NEW j, NEW step \in {"lookup_insert", "lookup_requeue"},
                   Become(c, [call[c] EXCEPT !.pc = step, !.job = j])
            PROVE  \E r : Become(c, r) /\ r.pc # "result_mark"
        <5>1. [call[c] EXCEPT !.pc = step, !.job = j].pc = step
          BY <1>0 DEF CallRecord
        <5> QED
          BY <4>4, <5>1
      <4> QED
        BY <4>1, <4>3, <4>4
    <3>3. CASE LookupInsert(c) \/ LookupRequeue(c) \/ JobExpire(c)
      <4>1. PICK step \in {"lookup_created", "lookup_conflict", "lookup_reread",
                           "job_reread"} : Become(c, [call[c] EXCEPT !.pc = step])
        BY <3>3 DEF LookupInsert, LookupRequeue, JobExpire
      <4>2. [call[c] EXCEPT !.pc = step].pc = step
        BY <1>0 DEF CallRecord
      <4> QED
        BY <4>1, <4>2
    <3>4. CASE LookupReread(c)
      <4>1. \/ Become(c, Done(call[c], NoJob, "disappeared"))
            \/ \E j : Become(c, Responded(call[c], j))
        BY <3>4 DEF LookupReread
      <4>2. call[c] \in CallRecord
        BY <1>0
      <4> QED
        BY <2>1, <2>2, <4>1, <4>2
    <3>5. ASSUME NEW j \in Job, JobFind(c, j)
          PROVE  \E r : Become(c, r) /\ r.pc # "result_mark"
      <4>1. Answer("not_found").pc = "done" /\ Begun("job_expire", j).pc = "job_expire"
        BY DEF Answer, Begun, Idle
      <4> QED
        BY <2>2, <3>5, <4>1 DEF JobFind
    <3>6. CASE JobReread(c) \/ ReadFile(c)
      <4>1. Answer("not_found").pc = "done"
        BY DEF Answer, Idle
      <4> QED
        BY <1>0, <2>1, <2>2, <3>6, <4>1 DEF JobReread, ReadFile
    <3> QED
      BY <1>3, <3>1, <3>2, <3>3, <3>4, <3>5, <3>6 DEF ClientStep
  <2> QED
    BY <1>2, <2>3
<1>4. ASSUME NEW c \in Call, ResultOpen(c)
      PROVE  Same(d)
  BY <1>0, <1>4 DEF ResultOpen, CallRecord
<1>5. ASSUME NEW c \in Call, ResultRename(c), ~Same(d)
      PROVE  /\ At(d, "result_rename") /\ call'[d].job = call[d].job
             /\ store'[table[call[d].job].key] # "absent"
  <2>1. tmp[call[c].job] # "absent"
    <3>1. Answer("error").pc = "done"
      BY DEF Answer, Idle
    <3> QED
      BY <1>2, <1>5, <3>1 DEF ResultRename
  <2>2. /\ call'[c] = [call[c] EXCEPT !.pc = "result_mark"]
        /\ \A e \in Call \ {c} : \E fd : call'[e] = [call[e] EXCEPT !.fd = fd]
        /\ store' = [store EXCEPT ![table[call[c].job].key] = tmp[call[c].job]]
    BY <1>5, <2>1 DEF ResultRename
  <2>3. d = c
    BY <1>0, <1>5, <2>2 DEF CallRecord
  <2>4. At(c, "result_rename") /\ call[c].job \in DOMAIN table
    BY <1>5, Arguments DEF ResultRename, At, RowStep
  <2>5. table[call[c].job].key \in Key
    BY <2>4, KeyOfRow
  <2> QED
    BY <1>0, <2>1, <2>2, <2>3, <2>4, <2>5 DEF CallRecord
<1>6. ASSUME NEW c \in Call,
             WorkerStep(c) /\ ~ResultOpen(c) /\ ~ResultRename(c)
      PROVE  Same(d)
  <2>1. \A a : Answer(a).pc = "done"
    BY DEF Answer, Idle
  <2>2. \A step, j : Begun(step, j).pc = step
    BY DEF Begun, Idle
  <2>3. \E r : Become(c, r) /\ r.pc # "result_mark"
    <3>1. CASE Claim(c) \/ AudioReadyMark(c) \/ Clear(c)
      BY <2>1, <3>1 DEF Claim, AudioReadyMark, Clear
    <3>2. ASSUME NEW j \in Job, NEW b \in BOOLEAN,
                 AudioReadyFind(c, j, b) \/ ResultFind(c, j, b)
          PROVE  \E r : Become(c, r) /\ r.pc # "result_mark"
      BY <2>1, <2>2, <3>2 DEF AudioReadyFind, ResultFind
    <3>3. ASSUME NEW j \in Job, NEW reason \in Reason, FailFind(c, j, reason)
          PROVE  \E r : Become(c, r) /\ r.pc # "result_mark"
      <4>1. \/ \E a : Become(c, Answer(a))
            \/ Become(c, [Begun("fail_return", j) EXCEPT !.t = UploadDeadline])
            \/ Become(c, Begun("fail_mark", j))
        BY <3>3 DEF FailFind
      <4>2. CASE \E a : Become(c, Answer(a))
        BY <2>1, <4>2
      <4>3. CASE Become(c, [Begun("fail_return", j) EXCEPT !.t = UploadDeadline])
        <5> DEFINE n == [Begun("fail_return", j) EXCEPT !.t = UploadDeadline]
        <5>1. n.pc = "fail_return"
          BY DEF Begun, Idle
        <5> QED
          BY <4>3, <5>1
      <4>4. CASE Become(c, Begun("fail_mark", j))
        BY <2>2, <4>4
      <4> QED
        BY <4>1, <4>2, <4>3, <4>4
    <3>4. CASE ResultWrite(c)
      <4> DEFINE n == [call[c] EXCEPT !.pc = "result_rename", !.fd = "none",
                                      !.shared = FALSE]
      <4>1. Become(c, n)
        BY <3>4 DEF ResultWrite
      <4>2. n.pc = "result_rename"
        BY <1>0 DEF CallRecord
      <4> QED
        BY <4>1, <4>2
    <3>5. CASE ResultMark(c) \/ FailReturn(c) \/ FailMark(c)
      <4>1. Become(c, [call[c] EXCEPT !.pc = "clear"])
        BY <3>5 DEF ResultMark, FailReturn, FailMark
      <4>2. [call[c] EXCEPT !.pc = "clear"].pc = "clear"
        BY <1>0 DEF CallRecord
      <4> QED
        BY <4>1, <4>2
    <3> QED
      BY <1>6, <3>1, <3>2, <3>3, <3>4, <3>5 DEF WorkerStep
  <2> QED
    BY <1>2, <2>3
<1>7. ASSUME NEW c \in Call, Reply(c) \/ Abandon(c)
      PROVE  Same(d)
  BY <1>2, <1>7 DEF Reply, Abandon, Idle
<1>8. CASE ProcessStep \/ UNCHANGED vars
  BY <1>1, <1>8
     DEF ProcessStep, Tick, Start, Crash, PollReset, PollExpire, PollFind,
         PollFetch, PollError, vars, Idle
<1> QED
  BY <1>1, <1>3, <1>4, <1>5, <1>6, <1>7, <1>8, Arguments DEF Next, At, RowStep

LEMMA NextFileInv == IInv /\ FileInv /\ [Next]_vars => FileInv'
<1> SUFFICES ASSUME IInv, FileInv, [Next]_vars
             PROVE  FileInv'
  OBVIOUS
<1>1. ASSUME NEW d \in Call, call'[d].pc = "result_mark"
      PROVE  store'[table'[call'[d].job].key] # "absent"
  BY <1>1, OnlyRenamesMark, KeyOfRow, FilesStay DEF FileInv
<1>2. ASSUME NEW j \in InStatus(table', "ready")
      PROVE  store'[table'[j].key] # "absent"
  <2>1. CASE j \in InStatus(table, "ready")
    BY <2>1, KeyOfRow, FilesStay DEF FileInv, ReadyHasFile, InStatus
  <2>2. CASE j \notin InStatus(table, "ready")
    <3>1. PICK c \in Call : ResultMark(c)
      BY <1>2, <2>2, NoneMadeReady
    <3>2. call[c].job \in DOMAIN table /\ DOMAIN table' = DOMAIN table
      BY <3>1, Arguments DEF ResultMark, At, RowStep, MarkReady
    <3>3. j = call[c].job
      BY <1>2, <2>2, <3>1 DEF ResultMark, MarkReady, InStatus
    <3> QED
      BY <3>1, <3>2, <3>3, KeyOfRow, FilesStay DEF FileInv, ResultMark
  <2> QED
    BY <2>1, <2>2
<1> QED
  BY <1>1, <1>2 DEF FileInv, ReadyHasFile, At

\* Whichever of several results renames its file first, whatever fails or is
\* dropped afterwards, and however often the process crashes, a ready job has
\* a file under its transcript's name (api.rs:304-325).
THEOREM ReadyHasItsFile == Spec => []ReadyHasFile
<1>1. Init => FileInv
  BY DEF Init, FileInv, ReadyHasFile, At, Idle, InStatus, EmptyTable
<1>2. FileInv => ReadyHasFile
  BY DEF FileInv
<1> QED
  BY <1>1, <1>2, NextFileInv, SpecIInv, PTL DEF Spec

=============================================================================
