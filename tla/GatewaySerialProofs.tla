-------------------------- MODULE GatewaySerialProofs --------------------------
(***************************************************************************)
(* Proofs about Gateway when callbacks for one job do not overlap          *)
(* (Serial): what a client is promised about a finished job, at any number *)
(* of requests, crashes, dropped requests and failed writes.               *)
(*                                                                         *)
(* The inductive invariant SInv follows a result or failure through its    *)
(* steps.  While it is in flight no other one touches its job, so the row  *)
(* stays queued or at the worker and the temporary file is its own; what   *)
(* it has renamed is whole, and nothing else ever writes that file.        *)
(* Claimed adds what such a row has been through: it was claimed, and if   *)
(* it is queued again, the startup reset has returned it.                  *)
(***************************************************************************)
EXTENDS GatewayProofs

CallbackStep == {"result_open", "result_write", "result_rename",
                 "result_mark", "fail_return", "fail_mark", "clear"}

\* Where a callback still has to write the row of its job.
Unsettled == CallbackStep \ {"clear"}

Active == {"pending", "processing"}

\* What request r holds, over a table, temporary files and transcripts.
Holds(r, tbl, temp, done) ==
  /\ r.shared = FALSE
  /\ r.fd = IF r.pc = "result_write" THEN "tmp" ELSE "none"
  /\ r.pc \in Unsettled => tbl[r.job].status \in Active
  /\ r.pc = "result_rename" => temp[r.job] = "whole"
  /\ r.pc = "result_mark" => done[tbl[r.job].key] = "whole"

\* No two callbacks for one job are in flight.
Alone(calls) ==
  \A c, d \in Call :
    /\ calls[c].pc \in CallbackStep /\ calls[d].pc \in CallbackStep
    /\ calls[c].job = calls[d].job
    => c = d

SInv ==
  /\ \A c \in Call : Holds(call[c], table, tmp, store)
  /\ Alone(call)
  /\ ReadyHasTranscript

-----------------------------------------------------------------------------
(* What a statement does to the status of a row.                           *)

\* Rows in the queue or at the worker stay there, and none becomes ready.
Kept(tbl, new) ==
  /\ \A j \in DOMAIN tbl : tbl[j].status \in Active => new[j].status \in Active
  /\ InStatus(new, "ready") \subseteq InStatus(tbl, "ready")

\* The statements that neither finish nor return a job.
LEMMA KeptRows ==
  ASSUME NEW tbl, Good(tbl), NEW new, NEW j, NEW k, NEW e, NEW t,
         \/ new = tbl
         \/ new = ResetProcessing(tbl)
         \/ new = ExpireUploads(tbl, t)
         \/ new = RequeueFailed(tbl, j, e)
         \/ new = MarkAudioReady(tbl, j)
         \/ new = ClaimNext(tbl)
         \/ new = InsertAwaitingUpload(tbl, j, k, e, t) /\ j \notin DOMAIN tbl
  PROVE  Kept(tbl, new)
<1> DEFINE KeptRow(i) ==
             /\ tbl[i].status \in Active => new[i].status \in Active
             /\ new[i].status = "ready" => tbl[i].status = "ready"
<1>0. \A i \in DOMAIN tbl : tbl[i] \in Row
  BY DEF Good, RowOK
<1>1. ASSUME DOMAIN new = DOMAIN tbl, \A i \in DOMAIN tbl : KeptRow(i)
      PROVE  Kept(tbl, new)
  BY <1>1 DEF Kept, InStatus
<1>2. CASE new = ResetProcessing(tbl)
  <2>1. DOMAIN new = DOMAIN tbl /\ \A i \in DOMAIN tbl : KeptRow(i)
    BY <1>0, <1>2 DEF ResetProcessing, Row, Active
  <2> QED
    BY <1>1, <2>1
<1>3. CASE new = ExpireUploads(tbl, t)
  <2>1. DOMAIN new = DOMAIN tbl /\ \A i \in DOMAIN tbl : KeptRow(i)
    BY <1>0, <1>3 DEF ExpireUploads, Row, Active
  <2> QED
    BY <1>1, <2>1
<1>4. CASE new = RequeueFailed(tbl, j, e)
  <2>1. DOMAIN new = DOMAIN tbl /\ \A i \in DOMAIN tbl : KeptRow(i)
    BY <1>0, <1>4 DEF RequeueFailed, Row, Active
  <2> QED
    BY <1>1, <2>1
<1>5. CASE new = MarkAudioReady(tbl, j)
  <2>1. DOMAIN new = DOMAIN tbl /\ \A i \in DOMAIN tbl : KeptRow(i)
    BY <1>0, <1>5 DEF MarkAudioReady, Row, Active
  <2> QED
    BY <1>1, <2>1
<1>6. CASE new = ClaimNext(tbl)
  <2>1. DOMAIN new = DOMAIN tbl /\ \A i \in DOMAIN tbl : KeptRow(i)
    BY <1>0, <1>6 DEF ClaimNext, Row, Active
  <2> QED
    BY <1>1, <2>1
<1>7. CASE new = InsertAwaitingUpload(tbl, j, k, e, t) /\ j \notin DOMAIN tbl
  BY <1>7 DEF InsertAwaitingUpload, Kept, InStatus
<1>8. CASE new = tbl
  BY <1>8 DEF Kept
<1> QED
  BY <1>2, <1>3, <1>4, <1>5, <1>6, <1>7, <1>8

-----------------------------------------------------------------------------
(* The kinds of steps.                                                     *)

\* A request that is not a callback in flight and has no file open.
Harmless(r) == r.pc \notin CallbackStep /\ r.shared = FALSE /\ r.fd = "none"

LEMMA HarmlessHolds ==
  ASSUME NEW r, Harmless(r), NEW tbl, NEW temp, NEW done
  PROVE  Holds(r, tbl, temp, done)
  BY DEF Harmless, Holds, CallbackStep, Unsettled

\* The row of a callback in flight is there, and only a callback has a row
\* among CallbackStep.
LEMMA CallbackRow ==
  ASSUME IInv, NEW c \in Call, call[c].pc \in CallbackStep
  PROVE  call[c].job \in Job /\ call[c].job \in DOMAIN table
  BY Arguments DEF CallbackStep, RowStep

\* What a request holds that does not touch job j, when others change the row
\* and the temporary file of j only, and no whole transcript is lost.
LEMMA StillHolds ==
  ASSUME IInv, NEW d \in Call, NEW j, Holds(call[d], table, tmp, store),
         call[d].pc \in CallbackStep => call[d].job # j,
         KeepsRows(table, table'),
         \A i \in DOMAIN table \ {j} :
           table[i].status \in Active => table'[i].status \in Active,
         \A i \in Job \ {j} : tmp'[i] = tmp[i],
         \A k \in Key : store[k] = "whole" => store'[k] = "whole"
  PROVE  Holds(call[d], table', tmp', store')
<1>1. CASE call[d].pc \notin CallbackStep
  BY <1>1 DEF Holds, CallbackStep, Unsettled
<1>2. CASE call[d].pc \in CallbackStep
  <2>1. /\ call[d].job \in Job \ {j} /\ call[d].job \in DOMAIN table \ {j}
        /\ table[call[d].job].key \in Key
        /\ table'[call[d].job].key = table[call[d].job].key
    BY <1>2, CallbackRow DEF KeepsRows, IInv, TableOK, Good, RowOK, Row
  <2> QED
    BY <2>1 DEF Holds
<1> QED
  BY <1>1, <1>2

\* A ready row keeps its transcript when no whole transcript is lost.
LEMMA StillServed ==
  ASSUME IInv, ReadyHasTranscript, KeepsRows(table, table'),
         NEW j, j \in InStatus(table', "ready") => store'[table'[j].key] = "whole",
         InStatus(table', "ready") \subseteq InStatus(table, "ready") \cup {j},
         \A k \in Key : store[k] = "whole" => store'[k] = "whole"
  PROVE  ReadyHasTranscript'
<1>1. ASSUME NEW i \in InStatus(table', "ready")
      PROVE  store'[table'[i].key] = "whole"
  <2>1. CASE i \in InStatus(table, "ready")
    <3>1. table'[i].key = table[i].key /\ table[i].key \in Key
      BY <2>1 DEF InStatus, KeepsRows, IInv, TableOK, Good, RowOK, Row
    <3> QED
      BY <2>1, <3>1 DEF ReadyHasTranscript
  <2> QED
    BY <1>1, <2>1
<1> QED
  BY <1>1 DEF ReadyHasTranscript

\* A step that neither goes on with a callback nor begins one.
LEMMA QuietStep ==
  ASSUME IInv, SInv, KeepsRows(table, table'), Kept(table, table'), UNCHANGED files,
         \A d \in Call : call'[d] = call[d] \/ Harmless(call'[d])
  PROVE  SInv'
<1>1. \A d \in Call : Holds(call'[d], table', tmp', store')
  <2> TAKE d \in Call
  <2>1. CASE call'[d] = call[d]
    <3>1. call[d].pc \in CallbackStep => call[d].job # NoJob
      BY CallbackRow, JobAssumption DEF NoJob
    <3>2. Holds(call[d], table', tmp', store')
      BY <3>1, StillHolds DEF SInv, Kept, files
    <3> QED
      BY <2>1, <3>2
  <2> QED
    BY <2>1, HarmlessHolds
<1>2. Alone(call')
  BY DEF SInv, Alone, Harmless
<1>3. NoJob \notin InStatus(table', "ready")
  BY JobAssumption DEF Kept, InStatus, NoJob, IInv, TableOK, Good
<1>4. ReadyHasTranscript'
  BY <1>3, StillServed DEF SInv, Kept, files
<1> QED
  BY <1>1, <1>2, <1>4 DEF SInv

\* A callback begins, for a job at the worker that no other one is for.
LEMMA BeginStep ==
  ASSUME IInv, SInv, NEW c \in Call, NEW j \in Job, NEW n,
         UNCHANGED <<table, files>>, Become(c, n),
         n.pc \in {"result_open", "fail_return", "fail_mark"}, n.job = j,
         n.shared = FALSE, n.fd = "none",
         table[j].status = "processing",
         \A d \in Call : ~InCallback(d, j)
  PROVE  SInv'
<1>1. call'[c] = n /\ \A d \in Call \ {c} : call'[d] = call[d]
  BY DEF Become, IInv, CallsOK
<1>2. Holds(n, table, tmp, store)
  BY DEF Holds, Unsettled, CallbackStep, Active
<1>3. \A d \in Call : Holds(call'[d], table', tmp', store')
  BY <1>1, <1>2 DEF SInv, files
<1>4. \A d \in Call \ {c} : call[d].pc \in CallbackStep => call[d].job # j
  BY DEF InCallback, CallbackStep
<1>5. Alone(call')
  BY <1>1, <1>4 DEF SInv, Alone
<1> QED
  BY <1>3, <1>5 DEF SInv, ReadyHasTranscript, files

\* A callback goes on: it alone changes its row and its temporary file.
LEMMA MoveStep ==
  ASSUME IInv, SInv, NEW c \in Call, call[c].pc \in CallbackStep, NEW n,
         call'[c] = n, \A d \in Call \ {c} : call'[d] = call[d],
         n.pc \in CallbackStep, n.job = call[c].job,
         Holds(n, table', tmp', store'),
         KeepsRows(table, table'),
         \A i \in DOMAIN table' \ {n.job} : i \in DOMAIN table /\ table'[i] = table[i],
         n.job \in InStatus(table', "ready") => store'[table'[n.job].key] = "whole",
         \A i \in Job \ {n.job} : tmp'[i] = tmp[i],
         \A k \in Key : store[k] = "whole" => store'[k] = "whole"
  PROVE  SInv'
<1>1. \A d \in Call \ {c} : call[d].pc \in CallbackStep => call[d].job # n.job
  BY DEF SInv, Alone
<1>2. \A d \in Call \ {c} : Holds(call[d], table', tmp', store')
  <2>1. \A i \in DOMAIN table \ {n.job} :
          table[i].status \in Active => table'[i].status \in Active
    BY DEF KeepsRows
  <2> QED
    BY <1>1, <2>1, StillHolds DEF SInv
<1>3. Alone(call')
  BY DEF SInv, Alone
<1>4. InStatus(table', "ready") \subseteq InStatus(table, "ready") \cup {n.job}
  BY DEF InStatus
<1>5. ReadyHasTranscript'
  BY <1>4, StillServed DEF SInv
<1> QED
  BY <1>2, <1>3, <1>5 DEF SInv

-----------------------------------------------------------------------------
(* Requests that are no callbacks.                                         *)

LEMMA AnswerHarmless == \A a : Harmless(Answer(a))
  BY DEF Harmless, Answer, Idle, CallbackStep

LEMMA DoneHarmless == \A r, j, a : Harmless(Done(r, j, a))
  BY DEF Harmless, Done, Answer, Idle, CallbackStep

LEMMA BegunHarmless ==
  ASSUME NEW step, step \notin CallbackStep, NEW j
  PROVE  Harmless(Begun(step, j))
  BY DEF Harmless, Begun, Idle

LEMMA NextHarmless ==
  ASSUME NEW r \in CallRecord, r.shared = FALSE, r.fd = "none",
         NEW step, step \notin CallbackStep, NEW j
  PROVE  /\ Harmless([r EXCEPT !.pc = step])
         /\ Harmless([r EXCEPT !.pc = step, !.job = j])
  BY DEF Harmless, CallRecord

LEMMA RespondedHarmless ==
  ASSUME NEW r, r \in CallRecord \/ \E i : r = Begun("", i),
         r.shared = FALSE, r.fd = "none", NEW j
  PROVE  Harmless(Responded(r, j))
<1>1. CASE table[j].status = "ready"
  <2>1. Responded(r, j) = [r EXCEPT !.pc = "read_file", !.job = j]
    BY <1>1 DEF Responded
  <2>2. CASE r \in CallRecord
    BY <2>1, <2>2 DEF Harmless, CallRecord, CallbackStep
  <2>3. CASE \E i : r = Begun("", i)
    BY <2>1, <2>3 DEF Begun, Idle, Harmless, CallbackStep
  <2> QED
    BY <2>2, <2>3
<1>2. CASE table[j].status # "ready"
  BY <1>2, DoneHarmless DEF Responded
<1> QED
  BY <1>1, <1>2

\* Request c becomes a harmless one, and the others stay what they are.
LEMMA BecomesHarmless ==
  ASSUME IInv, NEW c \in Call, NEW r, Become(c, r), Harmless(r)
  PROVE  \A d \in Call : call'[d] = call[d] \/ Harmless(call'[d])
  BY DEF Become, IInv, CallsOK

\* A request outside CallbackStep has no file open.
LEMMA NoFile ==
  ASSUME IInv, SInv, NEW c \in Call, call[c].pc # "result_write"
  PROVE  call[c] \in CallRecord /\ call[c].shared = FALSE /\ call[c].fd = "none"
  BY DEF SInv, Holds, IInv, CallsOK

LEMMA ClientQuiet ==
  ASSUME IInv, SInv, NEW c \in Call, ClientStep(c)
  PROVE  /\ Kept(table, table') /\ UNCHANGED files
         /\ \A d \in Call : call'[d] = call[d] \/ Harmless(call'[d])
<1> DEFINE r == call[c]
<1>0. Good(table)
  BY DEF IInv, TableOK
<1>1. ASSUME NEW k \in Key, LookupExpire(c, k)
      PROVE  /\ Kept(table, table') /\ UNCHANGED files
             /\ \E n : Become(c, n) /\ Harmless(n)
  <2> DEFINE n == [Begun("lookup_find", NoJob) EXCEPT !.key = k, !.t = UploadDeadline]
  <2>1. Harmless(n) /\ Become(c, n)
    BY <1>1 DEF LookupExpire, Harmless, Begun, Idle, CallbackStep
  <2> QED
    BY <1>0, <1>1, <2>1, KeptRows DEF LookupExpire, files
<1>2. CASE LookupFind(c)
  <2>1. r \in CallRecord /\ r.shared = FALSE /\ r.fd = "none"
    BY <1>2, NoFile DEF LookupFind, At
  <2>2. \/ \E j : Become(c, [r EXCEPT !.pc = "lookup_insert", !.job = j])
        \/ \E j : Become(c, [r EXCEPT !.pc = "lookup_requeue", !.job = j])
        \/ \E j : Become(c, Responded(r, j))
    BY <1>2 DEF LookupFind
  <2>3. \E n : Become(c, n) /\ Harmless(n)
    BY <2>1, <2>2, NextHarmless, RespondedHarmless DEF CallbackStep
  <2> QED
    BY <1>0, <1>2, <2>3, BecomesHarmless, KeptRows DEF LookupFind, db, files
<1>3. CASE LookupInsert(c)
  <2>1. r \in CallRecord /\ r.shared = FALSE /\ r.fd = "none"
    BY <1>3, NoFile DEF LookupInsert, At
  <2>2. \E step \in {"lookup_created", "lookup_conflict"} :
          Become(c, [r EXCEPT !.pc = step])
    BY <1>3 DEF LookupInsert
  <2>3. \E n : Become(c, n) /\ Harmless(n)
    BY <2>1, <2>2, NextHarmless DEF CallbackStep
  <2>4. r.job \notin DOMAIN table
    BY <1>3, Arguments DEF LookupInsert, At
  <2> QED
    BY <1>0, <1>3, <2>3, <2>4, BecomesHarmless, KeptRows DEF LookupInsert, files
<1>4. CASE LookupRequeue(c)
  <2>1. r \in CallRecord /\ r.shared = FALSE /\ r.fd = "none"
    BY <1>4, NoFile DEF LookupRequeue, At
  <2>2. \E n : Become(c, n) /\ Harmless(n)
    BY <1>4, <2>1, NextHarmless DEF LookupRequeue, CallbackStep
  <2> QED
    BY <1>0, <1>4, <2>2, BecomesHarmless, KeptRows DEF LookupRequeue, files
<1>5. CASE LookupReread(c)
  <2>1. r \in CallRecord /\ r.shared = FALSE /\ r.fd = "none"
    BY <1>5, NoFile DEF LookupReread
  <2>2. \/ Become(c, Done(r, NoJob, "disappeared"))
        \/ \E j : Become(c, Responded(r, j))
    BY <1>5 DEF LookupReread
  <2>3. \E n : Become(c, n) /\ Harmless(n)
    BY <2>1, <2>2, DoneHarmless, RespondedHarmless
  <2> QED
    BY <1>0, <1>5, <2>3, BecomesHarmless, KeptRows DEF LookupReread, db, files
<1>6. ASSUME NEW j \in Job, JobFind(c, j)
      PROVE  /\ Kept(table, table') /\ UNCHANGED files
             /\ \E n : Become(c, n) /\ Harmless(n)
  <2>1. \/ Become(c, Answer("not_found"))
        \/ Become(c, Begun("job_expire", j))
        \/ Become(c, Responded(Begun("", j), j))
    BY <1>6 DEF JobFind
  <2>2. Begun("", j).shared = FALSE /\ Begun("", j).fd = "none"
    BY DEF Begun, Idle
  <2>3. \E n : Become(c, n) /\ Harmless(n)
    BY <2>1, <2>2, AnswerHarmless, BegunHarmless, RespondedHarmless DEF CallbackStep
  <2> QED
    BY <1>0, <1>6, <2>3, KeptRows DEF JobFind, db, files
<1>7. CASE JobExpire(c)
  <2>1. r \in CallRecord /\ r.shared = FALSE /\ r.fd = "none"
    BY <1>7, NoFile DEF JobExpire, At
  <2>2. \E n : Become(c, n) /\ Harmless(n)
    BY <1>7, <2>1, NextHarmless DEF JobExpire, CallbackStep
  <2> QED
    BY <1>0, <1>7, <2>2, BecomesHarmless, KeptRows DEF JobExpire, files
<1>8. CASE JobReread(c)
  <2>1. r \in CallRecord /\ r.shared = FALSE /\ r.fd = "none"
    BY <1>8, NoFile DEF JobReread, At
  <2>2. \/ Become(c, Answer("not_found"))
        \/ Become(c, Responded(r, r.job))
    BY <1>8 DEF JobReread
  <2>3. \E n : Become(c, n) /\ Harmless(n)
    BY <2>1, <2>2, AnswerHarmless, RespondedHarmless
  <2> QED
    BY <1>0, <1>8, <2>3, BecomesHarmless, KeptRows DEF JobReread, db, files
<1>9. CASE ReadFile(c)
  <2>1. \E j, a : Become(c, Done(r, j, a))
    BY <1>9 DEF ReadFile
  <2> QED
    BY <1>0, <1>9, <2>1, DoneHarmless, BecomesHarmless, KeptRows DEF ReadFile, db, files
<1> QED
  BY <1>1, <1>2, <1>3, <1>4, <1>5, <1>6, <1>7, <1>8, <1>9, BecomesHarmless
     DEF ClientStep

-----------------------------------------------------------------------------
(* Callbacks.                                                              *)

\* The other writers of its temporary file that a callback could meet.
LEMMA NoOtherWriter ==
  ASSUME IInv, SInv, NEW c \in Call, call[c].pc \in CallbackStep,
         NEW d \in Call \ {c}, call[d].job = call[c].job
  PROVE  call[d].fd = "none"
<1>1. call[d].pc \notin CallbackStep
  BY DEF SInv, Alone
<1> QED
  BY <1>1 DEF SInv, Holds, CallbackStep

LEMMA ResultOpenSerial ==
  ASSUME IInv, SInv, NEW c \in Call, ResultOpen(c)
  PROVE  SInv'
<1> DEFINE r == call[c]
           n == [r EXCEPT !.pc = "result_write", !.fd = "tmp", !.shared = FALSE]
<1>1. r.pc = "result_open" /\ r \in CallRecord
  BY Arguments DEF ResultOpen, At
<1>2. r.job \in Job /\ r.job \in DOMAIN table /\ table[r.job].status \in Active
  BY <1>1, CallbackRow DEF SInv, Holds, CallbackStep, Unsettled
<1>3. TmpWriters(c, r.job) = {}
  BY <1>1, NoOtherWriter DEF TmpWriters, CallbackStep
<1>4. call'[c] = n /\ \A d \in Call \ {c} : call'[d] = call[d]
  BY <1>3 DEF ResultOpen
<1>5. /\ n.pc = "result_write" /\ n.fd = "tmp" /\ n.shared = FALSE /\ n.job = r.job
  BY <1>1 DEF CallRecord
<1> HIDE DEF n
<1>6. /\ table' = table /\ store' = store
      /\ \A i \in Job \ {r.job} : tmp'[i] = tmp[i]
  BY DEF ResultOpen, db, IInv, ProcessOK
<1>7. Holds(n, table', tmp', store')
  BY <1>2, <1>5, <1>6 DEF Holds, Unsettled
<1>8. r.job \notin InStatus(table', "ready") /\ KeepsRows(table, table')
  BY <1>2, <1>6 DEF InStatus, Active, KeepsRows
<1> QED
  BY <1>1, <1>4, <1>5, <1>6, <1>7, <1>8, MoveStep DEF CallbackStep

LEMMA ResultWriteSerial ==
  ASSUME IInv, SInv, NEW c \in Call, ResultWrite(c)
  PROVE  SInv'
<1> DEFINE r == call[c]
           n == [r EXCEPT !.pc = "result_rename", !.fd = "none", !.shared = FALSE]
<1>1. /\ r.pc = "result_write" /\ r \in CallRecord
      /\ r.fd = "tmp" /\ r.shared = FALSE
  BY Arguments DEF ResultWrite, At, SInv, Holds
<1>2. r.job \in Job /\ r.job \in DOMAIN table /\ table[r.job].status \in Active
  BY <1>1, CallbackRow DEF SInv, Holds, CallbackStep, Unsettled
<1>3. call'[c] = n /\ \A d \in Call \ {c} : call'[d] = call[d]
  BY DEF ResultWrite, Become, IInv, CallsOK
<1>4. n.pc = "result_rename" /\ n.fd = "none" /\ n.shared = FALSE /\ n.job = r.job
  BY <1>1 DEF CallRecord
<1> HIDE DEF n
<1>5. /\ table' = table /\ store' = store /\ tmp'[r.job] = "whole"
      /\ \A i \in Job \ {r.job} : tmp'[i] = tmp[i]
  BY <1>1, <1>2 DEF ResultWrite, db, IInv, ProcessOK
<1>6. Holds(n, table', tmp', store')
  BY <1>2, <1>4, <1>5 DEF Holds, Unsettled
<1>7. r.job \notin InStatus(table', "ready") /\ KeepsRows(table, table')
  BY <1>2, <1>5 DEF InStatus, Active, KeepsRows
<1> QED
  BY <1>1, <1>3, <1>4, <1>5, <1>6, <1>7, MoveStep DEF CallbackStep

LEMMA ResultRenameSerial ==
  ASSUME IInv, SInv, NEW c \in Call, ResultRename(c)
  PROVE  SInv'
<1> DEFINE r == call[c]
           n == [r EXCEPT !.pc = "result_mark"]
           Moved(d) == CASE call[d].job = r.job /\ call[d].fd = "tmp" -> "store"
                         [] call[d].job = r.job /\ call[d].fd = "store" -> "unlinked"
                         [] OTHER -> call[d].fd
<1>1. /\ r.pc = "result_rename" /\ r \in CallRecord
      /\ tmp[r.job] = "whole" /\ r.fd = "none" /\ r.shared = FALSE
  BY Arguments DEF ResultRename, At, SInv, Holds
<1>2. /\ r.job \in Job /\ r.job \in DOMAIN table
      /\ table[r.job].status \in Active /\ table[r.job].key \in Key
  BY <1>1, CallbackRow
     DEF SInv, Holds, CallbackStep, Unsettled, IInv, TableOK, Good, RowOK, Row
<1>3. /\ call' = [d \in Call |-> IF d = c THEN n ELSE [call[d] EXCEPT !.fd = Moved(d)]]
      /\ store' = [store EXCEPT ![table[r.job].key] = tmp[r.job]]
      /\ tmp' = [tmp EXCEPT ![r.job] = "absent"]
      /\ table' = table
  BY <1>1 DEF ResultRename, db
<1>4. \A d \in Call \ {c} : Moved(d) = call[d].fd
  <2> TAKE d \in Call \ {c}
  <2>1. r.pc \in CallbackStep
    BY <1>1 DEF CallbackStep
  <2>2. call[d].job = r.job => call[d].fd = "none"
    BY <2>1, NoOtherWriter
  <2> QED
    BY <2>2
<1>5. n.pc = "result_mark" /\ n.fd = "none" /\ n.shared = FALSE /\ n.job = r.job
  BY <1>1 DEF CallRecord
<1> HIDE DEF n, Moved
<1>6. call'[c] = n /\ \A d \in Call \ {c} : call'[d] = call[d]
  <2>1. \A d \in Call \ {c} : call'[d] = [call[d] EXCEPT !.fd = call[d].fd]
    BY <1>3, <1>4
  <2>2. \A q \in CallRecord : [q EXCEPT !.fd = q.fd] = q
    BY DEF CallRecord
  <2> QED
    BY <1>3, <2>1, <2>2 DEF IInv, CallsOK
<1>7. /\ store'[table[r.job].key] = "whole"
      /\ \A k \in Key : store[k] = "whole" => store'[k] = "whole"
      /\ \A i \in Job \ {r.job} : tmp'[i] = tmp[i]
  BY <1>1, <1>2, <1>3 DEF IInv, ProcessOK
<1>8. Holds(n, table', tmp', store')
  BY <1>2, <1>3, <1>5, <1>7 DEF Holds, Unsettled
<1>9. r.job \notin InStatus(table', "ready") /\ KeepsRows(table, table')
  BY <1>2, <1>3 DEF InStatus, Active, KeepsRows
<1> QED
  BY <1>1, <1>3, <1>5, <1>6, <1>7, <1>8, <1>9, MoveStep DEF CallbackStep

\* The statement of a callback writes the row of its job and no other.
LEMMA OtherRows ==
  ASSUME NEW tbl, NEW new, NEW j,
         \/ new = MarkReady(tbl, j)
         \/ new = MarkFailed(tbl, j)
         \/ \E e : new = ReturnToAwaitingUpload(tbl, j, e)
  PROVE  /\ DOMAIN new = DOMAIN tbl
         /\ \A i \in DOMAIN tbl \ {j} : new[i] = tbl[i]
<1>1. CASE new = MarkReady(tbl, j)
  BY <1>1 DEF MarkReady
<1>2. CASE new = MarkFailed(tbl, j)
  BY <1>2 DEF MarkFailed
<1>3. CASE \E e : new = ReturnToAwaitingUpload(tbl, j, e)
  BY <1>3 DEF ReturnToAwaitingUpload
<1> QED
  BY <1>1, <1>2, <1>3

LEMMA StatementSerial ==
  ASSUME IInv, SInv, NEW c \in Call, ResultMark(c) \/ FailReturn(c) \/ FailMark(c),
         KeepsRows(table, table')
  PROVE  SInv'
<1> DEFINE r == call[c]
           n == [r EXCEPT !.pc = "clear"]
<1>1. /\ r.pc \in {"result_mark", "fail_return", "fail_mark"}
      /\ r \in CallRecord /\ r.fd = "none" /\ r.shared = FALSE
  BY Arguments DEF ResultMark, FailReturn, FailMark, At, SInv, Holds
<1>2. r.job \in Job /\ r.job \in DOMAIN table /\ table[r.job].status \in Active
  BY <1>1, CallbackRow DEF SInv, Holds, CallbackStep, Unsettled
<1>3. call'[c] = n /\ \A d \in Call \ {c} : call'[d] = call[d]
  BY DEF ResultMark, FailReturn, FailMark, Become, IInv, CallsOK
<1>4. n.pc = "clear" /\ n.fd = "none" /\ n.shared = FALSE /\ n.job = r.job
  BY <1>1 DEF CallRecord
<1> HIDE DEF n
<1>5. /\ DOMAIN table' = DOMAIN table
      /\ \A i \in DOMAIN table \ {r.job} : table'[i] = table[i]
      /\ tmp' = tmp /\ store' = store
  <2>1. \/ table' = MarkReady(table, r.job)
        \/ table' = MarkFailed(table, r.job)
        \/ \E e : table' = ReturnToAwaitingUpload(table, r.job, e)
    BY DEF ResultMark, FailReturn, FailMark
  <2>2. tmp' = tmp /\ store' = store
    BY DEF ResultMark, FailReturn, FailMark, files
  <2> HIDE DEF r
  <2>3. /\ DOMAIN table' = DOMAIN table
        /\ \A i \in DOMAIN table \ {r.job} : table'[i] = table[i]
    BY <2>1, OtherRows
  <2> QED
    BY <2>2, <2>3
<1>6. Holds(n, table', tmp', store')
  BY <1>4 DEF Holds, Unsettled, CallbackStep
<1>7. r.job \in InStatus(table', "ready") => store'[table'[r.job].key] = "whole"
  <2>1. CASE ResultMark(c)
    BY <1>1, <1>2, <1>5, <2>1 DEF SInv, Holds, ResultMark, At, KeepsRows
  <2>2. CASE FailReturn(c)
    BY <1>2, <2>2
       DEF FailReturn, ReturnToAwaitingUpload, InStatus, Active, IInv, TableOK,
           Good, RowOK, Row
  <2>3. CASE FailMark(c)
    BY <1>2, <2>3
       DEF FailMark, MarkFailed, InStatus, IInv, TableOK, Good, RowOK, Row
  <2> QED
    BY <2>1, <2>2, <2>3
<1> QED
  BY <1>1, <1>3, <1>4, <1>5, <1>6, <1>7, MoveStep DEF CallbackStep

\* The find statement of a callback answers, or begins it for a job at the
\* worker.
LEMMA CallbackFinds ==
  ASSUME NEW c, NEW j,
         \/ \E valid \in BOOLEAN : ResultFind(c, j, valid)
         \/ \E reason \in Reason : FailFind(c, j, reason)
  PROVE  /\ UNCHANGED <<table, files>> /\ CallbackMayStart(j)
         /\ \/ \E a : Become(c, Answer(a))
            \/ /\ j \in InStatus(table, "processing")
               /\ \/ Become(c, Begun("result_open", j))
                  \/ Become(c, Begun("fail_mark", j))
                  \/ Become(c, [Begun("fail_return", j) EXCEPT !.t = UploadDeadline])
<1>1. UNCHANGED <<table, files>> /\ CallbackMayStart(j)
  BY DEF ResultFind, FailFind, db
<1>2. \/ \E a : Become(c, Answer(a))
      \/ /\ IsIn(j, {"processing"})
         /\ \/ Become(c, Begun("result_open", j))
            \/ Become(c, Begun("fail_mark", j))
            \/ Become(c, [Begun("fail_return", j) EXCEPT !.t = UploadDeadline])
  BY DEF ResultFind, FailFind
<1> QED
  BY <1>1, <1>2 DEF IsIn, HasRow, InStatus

LEMMA FindSerial ==
  ASSUME Serial, IInv, SInv, NEW c \in Call, NEW j \in Job,
         \/ \E valid \in BOOLEAN : ResultFind(c, j, valid)
         \/ \E reason \in Reason : FailFind(c, j, reason)
  PROVE  SInv'
<1>1. UNCHANGED <<table, files>> /\ \A d \in Call : ~InCallback(d, j)
  BY CallbackFinds DEF CallbackMayStart
<1>2. \/ \E a : Become(c, Answer(a))
      \/ /\ table[j].status = "processing"
         /\ \/ Become(c, Begun("result_open", j))
            \/ Become(c, Begun("fail_mark", j))
            \/ Become(c, [Begun("fail_return", j) EXCEPT !.t = UploadDeadline])
  BY CallbackFinds DEF InStatus
<1>3. CASE \E a : Become(c, Answer(a))
  <2>1. Kept(table, table') /\ KeepsRows(table, table') /\ UNCHANGED files
    BY <1>1 DEF Kept, KeepsRows
  <2> QED
    BY <1>3, <2>1, AnswerHarmless, BecomesHarmless, QuietStep
<1>4. ASSUME table[j].status = "processing",
             NEW step \in {"result_open", "fail_mark"}, Become(c, Begun(step, j))
      PROVE  SInv'
  <2> DEFINE n == Begun(step, j)
  <2>1. n.pc = step /\ n.job = j /\ n.shared = FALSE /\ n.fd = "none"
    BY DEF Begun, Idle
  <2> HIDE DEF n
  <2> QED
    BY <1>1, <1>4, <2>1, BeginStep DEF n
<1>5. ASSUME table[j].status = "processing",
             Become(c, [Begun("fail_return", j) EXCEPT !.t = UploadDeadline])
      PROVE  SInv'
  <2> DEFINE n == [Begun("fail_return", j) EXCEPT !.t = UploadDeadline]
  <2>1. n.pc = "fail_return" /\ n.job = j /\ n.shared = FALSE /\ n.fd = "none"
    BY DEF Begun, Idle
  <2> HIDE DEF n
  <2> QED
    BY <1>1, <1>5, <2>1, BeginStep DEF n
<1> QED
  BY <1>2, <1>3, <1>4, <1>5

LEMMA WorkerQuiet ==
  ASSUME IInv, SInv, NEW c \in Call,
         \/ Claim(c) \/ AudioReadyMark(c) \/ Clear(c)
         \/ \E j \in Job, b \in BOOLEAN : AudioReadyFind(c, j, b)
  PROVE  /\ Kept(table, table') /\ UNCHANGED files
         /\ \A d \in Call : call'[d] = call[d] \/ Harmless(call'[d])
<1>0. Good(table)
  BY DEF IInv, TableOK
<1>1. Kept(table, table')
  BY <1>0, KeptRows DEF Claim, AudioReadyMark, Clear, AudioReadyFind, db
<1>2. UNCHANGED files
  BY DEF Claim, AudioReadyMark, Clear, AudioReadyFind
<1>3. \/ \E a : Become(c, Answer(a))
      \/ \E j : Become(c, Begun("audio_mark", j))
  BY DEF Claim, AudioReadyMark, Clear, AudioReadyFind
<1>4. \E n : Become(c, n) /\ Harmless(n)
  BY <1>3, AnswerHarmless, BegunHarmless DEF CallbackStep
<1> QED
  BY <1>1, <1>2, <1>4, BecomesHarmless

LEMMA WorkerSerial ==
  ASSUME Serial, IInv, SInv, NEW c \in Call, WorkerStep(c), KeepsRows(table, table')
  PROVE  SInv'
<1>1. ASSUME Claim(c) \/ AudioReadyMark(c) \/ Clear(c)
             \/ \E j \in Job, b \in BOOLEAN : AudioReadyFind(c, j, b)
      PROVE  SInv'
  BY <1>1, WorkerQuiet, QuietStep
<1> QED
  BY <1>1, FindSerial, ResultOpenSerial, ResultWriteSerial, ResultRenameSerial,
     StatementSerial
     DEF WorkerStep

LEMMA ProcessQuiet ==
  ASSUME IInv, ProcessStep \/ UNCHANGED vars
  PROVE  /\ Kept(table, table') /\ UNCHANGED files
         /\ \A d \in Call : call'[d] = call[d] \/ Harmless(call'[d])
<1>1. Good(table)
  BY DEF IInv, TableOK
<1>2. UNCHANGED files /\ Kept(table, table')
  BY <1>1, KeptRows
     DEF ProcessStep, Tick, Start, Crash, PollReset, PollExpire, PollFind,
         PollFetch, PollError, db, vars, files
<1>3. Harmless(Idle)
  BY DEF Harmless, Idle, CallbackStep
<1>4. \A d \in Call : call'[d] = call[d] \/ Harmless(call'[d])
  BY <1>3
     DEF ProcessStep, Tick, Start, Crash, PollReset, PollExpire, PollFind,
         PollFetch, PollError, vars
<1> QED
  BY <1>2, <1>4

\* A request that is answered, fails or is dropped.
LEMMA EndQuiet ==
  ASSUME IInv, NEW c \in Call, Reply(c) \/ Abandon(c)
  PROVE  /\ Kept(table, table') /\ UNCHANGED files
         /\ \A d \in Call : call'[d] = call[d] \/ Harmless(call'[d])
<1>1. Become(c, Idle) /\ UNCHANGED <<table, files>>
  BY DEF Reply, Abandon, db
<1>2. Harmless(Idle)
  BY DEF Harmless, Idle, CallbackStep
<1> QED
  BY <1>1, <1>2, BecomesHarmless DEF Kept

-----------------------------------------------------------------------------
(* The invariant, and what it shows.                                       *)

LEMMA InitSInv == Init => SInv
<1> SUFFICES ASSUME Init
             PROVE  SInv
  OBVIOUS
<1>1. \A c \in Call : call[c].pc = "idle" /\ call[c].shared = FALSE /\ call[c].fd = "none"
  BY DEF Init, Idle
<1>2. InStatus(table, "ready") = {}
  BY DEF Init, EmptyTable, InStatus
<1> QED
  BY <1>1, <1>2 DEF SInv, Holds, Alone, CallbackStep, Unsettled, ReadyHasTranscript

LEMMA NextSInv ==
  ASSUME Serial
  PROVE  IInv /\ SInv /\ [Next]_vars => SInv'
<1> SUFFICES ASSUME IInv, SInv, [Next]_vars
             PROVE  SInv'
  OBVIOUS
<1>1. KeepsRows(table, table')
  BY TableStep
<1>2. ASSUME NEW c \in Call, ClientStep(c)
      PROVE  SInv'
  BY <1>1, <1>2, ClientQuiet, QuietStep
<1>3. ASSUME NEW c \in Call, Reply(c) \/ Abandon(c)
      PROVE  SInv'
  BY <1>1, <1>3, EndQuiet, QuietStep
<1>4. CASE ProcessStep \/ UNCHANGED vars
  BY <1>1, <1>4, ProcessQuiet, QuietStep
<1> QED
  BY <1>1, <1>2, <1>3, <1>4, WorkerSerial DEF Next

LEMMA SpecSInv ==
  ASSUME Serial
  PROVE  Spec => [](IInv /\ SInv)
<1>1. IInv /\ SInv /\ [Next]_vars => IInv' /\ SInv'
  BY NextIInv, NextSInv
<1> QED
  BY <1>1, InitIInv, InitSInv, PTL DEF Spec

\* A ready job has its transcript on disk, whole, although requests are
\* dropped, writes fail and the process crashes at every step of the result
\* handler (api.rs:303-326).
THEOREM ReadyIsServed ==
  ASSUME Serial
  PROVE  Spec => []ReadyHasTranscript
<1>1. SInv => ReadyHasTranscript
  BY DEF SInv
<1> QED
  BY <1>1, SpecSInv, PTL

-----------------------------------------------------------------------------
(* What a job in a callback has been through.                              *)

Claimed ==
  /\ poll # "down" => epoch # 0
  /\ \A j \in InStatus(table, "processing") : claimedIn[j] # 0
  /\ \A c \in Call : call[c].pc \in Unsettled
       => /\ claimedIn[call[c].job] # 0
          /\ table[call[c].job].status = "pending" => recovered

\* A callback that has the row to write has gone on, or finds the job at the
\* worker now.
LEMMA CallbackOrigin ==
  ASSUME IInv, SInv, [Next]_vars, NEW d \in Call, call'[d].pc \in Unsettled
  PROVE  \/ call[d].pc \in Unsettled /\ call'[d].job = call[d].job
         \/ call'[d].job \in InStatus(table, "processing") /\ table' = table
<1> DEFINE Origin == \/ call[d].pc \in Unsettled /\ call'[d].job = call[d].job
                     \/ call'[d].job \in InStatus(table, "processing") /\ table' = table
<1>1. ASSUME \A e \in Call : call'[e] = call[e] \/ Harmless(call'[e])
      PROVE  Origin
  BY <1>1 DEF Harmless, Unsettled
<1>2. ASSUME NEW c \in Call, ClientStep(c) \/ Reply(c) \/ Abandon(c)
      PROVE  Origin
  BY <1>1, <1>2, ClientQuiet, EndQuiet
<1>3. CASE ProcessStep \/ UNCHANGED vars
  BY <1>1, <1>3, ProcessQuiet
<1>4. ASSUME NEW c \in Call,
             \/ Claim(c) \/ AudioReadyMark(c) \/ Clear(c)
             \/ \E j \in Job, b \in BOOLEAN : AudioReadyFind(c, j, b)
      PROVE  Origin
  BY <1>1, <1>4, WorkerQuiet
<1>5. ASSUME NEW c \in Call, NEW j \in Job,
             \/ \E valid \in BOOLEAN : ResultFind(c, j, valid)
             \/ \E reason \in Reason : FailFind(c, j, reason)
      PROVE  Origin
  <2>1. CASE \E a : Become(c, Answer(a))
    BY <1>1, <2>1, AnswerHarmless, BecomesHarmless
  <2>2. ASSUME j \in InStatus(table, "processing"), table' = table,
               NEW n, Become(c, n), n.job = j
        PROVE  Origin
    BY <2>2 DEF Become, IInv, CallsOK
  <2>3. /\ \A step : Begun(step, j).job = j
        /\ [Begun("fail_return", j) EXCEPT !.t = UploadDeadline].job = j
    BY DEF Begun, Idle
  <2> QED
    BY <1>5, <2>1, <2>2, <2>3, CallbackFinds
<1>6. \A e \in Call : call[e] \in CallRecord
  BY DEF IInv, CallsOK
<1>7. ASSUME NEW c \in Call, ResultOpen(c) \/ ResultRename(c)
      PROVE  Origin
  <2>1. CASE d = c
    <3>1. call[d].pc \in Unsettled
      BY <1>7, <2>1 DEF ResultOpen, ResultRename, At, Unsettled, CallbackStep
    <3>2. \/ \E a : call'[d] = Answer(a)
          \/ call'[d].job = call[d].job
      BY <1>6, <1>7, <2>1 DEF ResultOpen, ResultRename, Become, IInv, CallsOK, CallRecord
    <3> QED
      BY <3>1, <3>2, AnswerHarmless DEF Harmless, Unsettled
  <2>2. CASE d # c
    <3>1. \/ call'[d] = call[d]
          \/ call'[d] = [call[d] EXCEPT !.shared = TRUE]
          \/ \E link : call'[d] = [call[d] EXCEPT !.fd = link]
      BY <1>7, <2>2 DEF ResultOpen, ResultRename, Become, IInv, CallsOK
    <3>2. call'[d].pc = call[d].pc /\ call'[d].job = call[d].job
      BY <1>6, <3>1 DEF CallRecord
    <3> QED
      BY <3>2
  <2> QED
    BY <2>1, <2>2
<1>8. ASSUME NEW c \in Call,
             ResultWrite(c) \/ ResultMark(c) \/ FailReturn(c) \/ FailMark(c)
      PROVE  Origin
  <2>1. call[c].pc \in Unsettled
    BY <1>8 DEF ResultWrite, ResultMark, FailReturn, FailMark, At, Unsettled, CallbackStep
  <2>2. call'[c].job = call[c].job /\ \A e \in Call \ {c} : call'[e] = call[e]
    BY <1>6, <1>8
       DEF ResultWrite, ResultMark, FailReturn, FailMark, Become, IInv, CallsOK, CallRecord
  <2> QED
    BY <2>1, <2>2
<1> QED
  BY <1>2, <1>3, <1>4, <1>5, <1>7, <1>8 DEF Next, WorkerStep

\* A job goes from the worker back to the queue by the startup reset alone.
LEMMA QueuedByReset ==
  ASSUME IInv, [Next]_vars, NEW j \in InStatus(table, "processing"),
         table'[j].status = "pending"
  PROVE  recovered' = TRUE
<1>0. Good(table)
  BY DEF IInv, TableOK
<1>1. table[j].status = "processing"
  BY DEF InStatus
<1>2. ASSUME NEW c \in Call, ClientStep(c) \/ WorkerStep(c) \/ Reply(c) \/ Abandon(c)
      PROVE  FALSE
  <2>1. CASE LookupInsert(c)
    <3>1. call[c].job \notin DOMAIN table
      BY <2>1, Arguments DEF LookupInsert, At
    <3> QED
      BY <1>0, <2>1, <3>1, OnlyResetQueues DEF LookupInsert
  <2>2. CASE (ClientStep(c) /\ ~LookupInsert(c)) \/ Reply(c) \/ Abandon(c)
    BY <1>0, <2>2, OnlyResetQueues
       DEF ClientStep, LookupExpire, LookupFind, LookupRequeue, LookupReread,
           JobFind, JobExpire, JobReread, ReadFile, Reply, Abandon, db
  <2>3. CASE WorkerStep(c)
    BY <1>0, <2>3, OnlyResetQueues
       DEF WorkerStep, Claim, AudioReadyFind, AudioReadyMark, ResultFind,
           ResultOpen, ResultWrite, ResultRename, ResultMark, FailFind,
           FailReturn, FailMark, Clear, db
  <2> QED
    BY <1>2, <2>1, <2>2, <2>3
<1>3. CASE PollReset
  BY <1>1, <1>3 DEF PollReset
<1>4. CASE (ProcessStep /\ ~PollReset) \/ UNCHANGED vars
  BY <1>0, <1>4, OnlyResetQueues
     DEF ProcessStep, Tick, Start, Crash, PollExpire, PollFind, PollFetch,
         PollError, db, vars
<1> QED
  BY <1>2, <1>3, <1>4 DEF Next

\* The history is written by claims only, and never back to 0.
LEMMA HistoryGrows ==
  ASSUME IInv, Claimed, [Next]_vars
  PROVE  /\ poll' # "down" => epoch' # 0
         /\ \A j \in Job : claimedIn[j] # 0 => claimedIn'[j] # 0
         /\ \A j \in InStatus(table', "processing") : claimedIn'[j] # 0
<1>0. Good(table) /\ epoch \in Nat /\ claimedIn \in [Job -> 0 .. MaxStarts]
  BY MaxStartsAssumption DEF IInv, TableOK, ProcessOK
<1>1. CASE SameLoop
  BY <1>1 DEF SameLoop, loop, Claimed, NoneClaimed
<1>2. ASSUME NEW c \in Call, Claim(c)
      PROVE  /\ poll' # "down" => epoch' # 0
             /\ \A j \in Job : claimedIn[j] # 0 => claimedIn'[j] # 0
             /\ \A j \in InStatus(table', "processing") : claimedIn'[j] # 0
  <2>1. /\ UNCHANGED loop /\ poll # "down" /\ epoch # 0
        /\ claimedIn' = [j \in Job |-> IF j \in ClaimHead(table) THEN epoch
                                       ELSE claimedIn[j]]
        /\ table' = ClaimNext(table)
    BY <1>2 DEF Claim, Accepts, Claimed
  <2>2. \A j \in InStatus(table', "processing") :
          j \in Job /\ (j \in ClaimHead(table) \/ j \in InStatus(table, "processing"))
    BY <1>0, <2>1 DEF ClaimNext, InStatus, Good
  <2> QED
    BY <2>1, <2>2 DEF Claimed, loop
<1>3. CASE ProcessStep \/ UNCHANGED vars
  <2>1. claimedIn' = claimedIn /\ NoneClaimed
    BY <1>0, <1>3, OnlyClaims
       DEF ProcessStep, Tick, Start, Crash, PollReset, PollExpire, PollFind,
           PollFetch, PollError, NoneClaimed, db, vars
  <2>2. poll' # "down" => epoch' # 0
    BY <1>0, <1>3
       DEF ProcessStep, Tick, Start, Crash, PollReset, PollExpire, PollFind,
           PollFetch, PollError, Claimed, loop, vars
  <2> QED
    BY <2>1, <2>2 DEF Claimed, NoneClaimed
<1> QED
  BY <1>1, <1>2, <1>3, RequestLoop DEF Next

\* The reset of this process is undone by nothing but its crash, which ends
\* every request.
LEMMA ResetStands ==
  ASSUME IInv, [Next]_vars, NEW c \in Call, call'[c].pc \in Unsettled, recovered
  PROVE  recovered'
<1>1. CASE Crash
  BY <1>1 DEF Crash, Idle, Unsettled, CallbackStep
<1>2. CASE (ProcessStep /\ ~Crash) \/ UNCHANGED vars
  BY <1>2
     DEF ProcessStep, Tick, Start, PollReset, PollExpire, PollFind, PollFetch,
         PollError, loop, vars
<1>3. ASSUME NEW d \in Call, ClientStep(d) \/ WorkerStep(d) \/ Reply(d) \/ Abandon(d)
      PROVE  recovered'
  BY <1>3, RequestLoop DEF SameLoop, Claim, loop
<1> QED
  BY <1>1, <1>2, <1>3 DEF Next

LEMMA NextClaimed == IInv /\ SInv /\ Claimed /\ [Next]_vars => Claimed'
<1> SUFFICES ASSUME IInv, SInv, Claimed, [Next]_vars
             PROVE  Claimed'
  OBVIOUS
<1>1. ASSUME NEW c \in Call, call'[c].pc \in Unsettled
      PROVE  /\ claimedIn'[call'[c].job] # 0
             /\ table'[call'[c].job].status = "pending" => recovered'
  <2>1. CASE call'[c].job \in InStatus(table, "processing") /\ table' = table
    <3>1. claimedIn'[call'[c].job] # 0
      BY <2>1, HistoryGrows
    <3>2. table'[call'[c].job].status # "pending"
      BY <2>1 DEF InStatus
    <3> QED
      BY <3>1, <3>2
  <2>2. CASE call[c].pc \in Unsettled /\ call'[c].job = call[c].job
    <3> DEFINE j == call[c].job
    <3>1. j \in Job /\ j \in DOMAIN table
      BY <2>2, CallbackRow DEF Unsettled
    <3>2. table[j].status \in Active
      BY <2>2 DEF SInv, Holds
    <3>3. claimedIn[j] # 0 /\ (table[j].status = "pending" => recovered)
      BY <2>2 DEF Claimed
    <3> HIDE DEF j
    <3>4. claimedIn'[j] # 0
      BY <3>1, <3>3, HistoryGrows
    <3>5. CASE table[j].status = "pending"
      BY <1>1, <2>2, <3>3, <3>4, <3>5, ResetStands DEF j
    <3>6. CASE table[j].status = "processing"
      <4>1. j \in InStatus(table, "processing")
        BY <3>1, <3>6 DEF InStatus
      <4>2. table'[j].status = "pending" => recovered'
        BY <4>1, QueuedByReset
      <4> QED
        BY <2>2, <3>4, <4>2 DEF j
    <3> QED
      BY <3>2, <3>5, <3>6 DEF Active
  <2> QED
    BY <1>1, <2>1, <2>2, CallbackOrigin
<1> QED
  BY <1>1, HistoryGrows DEF Claimed

LEMMA InitClaimed == Init => Claimed
  BY DEF Init, Claimed, EmptyTable, InStatus, Idle, Unsettled, CallbackStep

LEMMA SpecClaimed ==
  ASSUME Serial
  PROVE  Spec => [](IInv /\ SInv /\ Claimed)
<1>1. IInv /\ SInv /\ Claimed /\ [Next]_vars => IInv' /\ SInv' /\ Claimed'
  BY NextIInv, NextSInv, NextClaimed
<1> QED
  BY <1>1, InitIInv, InitSInv, InitClaimed, PTL DEF Spec

-----------------------------------------------------------------------------
(* How the status of a row may change.                                     *)

Waiting == {"awaiting_upload", "pending", "processing"}

\* No job is finished, given up or taken up again.
StillWaiting(tbl, new) ==
  /\ DOMAIN new = DOMAIN tbl
  /\ \A i \in DOMAIN tbl :
       /\ new[i].key = tbl[i].key
       /\ \/ new[i].status = tbl[i].status
          \/ /\ tbl[i].status \in Waiting
             /\ new[i].status \in Waiting \cap Successors(tbl[i].status)

LEMMA WaitingRows ==
  ASSUME NEW tbl, Good(tbl), NEW new, NEW j, NEW e,
         \/ new = tbl
         \/ new = ResetProcessing(tbl)
         \/ new = MarkAudioReady(tbl, j)
         \/ new = ReturnToAwaitingUpload(tbl, j, e)
         \/ new = ClaimNext(tbl)
  PROVE  StillWaiting(tbl, new)
<1>0. \A i \in DOMAIN tbl : tbl[i] \in Row
  BY DEF Good, RowOK
<1>1. CASE new = ResetProcessing(tbl)
  BY <1>0, <1>1 DEF ResetProcessing, Row, Waiting, StillWaiting, Successors
<1>2. CASE new = MarkAudioReady(tbl, j)
  BY <1>0, <1>2 DEF MarkAudioReady, Row, Waiting, StillWaiting, Successors
<1>3. CASE new = ReturnToAwaitingUpload(tbl, j, e)
  BY <1>0, <1>3 DEF ReturnToAwaitingUpload, Row, Waiting, StillWaiting, Successors
<1>4. CASE new = ClaimNext(tbl)
  <2>1. \A i \in ClaimHead(tbl) : tbl[i].status = "pending"
    BY ClaimHeadPending DEF InStatus
  <2> QED
    BY <1>0, <1>4, <2>1 DEF ClaimNext, Row, Waiting, StillWaiting, Successors
<1>5. CASE new = tbl
  BY <1>5 DEF StillWaiting
<1> QED
  BY <1>1, <1>2, <1>3, <1>4, <1>5

\* When callbacks do not overlap, one ends the job only at the worker, or in the
\* queue after the startup reset has taken it from there.
MayEnd(j) ==
  /\ table[j].status \in Active
  /\ table[j].status = "pending" => recovered /\ claimedIn[j] # 0

TableMove ==
  \/ StillWaiting(table, table')
  \/ table' = ExpireUploads(table, now)
  \/ \E j, e : table' = RequeueFailed(table, j, e)
  \/ \E j \in DOMAIN table : /\ MayEnd(j) /\ store[table[j].key] = "whole"
                             /\ table' = MarkReady(table, j)
  \/ \E j \in DOMAIN table : MayEnd(j) /\ table' = MarkFailed(table, j)
  \/ \E j, e, k : /\ j \notin DOMAIN table
                  /\ table' = InsertAwaitingUpload(table, j, k, e, now)

LEMMA TableMoves ==
  ASSUME IInv, SInv, Claimed, [Next]_vars
  PROVE  TableMove
<1>0. Good(table)
  BY DEF IInv, TableOK
<1>1. table' = table => TableMove
  BY <1>0, WaitingRows DEF TableMove
<1>2. ASSUME NEW c \in Call, ClientStep(c)
      PROVE  TableMove
  <2>1. CASE LookupInsert(c)
    <3>1. /\ call[c].job \notin DOMAIN table
          /\ table' = InsertAwaitingUpload(table, call[c].job, call[c].key,
                                           call[c].t, now)
      BY <2>1, Arguments DEF LookupInsert, At
    <3> QED
      BY <3>1 DEF TableMove
  <2>2. CASE LookupRequeue(c) \/ JobExpire(c) \/ \E k \in Key : LookupExpire(c, k)
    BY <2>2 DEF LookupRequeue, JobExpire, LookupExpire, TableMove
  <2>3. CASE \/ LookupFind(c) \/ LookupReread(c) \/ JobReread(c) \/ ReadFile(c)
             \/ \E j \in Job : JobFind(c, j)
    <3>1. table' = table
      BY <2>3 DEF LookupFind, LookupReread, JobReread, ReadFile, JobFind, db
    <3> QED
      BY <1>1, <3>1
  <2> QED
    BY <1>2, <2>1, <2>2, <2>3 DEF ClientStep
<1>3. ASSUME NEW c \in Call, WorkerStep(c)
      PROVE  TableMove
  <2>1. CASE ResultMark(c) \/ FailMark(c)
    <3>1. call[c].pc \in Unsettled /\ call[c].pc \in CallbackStep
      BY <2>1 DEF ResultMark, FailMark, At, Unsettled, CallbackStep
    <3>2. call[c].job \in DOMAIN table /\ MayEnd(call[c].job)
      BY <3>1, CallbackRow DEF SInv, Holds, Claimed, MayEnd
    <3>3. \/ /\ store[table[call[c].job].key] = "whole"
             /\ table' = MarkReady(table, call[c].job)
          \/ table' = MarkFailed(table, call[c].job)
      BY <2>1 DEF ResultMark, FailMark, At, SInv, Holds
    <3> QED
      BY <3>2, <3>3 DEF TableMove
  <2>2. CASE AudioReadyMark(c) \/ FailReturn(c) \/ Claim(c)
    <3>1. \/ table' = MarkAudioReady(table, call[c].job)
          \/ table' = ReturnToAwaitingUpload(table, call[c].job, call[c].t)
          \/ table' = ClaimNext(table)
      BY <2>2 DEF AudioReadyMark, FailReturn, Claim
    <3> QED
      BY <1>0, <3>1, WaitingRows DEF TableMove
  <2>3. CASE \/ ResultOpen(c) \/ ResultWrite(c) \/ ResultRename(c) \/ Clear(c)
             \/ \E j \in Job, b \in BOOLEAN : AudioReadyFind(c, j, b) \/ ResultFind(c, j, b)
             \/ \E j \in Job, reason \in Reason : FailFind(c, j, reason)
    <3>1. table' = table
      BY <2>3 DEF ResultOpen, ResultWrite, ResultRename, Clear, AudioReadyFind,
                  ResultFind, FailFind, db
    <3> QED
      BY <1>1, <3>1
  <2> QED
    BY <1>3, <2>1, <2>2, <2>3 DEF WorkerStep
<1>4. CASE ProcessStep
  <2>1. \/ table' = table
        \/ table' = ResetProcessing(table)
        \/ table' = ExpireUploads(table, now)
    BY <1>4 DEF ProcessStep, Tick, Start, Crash, PollReset, PollExpire, PollFind,
                PollFetch, PollError, db
  <2> QED
    BY <1>0, <1>1, <2>1, WaitingRows DEF TableMove
<1>5. ASSUME NEW c \in Call, Reply(c) \/ Abandon(c)
      PROVE  TableMove
  BY <1>1, <1>5 DEF Reply, Abandon, db
<1>6. CASE UNCHANGED vars
  BY <1>1, <1>6 DEF vars
<1> QED
  BY <1>2, <1>3, <1>4, <1>5, <1>6 DEF Next

\* What one move makes of the status of a row.
LEMMA RowMoves ==
  ASSUME IInv, TableMove, NEW i \in DOMAIN table
  PROVE  /\ table[i].status = "ready" => table'[i].status = "ready"
         /\ table[i].status = "awaiting_upload" /\ table'[i].status = "failed"
              => table[i].expires <= now
         /\ \/ InSequence(i)
            \/ /\ table[i].status = "pending" /\ table'[i].status \in {"ready", "failed"}
               /\ recovered /\ claimedIn[i] # 0
<1>0. table[i] \in Row
  BY DEF IInv, TableOK, Good, RowOK
<1> USE DEF InSequence, Successors
<1>1. CASE StillWaiting(table, table')
  BY <1>1 DEF StillWaiting, Waiting
<1>2. CASE table' = ExpireUploads(table, now)
  BY <1>0, <1>2 DEF ExpireUploads, Row
<1>3. CASE \E j, e : table' = RequeueFailed(table, j, e)
  BY <1>0, <1>3 DEF RequeueFailed, Row
<1>4. ASSUME NEW j \in DOMAIN table, MayEnd(j),
             table' = MarkReady(table, j) \/ table' = MarkFailed(table, j)
      PROVE  /\ table[i].status = "ready" => table'[i].status = "ready"
             /\ table[i].status = "awaiting_upload" => table'[i].status # "failed"
             /\ \/ InSequence(i)
                \/ /\ table[i].status = "pending" /\ table'[i].status \in {"ready", "failed"}
                   /\ recovered /\ claimedIn[i] # 0
  <2>1. CASE i = j
    <3>1. table'[i].status \in {"ready", "failed"}
      BY <1>0, <1>4, <2>1 DEF MarkReady, MarkFailed, Row
    <3> QED
      BY <1>4, <2>1, <3>1 DEF Active, MayEnd
  <2>2. CASE i # j
    BY <1>4, <2>2 DEF MarkReady, MarkFailed
  <2> QED
    BY <2>1, <2>2
<1>5. ASSUME NEW j, NEW e, NEW k, j \notin DOMAIN table,
             table' = InsertAwaitingUpload(table, j, k, e, now)
      PROVE  table'[i] = table[i]
  BY <1>5 DEF InsertAwaitingUpload
<1> QED
  BY <1>1, <1>2, <1>3, <1>4, <1>5 DEF TableMove

\* A job that is ready stays ready (README.md:47-52).
THEOREM ReadyStays ==
  ASSUME Serial
  PROVE  Spec => ReadyIsFinal
<1>1. IInv /\ SInv /\ Claimed /\ [Next]_vars
        => [\A j \in InStatus(table, "ready") : table'[j].status = "ready"]_vars
  BY TableMoves, RowMoves DEF InStatus
<1> QED
  BY <1>1, SpecClaimed, PTL DEF Spec, ReadyIsFinal

\* Although a handler writes the status of a job in a later statement than it
\* reads it, a job leaves the documented sequence (README.md:47-52) in one way
\* only: the startup reset of this process returned it from the worker to the
\* queue, and a callback that had found it at the worker ends it there.
\* Everywhere else the WHERE clause looks again, or no other callback was there.
THEOREM OnlyResetLeavesSequence ==
  ASSUME Serial
  PROVE  Spec => OnlyResetBreaksSequence
<1>1. IInv /\ SInv /\ Claimed /\ [Next]_vars
        => [\A j \in DOMAIN table :
              \/ InSequence(j)
              \/ /\ table[j].status = "pending" /\ table'[j].status \in {"ready", "failed"}
                 /\ recovered /\ claimedIn[j] # 0]_vars
  BY TableMoves, RowMoves
<1> QED
  BY <1>1, SpecClaimed, PTL DEF Spec, OnlyResetBreaksSequence

\* An upload is given up only after its deadline (README.md:54-55).
THEOREM UploadsHaveTheirTime ==
  ASSUME Serial
  PROVE  Spec => UploadNotCutShort
<1>1. IInv /\ SInv /\ Claimed /\ [Next]_vars
        => [\A j \in InStatus(table, "awaiting_upload") :
              table'[j].status = "failed" => table[j].expires <= now]_vars
  BY TableMoves, RowMoves DEF InStatus
<1> QED
  BY <1>1, SpecClaimed, PTL DEF Spec, UploadNotCutShort

-----------------------------------------------------------------------------
(* The promise of TranscriptCache.                                         *)

\* What a row of this status is to a client, if a ready one has its file.
Shows(status) ==
  IF status = "failed" THEN "given_up"
  ELSE IF status = "ready" THEN "served" ELSE "wanted"

Served(tbl, done) ==
  Good(tbl) /\ \A j \in InStatus(tbl, "ready") : done[tbl[j].key] = "whole"

\* EntryOf, of any table and transcripts.
EntryIn(tbl, done, k) ==
  LET rows == FindByKey(tbl, k)
      In(s) == \E j \in rows : tbl[j].status \in s
  IN  CASE rows = {}         -> "unknown"
        [] In({"failed"})    -> "given_up"
        [] In({"ready"}) /\ done[k] = "whole" -> "served"
        [] OTHER             -> "wanted"

\* A key has one row at most, and its status says it all.
LEMMA EntryIs ==
  ASSUME NEW tbl, NEW done, Served(tbl, done)
  PROVE  /\ \A k : FindByKey(tbl, k) = {} => EntryIn(tbl, done, k) = "unknown"
         /\ \A j \in DOMAIN tbl :
              EntryIn(tbl, done, tbl[j].key) = Shows(tbl[j].status)
<1>1. ASSUME NEW j \in DOMAIN tbl
      PROVE  EntryIn(tbl, done, tbl[j].key) = Shows(tbl[j].status)
  <2> DEFINE k == tbl[j].key
  <2>1. FindByKey(tbl, k) = {j}
    BY DEF FindByKey, Served, Good
  <2>2. tbl[j].status = "ready" => done[k] = "whole"
    BY DEF Served, InStatus
  <2> HIDE DEF k
  <2>3. CASE tbl[j].status = "failed"
    BY <2>1, <2>3 DEF EntryIn, Shows, k
  <2>4. CASE tbl[j].status = "ready"
    BY <2>1, <2>2, <2>4 DEF EntryIn, Shows, k
  <2>5. CASE tbl[j].status \notin {"failed", "ready"}
    BY <2>1, <2>5 DEF EntryIn, Shows, k
  <2> QED
    BY <2>3, <2>4, <2>5
<1>2. \A k : FindByKey(tbl, k) = {} => EntryIn(tbl, done, k) = "unknown"
  BY DEF EntryIn
<1> QED
  BY <1>1, <1>2

\* Keys without a row on either side, and keys whose row shows the same, have
\* the same entry.
LEMMA SameEntry ==
  ASSUME NEW tbl, NEW done, Served(tbl, done),
         NEW new, NEW later, Served(new, later), KeepsRows(tbl, new), NEW k,
         \A i \in DOMAIN new : new[i].key = k
           => i \in DOMAIN tbl /\ Shows(new[i].status) = Shows(tbl[i].status)
  PROVE  EntryIn(new, later, k) = EntryIn(tbl, done, k)
<1>1. CASE FindByKey(new, k) = {}
  <2>1. FindByKey(tbl, k) = {}
    BY <1>1 DEF FindByKey, KeepsRows
  <2> QED
    BY <1>1, <2>1, EntryIs
<1>2. ASSUME NEW i \in FindByKey(new, k)
      PROVE  EntryIn(new, later, k) = EntryIn(tbl, done, k)
  <2>1. i \in DOMAIN new /\ i \in DOMAIN tbl /\ new[i].key = k /\ tbl[i].key = k
        /\ Shows(new[i].status) = Shows(tbl[i].status)
    BY DEF FindByKey, KeepsRows
  <2>2. EntryIn(new, later, new[i].key) = Shows(new[i].status)
    BY <2>1, EntryIs
  <2>3. EntryIn(tbl, done, tbl[i].key) = Shows(tbl[i].status)
    BY <2>1, EntryIs
  <2> QED
    BY <2>1, <2>2, <2>3
<1> QED
  BY <1>1, <1>2

\* Every move of the table is a step of TranscriptCache, or none to it.
LEMMA CacheStep ==
  ASSUME Served(table, store), Served(table', store'), KeepsRows(table, table'),
         TableMove
  PROVE  [Cache!Next]_([k \in Key |-> EntryOf(k)])
<1> DEFINE E(k) == EntryIn(table, store, k)
           F(k) == EntryIn(table', store', k)
<1>0. \A k \in Key : EntryOf(k) = E(k) /\ EntryOf(k)' = F(k)
  BY DEF EntryOf, EntryIn
<1>1. ASSUME \A k \in Key : F(k) = E(k)
      PROVE  UNCHANGED [k \in Key |-> EntryOf(k)]
  BY <1>0, <1>1
<1>2. ASSUME NEW k \in Key, \A h \in Key \ {k} : F(h) = E(h),
             \/ E(k) \in {"unknown", "given_up"} /\ F(k) = "wanted"
             \/ E(k) = "wanted" /\ F(k) = "served"
      PROVE  Cache!Next
  <2>1. Cache!Want(k) \/ Cache!Serve(k)
    BY <1>0, <1>2 DEF Cache!Want, Cache!Serve
  <2> QED
    BY <2>1 DEF Cache!Next
<1>3. ASSUME NEW S \in SUBSET Key, S # {},
             \A k \in S : E(k) = "wanted" /\ F(k) = "given_up",
             \A k \in Key \ S : F(k) = E(k)
      PROVE  Cache!Next
  <2>1. Cache!GiveUp(S)
    BY <1>0, <1>3 DEF Cache!GiveUp
  <2> QED
    BY <2>1 DEF Cache!Next
<1>4. \A i \in DOMAIN table : /\ table[i] \in Row
                              /\ E(table[i].key) = Shows(table[i].status)
  BY EntryIs DEF Served, Good, RowOK
<1>5. \A i \in DOMAIN table' : /\ table'[i].key \in Key
                               /\ F(table'[i].key) = Shows(table'[i].status)
  <2>1. \A i \in DOMAIN table' : table'[i] \in Row
    BY DEF Served, Good, RowOK
  <2>2. \A i \in DOMAIN table' : table'[i].key \in Key
    BY <2>1 DEF Row
  <2>3. \A i \in DOMAIN table' : F(table'[i].key) = Shows(table'[i].status)
    BY EntryIs
  <2> QED
    BY <2>2, <2>3
<1>6. \A k : (\A i \in DOMAIN table' : table'[i].key = k
                => i \in DOMAIN table /\ Shows(table'[i].status) = Shows(table[i].status))
             => F(k) = E(k)
  BY SameEntry
<1> HIDE DEF E, F
\* A statement that changes what the row of one job shows.
<1>7. ASSUME NEW j \in DOMAIN table, DOMAIN table' = DOMAIN table,
             \A i \in DOMAIN table \ {j} : table'[i] = table[i]
      PROVE  /\ table[j].key \in Key
             /\ E(table[j].key) = Shows(table[j].status)
             /\ F(table[j].key) = Shows(table'[j].status)
             /\ \A k \in Key \ {table[j].key} : F(k) = E(k)
  <2>1. table'[j].key = table[j].key
    BY DEF KeepsRows
  <2>2. ASSUME NEW k \in Key \ {table[j].key}
        PROVE  F(k) = E(k)
    <3>1. \A i \in DOMAIN table' : table'[i].key = k
            => i \in DOMAIN table /\ table'[i] = table[i]
      BY <1>7, <2>1
    <3> QED
      BY <1>6, <3>1
  <2> QED
    BY <1>4, <1>5, <1>7, <2>1, <2>2 DEF Row
<1>8. CASE StillWaiting(table, table')
  <2>1. \A i \in DOMAIN table : Shows(table'[i].status) = Shows(table[i].status)
    BY <1>8 DEF StillWaiting, Waiting, Shows
  <2> QED
    BY <1>1, <1>6, <1>8, <2>1 DEF StillWaiting
<1>9. CASE table' = ExpireUploads(table, now)
  <2> DEFINE gone == {i \in DOMAIN table : table[i].status = "awaiting_upload"
                                             /\ table'[i].status = "failed"}
             S == {table[i].key : i \in gone}
  <2>1. /\ DOMAIN table' = DOMAIN table
        /\ \A i \in DOMAIN table : table'[i] = table[i] \/ i \in gone
    BY <1>4, <1>9 DEF ExpireUploads, Row
  <2>2. \A i \in DOMAIN table : table'[i].key = table[i].key
    BY DEF KeepsRows
  <2>3. ASSUME NEW k \in Key \ S
        PROVE  F(k) = E(k)
    <3>1. \A i \in DOMAIN table' : table'[i].key = k
            => i \in DOMAIN table /\ table'[i] = table[i]
      BY <2>1, <2>2
    <3> QED
      BY <1>6, <3>1
  <2>4. ASSUME NEW k \in S
        PROVE  E(k) = "wanted" /\ F(k) = "given_up"
    <3>1. PICK i \in gone : k = table[i].key
      OBVIOUS
    <3> QED
      BY <1>4, <1>5, <2>1, <2>2, <3>1 DEF Shows
  <2>5. S \in SUBSET Key
    BY <1>4 DEF Row
  <2> HIDE DEF S
  <2> QED
    BY <1>1, <1>3, <2>3, <2>4, <2>5
<1>10. ASSUME NEW j, NEW e, table' = RequeueFailed(table, j, e)
       PROVE  \/ Cache!Next
              \/ UNCHANGED [k \in Key |-> EntryOf(k)]
  <2>1. CASE j \in DOMAIN table /\ table[j].status = "failed"
    <3>1. /\ DOMAIN table' = DOMAIN table
          /\ \A i \in DOMAIN table \ {j} : table'[i] = table[i]
          /\ table'[j].status = "awaiting_upload"
      BY <1>4, <1>10, <2>1 DEF RequeueFailed, Row
    <3>2. Shows("failed") = "given_up" /\ Shows("awaiting_upload") = "wanted"
      BY DEF Shows
    <3> QED
      BY <1>2, <1>7, <2>1, <3>1, <3>2
  <2>2. CASE ~(j \in DOMAIN table /\ table[j].status = "failed")
    <3>1. /\ DOMAIN table' = DOMAIN table
          /\ \A i \in DOMAIN table : table'[i] = table[i]
      BY <1>10, <2>2 DEF RequeueFailed
    <3> QED
      BY <1>1, <1>6, <3>1
  <2> QED
    BY <2>1, <2>2
<1>11. ASSUME NEW j \in DOMAIN table, table[j].status \in Active,
              table' = MarkReady(table, j) \/ table' = MarkFailed(table, j)
       PROVE  Cache!Next
  <2>1. /\ DOMAIN table' = DOMAIN table
        /\ \A i \in DOMAIN table \ {j} : table'[i] = table[i]
    BY <1>11, OtherRows
  <2>2. Shows(table[j].status) = "wanted"
    BY <1>11 DEF Shows, Active
  <2>3. CASE table' = MarkReady(table, j)
    <3>1. Shows(table'[j].status) = "served"
      BY <1>4, <2>3 DEF MarkReady, Row, Shows
    <3> QED
      BY <1>2, <1>7, <2>1, <2>2, <3>1
  <2>4. CASE table' = MarkFailed(table, j)
    <3>1. Shows(table'[j].status) = "given_up"
      BY <1>4, <2>4 DEF MarkFailed, Row, Shows
    <3> DEFINE S == {table[j].key}
    <3>2. /\ S \in SUBSET Key /\ S # {}
          /\ \A k \in S : E(k) = "wanted" /\ F(k) = "given_up"
          /\ \A k \in Key \ S : F(k) = E(k)
      BY <1>7, <2>1, <2>2, <3>1
    <3> HIDE DEF S
    <3> QED
      BY <1>3, <3>2
  <2> QED
    BY <1>11, <2>3, <2>4
<1>12. ASSUME NEW j, NEW e, NEW k, j \notin DOMAIN table,
              table' = InsertAwaitingUpload(table, j, k, e, now)
       PROVE  \/ Cache!Next
              \/ UNCHANGED [h \in Key |-> EntryOf(h)]
  <2>1. CASE FindByKey(table, k) # {}
    <3>1. table' = table
      BY <1>12, <2>1 DEF InsertAwaitingUpload
    <3> QED
      BY <1>1, <1>6, <3>1
  <2>2. CASE FindByKey(table, k) = {}
    <3>1. /\ DOMAIN table' = DOMAIN table \cup {j}
          /\ \A i \in DOMAIN table : table'[i] = table[i]
          /\ table'[j].key = k /\ table'[j].status = "awaiting_upload"
      BY <1>12, <2>2 DEF InsertAwaitingUpload
    <3>2. k \in Key /\ F(k) = "wanted"
      BY <1>5, <3>1 DEF Shows
    <3>3. E(k) = "unknown"
      BY <2>2, EntryIs DEF E
    <3>4. \A h \in Key \ {k} : F(h) = E(h)
      BY <1>6, <3>1
    <3> QED
      BY <1>2, <3>2, <3>3, <3>4
  <2> QED
    BY <2>1, <2>2
<1> QED
  BY <1>8, <1>9, <1>10, <1>11, <1>12 DEF TableMove, MayEnd

\* The gateway keeps the promise of TranscriptCache: a key somebody asked for
\* is wanted until it is served or given up, and once served it is served for
\* ever, row and file.
THEOREM CacheImplementation ==
  ASSUME Serial
  PROVE  Spec => ImplementsTranscriptCache
<1>1. Init => Cache!Init
  BY DEF Init, EmptyTable, Cache!Init, EntryOf, FindByKey
<1>2. IInv /\ SInv => Served(table, store)
  BY DEF IInv, SInv, TableOK, ReadyHasTranscript, Served
<1>3. /\ IInv /\ SInv /\ Claimed /\ [Next]_vars
      /\ Served(table, store) /\ Served(table, store)'
      => [Cache!Next]_([k \in Key |-> EntryOf(k)])
  <2>1. Served(table, store)' => Served(table', store')
    BY DEF Served, Good, InStatus
  <2> QED
    BY <2>1, TableStep, TableMoves, CacheStep
<1> QED
  BY <1>1, <1>2, <1>3, SpecClaimed, PTL DEF Spec, Cache!Spec, ImplementsTranscriptCache

=============================================================================
