------------------------- MODULE TranscriptionsProofs -------------------------
(***************************************************************************)
(* What the statements of Transcriptions do to a table, for every set of   *)
(* jobs and keys, every time to live and every bound on the clock.  The    *)
(* proofs about JobStore and Gateway rest on these lemmas.                 *)
(*                                                                         *)
(* Good(tbl) says of a table, and RowOK(row) of a row, that every column   *)
(* is of its kind and agrees with the status.  Every statement either      *)
(* leaves a row alone or writes all the columns its new status needs, and  *)
(* none changes a key, so every statement leaves a good table good.        *)
(***************************************************************************)
EXTENDS Transcriptions, FiniteSetTheorems, FunctionTheorems, TLAPS

RowOK(row) ==
  /\ row \in Row
  /\ row.error <=> row.status = "failed"
  /\ row.status = "awaiting_upload" => row.expires # NULL
  /\ row.status \in {"pending", "processing"} => row.expires = NULL
  /\ row.status = "ready" => row.path

Good(tbl) ==
  /\ DOMAIN tbl \subseteq Job
  /\ tbl = [j \in DOMAIN tbl |-> tbl[j]]
  /\ \A j \in DOMAIN tbl : RowOK(tbl[j])
  /\ \A i, j \in DOMAIN tbl : tbl[i].key = tbl[j].key => i = j

\* No row is deleted and no key changes.
KeepsRows(tbl, new) ==
  /\ DOMAIN tbl \subseteq DOMAIN new
  /\ \A i \in DOMAIN tbl : new[i].key = tbl[i].key

Rewritten(tbl, new) == Good(new) /\ KeepsRows(tbl, new) /\ DOMAIN new = DOMAIN tbl

-----------------------------------------------------------------------------
(* Tables and rows.                                                        *)

\* A statement that rewrites each row to a sound row, and leaves the key
\* alone, leaves a good table behind.
LEMMA RewrittenTable ==
  ASSUME NEW tbl, Good(tbl), NEW new,
         DOMAIN new = DOMAIN tbl, new = [i \in DOMAIN tbl |-> new[i]],
         \A i \in DOMAIN tbl : RowOK(new[i]) /\ new[i].key = tbl[i].key
  PROVE  Rewritten(tbl, new)
  BY DEF Good, Rewritten, KeepsRows

\* The rowid of a new row is a number, because there are finitely many rows.
LEMMA NextRowid ==
  ASSUME NEW tbl, DOMAIN tbl \subseteq Job
  PROVE  Cardinality(DOMAIN tbl) + 1 \in Nat
<1>1. IsFiniteSet(DOMAIN tbl)
  BY FS_Subset, JobAssumption
<1>2. Cardinality(DOMAIN tbl) \in Nat
  BY <1>1, FS_CardinalityType
<1> QED
  BY <1>2

\* NULL is not a deadline: every deadline is at least the time to live.
LEMMA DeadlineNotNull == \A e \in Deadline : e # NULL
  BY TtlAssumption, MaxTimeAssumption DEF Deadline, NULL

-----------------------------------------------------------------------------
(* Every statement leaves a good table behind.                             *)

LEMMA InsertGood ==
  ASSUME NEW tbl, Good(tbl), NEW j \in Job, j \notin DOMAIN tbl,
         NEW k \in Key, NEW e \in Deadline, NEW t \in Time
  PROVE  Good(InsertAwaitingUpload(tbl, j, k, e, t))
<1>1. CASE FindByKey(tbl, k) # {}
  BY <1>1 DEF InsertAwaitingUpload
<1>2. CASE FindByKey(tbl, k) = {}
  <2> DEFINE row == [key |-> k, status |-> "awaiting_upload", expires |-> e,
                     error |-> FALSE, path |-> FALSE, created |-> t,
                     rowid |-> Cardinality(DOMAIN tbl) + 1]
             new == [i \in DOMAIN tbl \cup {j} |->
                       IF i # j THEN tbl[i] ELSE row]
  <2>1. InsertAwaitingUpload(tbl, j, k, e, t) = new
    BY <1>2 DEF InsertAwaitingUpload
  <2>2. RowOK(row)
    <3>1. Cardinality(DOMAIN tbl) + 1 \in Nat
      BY NextRowid DEF Good
    <3> QED
      BY <3>1, DeadlineNotNull DEF RowOK, Row, Status
  <2>3. \A i \in DOMAIN tbl : tbl[i].key # k
    BY <1>2 DEF FindByKey
  <2>4. row.key = k
    OBVIOUS
  <2> HIDE DEF row
  <2>5. \A i \in DOMAIN new : RowOK(new[i])
    BY <2>2 DEF Good
  <2>6. \A h, i \in DOMAIN new : new[h].key = new[i].key => h = i
    BY <2>3, <2>4 DEF Good
  <2>7. DOMAIN new \subseteq Job /\ new = [i \in DOMAIN new |-> new[i]]
    BY DEF Good
  <2>8. Good(new)
    <3> HIDE DEF new
    <3> QED
      BY <2>5, <2>6, <2>7 DEF Good
  <2> QED
    BY <2>1, <2>8
<1> QED
  BY <1>1, <1>2

\* The rows that UPDATE statements write are sound if the row was.
LEMMA AwaitingRow ==
  ASSUME NEW row, RowOK(row), NEW e \in Deadline
  PROVE  LET new == [row EXCEPT !.status = "awaiting_upload", !.error = FALSE,
                                !.expires = e]
         IN  RowOK(new) /\ new.key = row.key
  BY DeadlineNotNull DEF RowOK, Row, Status

LEMMA PendingRow ==
  ASSUME NEW row, RowOK(row)
  PROVE  LET new == [row EXCEPT !.status = "pending", !.error = FALSE,
                                !.expires = NULL]
         IN  RowOK(new) /\ new.key = row.key
  BY DEF RowOK, Row, Status

LEMMA ReadyRow ==
  ASSUME NEW row, RowOK(row)
  PROVE  LET new == [row EXCEPT !.status = "ready", !.path = TRUE, !.error = FALSE]
         IN  RowOK(new) /\ new.key = row.key
  BY DEF RowOK, Row, Status

LEMMA FailedRow ==
  ASSUME NEW row, RowOK(row)
  PROVE  LET new == [row EXCEPT !.status = "failed", !.error = TRUE]
         IN  RowOK(new) /\ new.key = row.key
  BY DEF RowOK, Row, Status

LEMMA RequeueRewrites ==
  ASSUME NEW tbl, Good(tbl), NEW j \in Job, NEW e \in Deadline
  PROVE  Rewritten(tbl, RequeueFailed(tbl, j, e))
<1> DEFINE new == RequeueFailed(tbl, j, e)
<1>1. \A i \in DOMAIN tbl : RowOK(new[i]) /\ new[i].key = tbl[i].key
  BY AwaitingRow DEF RequeueFailed, Good
<1>2. DOMAIN new = DOMAIN tbl /\ new = [i \in DOMAIN tbl |-> new[i]]
  BY DEF RequeueFailed
<1> QED
  BY <1>1, <1>2, RewrittenTable

LEMMA AudioReadyRewrites ==
  ASSUME NEW tbl, Good(tbl), NEW j \in Job
  PROVE  Rewritten(tbl, MarkAudioReady(tbl, j))
<1> DEFINE new == MarkAudioReady(tbl, j)
<1>1. \A i \in DOMAIN tbl : RowOK(new[i]) /\ new[i].key = tbl[i].key
  BY PendingRow DEF MarkAudioReady, Good
<1>2. DOMAIN new = DOMAIN tbl /\ new = [i \in DOMAIN tbl |-> new[i]]
  BY DEF MarkAudioReady
<1> QED
  BY <1>1, <1>2, RewrittenTable

LEMMA ReturnRewrites ==
  ASSUME NEW tbl, Good(tbl), NEW j \in Job, NEW e \in Deadline
  PROVE  Rewritten(tbl, ReturnToAwaitingUpload(tbl, j, e))
<1> DEFINE new == ReturnToAwaitingUpload(tbl, j, e)
<1>1. \A i \in DOMAIN tbl : RowOK(new[i]) /\ new[i].key = tbl[i].key
  BY AwaitingRow DEF ReturnToAwaitingUpload, Good
<1>2. DOMAIN new = DOMAIN tbl /\ new = [i \in DOMAIN tbl |-> new[i]]
  BY DEF ReturnToAwaitingUpload
<1> QED
  BY <1>1, <1>2, RewrittenTable

LEMMA ExpireRewrites ==
  ASSUME NEW tbl, Good(tbl), NEW t \in Time
  PROVE  Rewritten(tbl, ExpireUploads(tbl, t))
<1> DEFINE new == ExpireUploads(tbl, t)
<1>1. \A i \in DOMAIN tbl : RowOK(new[i]) /\ new[i].key = tbl[i].key
  BY FailedRow DEF ExpireUploads, Good
<1>2. DOMAIN new = DOMAIN tbl /\ new = [i \in DOMAIN tbl |-> new[i]]
  BY DEF ExpireUploads
<1> QED
  BY <1>1, <1>2, RewrittenTable

LEMMA ResetRewrites ==
  ASSUME NEW tbl, Good(tbl)
  PROVE  Rewritten(tbl, ResetProcessing(tbl))
<1> DEFINE new == ResetProcessing(tbl)
<1>1. \A i \in DOMAIN tbl : RowOK(new[i]) /\ new[i].key = tbl[i].key
  BY DEF ResetProcessing, Good, RowOK, Row, Status
<1>2. DOMAIN new = DOMAIN tbl /\ new = [i \in DOMAIN tbl |-> new[i]]
  BY DEF ResetProcessing
<1> QED
  BY <1>1, <1>2, RewrittenTable

\* Only a pending row is claimed.
LEMMA ClaimHeadPending ==
  \A tbl : ClaimHead(tbl) \subseteq InStatus(tbl, "pending")
  BY DEF ClaimHead

LEMMA ClaimRewrites ==
  ASSUME NEW tbl, Good(tbl)
  PROVE  Rewritten(tbl, ClaimNext(tbl))
<1> DEFINE new == ClaimNext(tbl)
<1>1. \A i \in ClaimHead(tbl) : tbl[i].status = "pending"
  BY ClaimHeadPending DEF InStatus
<1>2. \A i \in DOMAIN tbl : RowOK(new[i]) /\ new[i].key = tbl[i].key
  BY <1>1 DEF ClaimNext, Good, RowOK, Row, Status
<1>3. DOMAIN new = DOMAIN tbl /\ new = [i \in DOMAIN tbl |-> new[i]]
  BY DEF ClaimNext
<1> QED
  BY <1>2, <1>3, RewrittenTable

LEMMA ReadyRewrites ==
  ASSUME NEW tbl, Good(tbl), NEW j \in Job
  PROVE  Rewritten(tbl, MarkReady(tbl, j))
<1> DEFINE new == MarkReady(tbl, j)
<1>1. \A i \in DOMAIN tbl : RowOK(new[i]) /\ new[i].key = tbl[i].key
  BY ReadyRow DEF MarkReady, Good
<1>2. DOMAIN new = DOMAIN tbl /\ new = [i \in DOMAIN tbl |-> new[i]]
  BY DEF MarkReady
<1> QED
  BY <1>1, <1>2, RewrittenTable

LEMMA FailRewrites ==
  ASSUME NEW tbl, Good(tbl), NEW j \in Job
  PROVE  Rewritten(tbl, MarkFailed(tbl, j))
<1> DEFINE new == MarkFailed(tbl, j)
<1>1. \A i \in DOMAIN tbl : RowOK(new[i]) /\ new[i].key = tbl[i].key
  BY FailedRow DEF MarkFailed, Good
<1>2. DOMAIN new = DOMAIN tbl /\ new = [i \in DOMAIN tbl |-> new[i]]
  BY DEF MarkFailed
<1> QED
  BY <1>1, <1>2, RewrittenTable

\* No statement but claim_next hands a job to the worker.
LEMMA OnlyClaims ==
  ASSUME NEW tbl, Good(tbl), NEW new, NEW j, NEW k, NEW e, NEW t,
         \/ new = tbl
         \/ new = ResetProcessing(tbl)
         \/ new = ExpireUploads(tbl, t)
         \/ new = RequeueFailed(tbl, j, e)
         \/ new = MarkAudioReady(tbl, j)
         \/ new = ReturnToAwaitingUpload(tbl, j, e)
         \/ new = MarkReady(tbl, j)
         \/ new = MarkFailed(tbl, j)
         \/ new = InsertAwaitingUpload(tbl, j, k, e, t)
  PROVE  InStatus(new, "processing") \subseteq InStatus(tbl, "processing")
<1>1. ASSUME DOMAIN new = DOMAIN tbl,
             \A i \in DOMAIN tbl :
               new[i] = tbl[i] \/ new[i].status # "processing"
      PROVE  InStatus(new, "processing") \subseteq InStatus(tbl, "processing")
  BY <1>1 DEF InStatus
<1>2. CASE new = ExpireUploads(tbl, t)
  <2>1. DOMAIN new = DOMAIN tbl
    BY <1>2 DEF ExpireUploads
  <2>2. \A i \in DOMAIN tbl : new[i] = tbl[i] \/ new[i].status # "processing"
    BY <1>2 DEF ExpireUploads, Good, RowOK, Row
  <2> QED
    BY <1>1, <1>2, <2>1, <2>2
<1>3. CASE new = RequeueFailed(tbl, j, e)
  <2>1. DOMAIN new = DOMAIN tbl
    BY <1>3 DEF RequeueFailed
  <2>2. \A i \in DOMAIN tbl : new[i] = tbl[i] \/ new[i].status # "processing"
    BY <1>3 DEF RequeueFailed, Good, RowOK, Row
  <2> QED
    BY <1>1, <1>3, <2>1, <2>2
<1>4. CASE new = MarkAudioReady(tbl, j)
  <2>1. DOMAIN new = DOMAIN tbl
    BY <1>4 DEF MarkAudioReady
  <2>2. \A i \in DOMAIN tbl : new[i] = tbl[i] \/ new[i].status # "processing"
    BY <1>4 DEF MarkAudioReady, Good, RowOK, Row
  <2> QED
    BY <1>1, <1>4, <2>1, <2>2
<1>5. CASE new = ReturnToAwaitingUpload(tbl, j, e)
  <2>1. DOMAIN new = DOMAIN tbl
    BY <1>5 DEF ReturnToAwaitingUpload
  <2>2. \A i \in DOMAIN tbl : new[i] = tbl[i] \/ new[i].status # "processing"
    BY <1>5 DEF ReturnToAwaitingUpload, Good, RowOK, Row
  <2> QED
    BY <1>1, <1>5, <2>1, <2>2
<1>6. CASE new = MarkReady(tbl, j)
  <2>1. DOMAIN new = DOMAIN tbl
    BY <1>6 DEF MarkReady
  <2>2. \A i \in DOMAIN tbl : new[i] = tbl[i] \/ new[i].status # "processing"
    BY <1>6 DEF MarkReady, Good, RowOK, Row
  <2> QED
    BY <1>1, <1>6, <2>1, <2>2
<1>7. CASE new = MarkFailed(tbl, j)
  <2>1. DOMAIN new = DOMAIN tbl
    BY <1>7 DEF MarkFailed
  <2>2. \A i \in DOMAIN tbl : new[i] = tbl[i] \/ new[i].status # "processing"
    BY <1>7 DEF MarkFailed, Good, RowOK, Row
  <2> QED
    BY <1>1, <1>7, <2>1, <2>2
<1>8. CASE new = ResetProcessing(tbl)
  BY <1>8 DEF ResetProcessing, InStatus, Good, RowOK, Row
<1>9. CASE new = InsertAwaitingUpload(tbl, j, k, e, t)
  BY <1>9 DEF InsertAwaitingUpload, InStatus
<1> QED
  BY <1>2, <1>3, <1>4, <1>5, <1>6, <1>7, <1>8, <1>9

\* No statement takes a ready job back into the queue or to its upload.
LEMMA ReadyOrFailed ==
  ASSUME NEW tbl, Good(tbl), NEW new, NEW j, NEW k, NEW e, NEW t,
         \/ new = ResetProcessing(tbl)
         \/ new = ClaimNext(tbl)
         \/ new = ExpireUploads(tbl, t)
         \/ new = RequeueFailed(tbl, j, e)
         \/ new = MarkAudioReady(tbl, j)
         \/ new = ReturnToAwaitingUpload(tbl, j, e)
         \/ new = MarkReady(tbl, j)
         \/ new = MarkFailed(tbl, j)
         \/ j \notin DOMAIN tbl /\ new = InsertAwaitingUpload(tbl, j, k, e, t),
         NEW i \in InStatus(tbl, "ready")
  PROVE  new[i].status \in {"ready", "failed"}
<1>1. i \in DOMAIN tbl /\ tbl[i] \in Row /\ tbl[i].status = "ready"
  BY DEF InStatus, Good, RowOK
<1>2. CASE new = ResetProcessing(tbl) \/ new = ExpireUploads(tbl, t)
  BY <1>1, <1>2 DEF ResetProcessing, ExpireUploads
<1>3. CASE new = ClaimNext(tbl)
  <2>1. i \notin ClaimHead(tbl)
    BY <1>1, ClaimHeadPending DEF InStatus
  <2> QED
    BY <1>1, <1>3, <2>1 DEF ClaimNext
<1>4. CASE \/ new = RequeueFailed(tbl, j, e)
           \/ new = MarkAudioReady(tbl, j)
           \/ new = ReturnToAwaitingUpload(tbl, j, e)
  BY <1>1, <1>4 DEF RequeueFailed, MarkAudioReady, ReturnToAwaitingUpload
<1>5. CASE new = MarkReady(tbl, j) \/ new = MarkFailed(tbl, j)
  <2>1. CASE i = j
    BY <1>1, <1>5, <2>1 DEF MarkReady, MarkFailed, Row
  <2>2. CASE i # j
    BY <1>1, <1>5, <2>2 DEF MarkReady, MarkFailed
  <2> QED
    BY <2>1, <2>2
<1>6. CASE j \notin DOMAIN tbl /\ new = InsertAwaitingUpload(tbl, j, k, e, t)
  BY <1>1, <1>6 DEF InsertAwaitingUpload
<1> QED
  BY <1>2, <1>3, <1>4, <1>5, <1>6

\* No statement but mark_ready makes a job ready.
LEMMA OnlyMarkedReady ==
  ASSUME NEW tbl, Good(tbl), NEW new, NEW j, NEW k, NEW e, NEW t,
         \/ new = tbl
         \/ new = ResetProcessing(tbl)
         \/ new = ClaimNext(tbl)
         \/ new = ExpireUploads(tbl, t)
         \/ new = RequeueFailed(tbl, j, e)
         \/ new = MarkAudioReady(tbl, j)
         \/ new = ReturnToAwaitingUpload(tbl, j, e)
         \/ new = MarkFailed(tbl, j)
         \/ new = InsertAwaitingUpload(tbl, j, k, e, t)
  PROVE  InStatus(new, "ready") \subseteq InStatus(tbl, "ready")
<1>1. \A i \in DOMAIN tbl : tbl[i] \in Row
  BY DEF Good, RowOK
<1>2. ASSUME DOMAIN new = DOMAIN tbl,
             \A i \in DOMAIN tbl : new[i] = tbl[i] \/ new[i].status # "ready"
      PROVE  InStatus(new, "ready") \subseteq InStatus(tbl, "ready")
  BY <1>2 DEF InStatus
<1>3. CASE new = ResetProcessing(tbl)
  <2>1. DOMAIN new = DOMAIN tbl
        /\ \A i \in DOMAIN tbl : new[i] = tbl[i] \/ new[i].status # "ready"
    BY <1>1, <1>3 DEF ResetProcessing, Row
  <2> QED
    BY <1>2, <2>1
<1>4. CASE new = ClaimNext(tbl)
  <2>1. DOMAIN new = DOMAIN tbl
        /\ \A i \in DOMAIN tbl : new[i] = tbl[i] \/ new[i].status # "ready"
    BY <1>1, <1>4 DEF ClaimNext, Row
  <2> QED
    BY <1>2, <2>1
<1>5. CASE new = ExpireUploads(tbl, t)
  <2>1. DOMAIN new = DOMAIN tbl
        /\ \A i \in DOMAIN tbl : new[i] = tbl[i] \/ new[i].status # "ready"
    BY <1>1, <1>5 DEF ExpireUploads, Row
  <2> QED
    BY <1>2, <2>1
<1>6. CASE new = RequeueFailed(tbl, j, e)
  <2>1. DOMAIN new = DOMAIN tbl
        /\ \A i \in DOMAIN tbl : new[i] = tbl[i] \/ new[i].status # "ready"
    BY <1>1, <1>6 DEF RequeueFailed, Row
  <2> QED
    BY <1>2, <2>1
<1>7. CASE new = MarkAudioReady(tbl, j)
  <2>1. DOMAIN new = DOMAIN tbl
        /\ \A i \in DOMAIN tbl : new[i] = tbl[i] \/ new[i].status # "ready"
    BY <1>1, <1>7 DEF MarkAudioReady, Row
  <2> QED
    BY <1>2, <2>1
<1>8. CASE new = ReturnToAwaitingUpload(tbl, j, e)
  <2>1. DOMAIN new = DOMAIN tbl
        /\ \A i \in DOMAIN tbl : new[i] = tbl[i] \/ new[i].status # "ready"
    BY <1>1, <1>8 DEF ReturnToAwaitingUpload, Row
  <2> QED
    BY <1>2, <2>1
<1>9. CASE new = MarkFailed(tbl, j)
  <2>1. DOMAIN new = DOMAIN tbl
        /\ \A i \in DOMAIN tbl : new[i] = tbl[i] \/ new[i].status # "ready"
    BY <1>1, <1>9 DEF MarkFailed, Row
  <2> QED
    BY <1>2, <2>1
<1>10. CASE new = InsertAwaitingUpload(tbl, j, k, e, t)
  BY <1>10 DEF InsertAwaitingUpload, InStatus
<1> QED
  BY <1>3, <1>4, <1>5, <1>6, <1>7, <1>8, <1>9, <1>10

\* No statement but reset_processing takes a job from the worker to the queue.
LEMMA OnlyResetQueues ==
  ASSUME NEW tbl, Good(tbl), NEW new, NEW j, NEW k, NEW e, NEW t,
         \/ new = tbl
         \/ new = ClaimNext(tbl)
         \/ new = ExpireUploads(tbl, t)
         \/ new = RequeueFailed(tbl, j, e)
         \/ new = MarkAudioReady(tbl, j)
         \/ new = ReturnToAwaitingUpload(tbl, j, e)
         \/ new = MarkReady(tbl, j)
         \/ new = MarkFailed(tbl, j)
         \/ j \notin DOMAIN tbl /\ new = InsertAwaitingUpload(tbl, j, k, e, t),
         NEW i \in InStatus(tbl, "processing")
  PROVE  new[i].status # "pending"
<1>1. i \in DOMAIN tbl /\ tbl[i] \in Row /\ tbl[i].status = "processing"
  BY DEF InStatus, Good, RowOK
<1>2. CASE new = ClaimNext(tbl)
  BY <1>1, <1>2 DEF ClaimNext, Row
<1>3. CASE \/ new = tbl
           \/ new = ExpireUploads(tbl, t)
           \/ new = RequeueFailed(tbl, j, e)
           \/ new = MarkAudioReady(tbl, j)
  BY <1>1, <1>3 DEF ExpireUploads, RequeueFailed, MarkAudioReady
<1>4. CASE \/ new = ReturnToAwaitingUpload(tbl, j, e)
           \/ new = MarkReady(tbl, j)
           \/ new = MarkFailed(tbl, j)
  <2>1. CASE i = j
    BY <1>1, <1>4, <2>1 DEF ReturnToAwaitingUpload, MarkReady, MarkFailed, Row
  <2>2. CASE i # j
    BY <1>1, <1>4, <2>2 DEF ReturnToAwaitingUpload, MarkReady, MarkFailed
  <2> QED
    BY <2>1, <2>2
<1>5. CASE j \notin DOMAIN tbl /\ new = InsertAwaitingUpload(tbl, j, k, e, t)
  BY <1>1, <1>5 DEF InsertAwaitingUpload
<1> QED
  BY <1>2, <1>3, <1>4, <1>5

\* No statement replaces the deadline of an upload that is waited for.
LEMMA DeadlineStays ==
  ASSUME NEW tbl, Good(tbl), NEW new, NEW j, NEW k, NEW e, NEW t,
         \/ new = ResetProcessing(tbl)
         \/ new = ClaimNext(tbl)
         \/ new = ExpireUploads(tbl, t)
         \/ new = RequeueFailed(tbl, j, e)
         \/ new = MarkAudioReady(tbl, j)
         \/ new = ReturnToAwaitingUpload(tbl, j, e)
         \/ new = MarkReady(tbl, j)
         \/ new = MarkFailed(tbl, j)
         \/ j \notin DOMAIN tbl /\ new = InsertAwaitingUpload(tbl, j, k, e, t),
         NEW i \in InStatus(tbl, "awaiting_upload")
  PROVE  new[i].status = "awaiting_upload" => new[i].expires = tbl[i].expires
<1>1. i \in DOMAIN tbl /\ tbl[i] \in Row /\ tbl[i].status = "awaiting_upload"
  BY DEF InStatus, Good, RowOK
<1>2. CASE new = ResetProcessing(tbl) \/ new = ClaimNext(tbl)
  BY <1>1, <1>2 DEF ResetProcessing, ClaimNext, Row
<1>3. CASE new = ExpireUploads(tbl, t)
  BY <1>1, <1>3 DEF ExpireUploads, Row
<1>4. CASE \/ new = RequeueFailed(tbl, j, e)
           \/ new = ReturnToAwaitingUpload(tbl, j, e)
  BY <1>1, <1>4 DEF RequeueFailed, ReturnToAwaitingUpload
<1>5. CASE \/ new = MarkAudioReady(tbl, j)
           \/ new = MarkReady(tbl, j)
           \/ new = MarkFailed(tbl, j)
  <2>1. CASE i = j
    BY <1>1, <1>5, <2>1 DEF MarkAudioReady, MarkReady, MarkFailed, Row
  <2>2. CASE i # j
    BY <1>1, <1>5, <2>2 DEF MarkAudioReady, MarkReady, MarkFailed
  <2> QED
    BY <2>1, <2>2
<1>6. CASE j \notin DOMAIN tbl /\ new = InsertAwaitingUpload(tbl, j, k, e, t)
  BY <1>1, <1>6 DEF InsertAwaitingUpload
<1> QED
  BY <1>2, <1>3, <1>4, <1>5, <1>6

-----------------------------------------------------------------------------
(* Queue positions.                                                        *)

\* The order of pending_position is total, so of two pending jobs the later
\* one counts every job the earlier one counts, and itself besides.
LEMMA LaterCountsMore ==
  ASSUME NEW tbl, Good(tbl),
         NEW i \in InStatus(tbl, "pending"), NEW j \in InStatus(tbl, "pending"),
         \/ tbl[i].created < tbl[j].created
         \/ tbl[i].created = tbl[j].created /\ i < j
  PROVE  Cardinality(QueuedUpTo(tbl, i)) < Cardinality(QueuedUpTo(tbl, j))
<1> DEFINE Qi == QueuedUpTo(tbl, i)
           Qj == QueuedUpTo(tbl, j)
<1>1. /\ \A h \in InStatus(tbl, "pending") : h \in Nat /\ tbl[h].created \in Nat
      /\ IsFiniteSet(InStatus(tbl, "pending"))
  <2>1. InStatus(tbl, "pending") \subseteq Job
    BY DEF InStatus, Good
  <2>2. IsFiniteSet(InStatus(tbl, "pending"))
    BY <2>1, FS_Subset, JobAssumption
  <2>3. \A h \in InStatus(tbl, "pending") : tbl[h].created \in Nat
    BY MaxTimeAssumption DEF InStatus, Good, RowOK, Row, Time
  <2> QED
    BY <2>1, <2>2, <2>3, JobAssumption
<1>2. Qi \subseteq Qj
  BY <1>1 DEF QueuedUpTo
<1>3. j \in Qj /\ j \notin Qi
  BY <1>1 DEF QueuedUpTo
<1>4. IsFiniteSet(Qj)
  BY <1>1, FS_Subset DEF QueuedUpTo
<1> HIDE DEF Qi, Qj
<1>5. /\ IsFiniteSet(Qi) /\ Cardinality(Qi) <= Cardinality(Qj)
      /\ Cardinality(Qj) # Cardinality(Qi)
  BY <1>2, <1>3, <1>4, FS_Subset
<1>6. Cardinality(Qi) \in Nat /\ Cardinality(Qj) \in Nat
  BY <1>4, <1>5, FS_CardinalityType
<1>7. Cardinality(Qi) < Cardinality(Qj)
  BY <1>5, <1>6
<1> QED
  BY <1>7 DEF Qi, Qj

\* So the positions are an injection of the queue into 1 .. its length, and
\* an injection between finite sets of one size is a surjection.
LEMMA PositionsFill ==
  ASSUME NEW tbl, Good(tbl)
  PROVE  {PendingPosition(tbl, j) : j \in InStatus(tbl, "pending")}
           = 1 .. Cardinality(InStatus(tbl, "pending"))
<1> DEFINE P == InStatus(tbl, "pending")
           n == Cardinality(P)
           f == [j \in P |-> Cardinality(QueuedUpTo(tbl, j))]
<1>1. P \subseteq Job /\ IsFiniteSet(P)
  <2>1. P \subseteq Job
    BY DEF InStatus, Good
  <2> QED
    BY <2>1, FS_Subset, JobAssumption
<1>2. n \in Nat
  BY <1>1, FS_CardinalityType
<1>3. ASSUME NEW j \in P
      PROVE  f[j] \in 1 .. n
  <2> DEFINE Q == QueuedUpTo(tbl, j)
  <2>1. Q \subseteq P
    BY DEF QueuedUpTo
  <2>2. j \in Q
    BY <1>1, JobAssumption DEF QueuedUpTo
  <2> HIDE DEF Q, P
  <2>3. IsFiniteSet(Q) /\ Cardinality(Q) <= n
    BY <1>1, <2>1, FS_Subset
  <2>4. Cardinality(Q) \in Nat /\ Cardinality(Q) # 0
    BY <2>2, <2>3, FS_CardinalityType, FS_EmptySet
  <2>5. f[j] = Cardinality(Q)
    BY DEF Q
  <2> QED
    BY <1>2, <2>3, <2>4, <2>5
<1>4. ASSUME NEW i \in P, NEW j \in P, f[i] = f[j]
      PROVE  i = j
  <2>1. f[i] \in Nat /\ f[j] \in Nat
    BY <1>2, <1>3
  <2>2. ~ (f[i] < f[j]) /\ ~ (f[j] < f[i])
    BY <1>4, <2>1
  <2>3. i \in Nat /\ j \in Nat
    BY <1>1, JobAssumption
  <2>4. tbl[i].created \in Nat /\ tbl[j].created \in Nat
    BY MaxTimeAssumption DEF InStatus, Good, RowOK, Row, Time
  <2>5. ~ (\/ tbl[i].created < tbl[j].created
           \/ tbl[i].created = tbl[j].created /\ i < j)
    BY <2>2, LaterCountsMore
  <2>6. ~ (\/ tbl[j].created < tbl[i].created
           \/ tbl[j].created = tbl[i].created /\ j < i)
    BY <2>2, LaterCountsMore
  <2> QED
    BY <2>3, <2>4, <2>5, <2>6
<1>5. f \in Injection(P, 1 .. n)
  <2> HIDE DEF P, n
  <2>1. f \in [P -> 1 .. n]
    BY <1>3
  <2> QED
    BY <1>4, <2>1 DEF Injection, IsInjective
<1>6. IsFiniteSet(1 .. n) /\ Cardinality(1 .. n) = n
  BY <1>2, FS_Interval
<1>7. f \in Surjection(P, 1 .. n)
  BY <1>5, <1>6, FS_Injection
<1>8. \A j \in P : PendingPosition(tbl, j) = f[j]
  BY DEF PendingPosition
<1>9. {f[j] : j \in P} = 1 .. n
  <2> HIDE DEF P, n, f
  <2>1. f \in [P -> 1 .. n] /\ \A t \in 1 .. n : \E j \in P : f[j] = t
    BY <1>7, Fun_SurjectionProperties
  <2> QED
    BY <2>1
<1> QED
  BY <1>8, <1>9

-----------------------------------------------------------------------------
(* The head of the queue.                                                  *)

\* At most one job heads the queue, and none of it was created before.
LEMMA HeadIsOldest ==
  ASSUME NEW tbl, Good(tbl), NEW j \in ClaimHead(tbl)
  PROVE  /\ ClaimHead(tbl) = {j}
         /\ \A i \in InStatus(tbl, "pending") : tbl[j].created <= tbl[i].created
<1>1. \A i \in InStatus(tbl, "pending") :
        tbl[i].created \in Nat /\ tbl[i].rowid \in Nat
  BY MaxTimeAssumption DEF InStatus, Good, RowOK, Row, Time
<1> QED
  BY <1>1 DEF ClaimHead, ClaimedBefore

\* What ClaimsOldest says of the step from tbl to new.
OldestOnly(tbl, new) ==
  \A j \in DOMAIN tbl :
    tbl[j].status # "processing" /\ new[j].status = "processing"
      => /\ tbl[j].status = "pending"
         /\ \A i \in DOMAIN tbl \ {j} :
              /\ new[i] = tbl[i]
              /\ tbl[i].status = "pending" => tbl[j].created <= tbl[i].created

LEMMA ClaimOldestOnly ==
  ASSUME NEW tbl, Good(tbl)
  PROVE  OldestOnly(tbl, ClaimNext(tbl))
<1> SUFFICES ASSUME NEW j \in DOMAIN tbl, tbl[j].status # "processing",
                    ClaimNext(tbl)[j].status = "processing"
             PROVE  /\ tbl[j].status = "pending"
                    /\ \A i \in DOMAIN tbl \ {j} :
                         /\ ClaimNext(tbl)[i] = tbl[i]
                         /\ tbl[i].status = "pending"
                              => tbl[j].created <= tbl[i].created
  BY DEF OldestOnly
<1>1. j \in ClaimHead(tbl)
  BY DEF ClaimNext
<1>2. /\ ClaimHead(tbl) = {j}
      /\ \A i \in InStatus(tbl, "pending") : tbl[j].created <= tbl[i].created
  BY <1>1, HeadIsOldest
<1>3. tbl[j].status = "pending"
  BY <1>1, ClaimHeadPending DEF InStatus
<1> QED
  BY <1>2, <1>3 DEF ClaimNext, InStatus

\* A statement that hands no job to the worker has nothing to say about claims.
LEMMA NoneOldestOnly ==
  ASSUME NEW tbl, NEW new, DOMAIN tbl \subseteq DOMAIN new,
         InStatus(new, "processing") \subseteq InStatus(tbl, "processing")
  PROVE  OldestOnly(tbl, new)
  BY DEF OldestOnly, InStatus

\* The job of an earlier second than all others in the queue is its first.
LEMMA EarliestIsFirst ==
  ASSUME NEW tbl, Good(tbl), NEW j \in InStatus(tbl, "pending"),
         \A i \in InStatus(tbl, "pending") \ {j} : tbl[j].created < tbl[i].created
  PROVE  PendingPosition(tbl, j) = 1
<1>1. \A i \in InStatus(tbl, "pending") : i \in Nat /\ tbl[i].created \in Nat
  BY JobAssumption, MaxTimeAssumption DEF InStatus, Good, RowOK, Row, Time
<1>2. QueuedUpTo(tbl, j) = {j}
  BY <1>1 DEF QueuedUpTo
<1> QED
  BY <1>2, FS_Singleton DEF PendingPosition, InStatus

-----------------------------------------------------------------------------
(* Inserting.                                                              *)

\* An insert adds its row, or the key has a row already.
LEMMA InsertKeepsRows ==
  ASSUME NEW tbl, NEW j, j \notin DOMAIN tbl, NEW k, NEW e, NEW t
  PROVE  LET new == InsertAwaitingUpload(tbl, j, k, e, t)
         IN  /\ KeepsRows(tbl, new)
             /\ DOMAIN new \subseteq DOMAIN tbl \cup {j}
             /\ FindByKey(tbl, k) = {} => j \in DOMAIN new /\ new[j].key = k
             /\ FindByKey(new, k) # {}
<1>1. CASE FindByKey(tbl, k) # {}
  BY <1>1 DEF InsertAwaitingUpload, KeepsRows
<1>2. CASE FindByKey(tbl, k) = {}
  BY <1>2 DEF InsertAwaitingUpload, KeepsRows, FindByKey
<1> QED
  BY <1>1, <1>2

=============================================================================
