---------------------------- MODULE JobStoreProofs ----------------------------
(***************************************************************************)
(* Proofs about JobStore, for every set of jobs and keys, every time to    *)
(* live and every bound on the clock.  The conjunction of the row          *)
(* properties with the typing of the table is inductive; it is the         *)
(* predicate Good of TranscriptionsProofs, where each statement is shown   *)
(* to preserve it.                                                         *)
(***************************************************************************)
EXTENDS JobStore, TranscriptionsProofs

IInv == Good(table) /\ now \in Time

\* The inductive invariant is the conjunction of the properties.
LEMMA IInvImplies ==
  IInv => /\ TypeOK
          /\ ErrorIffFailed
          /\ DeadlineMatchesStatus
          /\ ReadyHasPath
          /\ OneJobPerKey
  BY DEF IInv, Good, RowOK, TypeOK, IsTable, ErrorIffFailed,
         DeadlineMatchesStatus, ReadyHasPath, OneJobPerKey

-----------------------------------------------------------------------------
(* The inductive invariant.                                                *)

LEMMA InitIInv == Init => IInv
  BY MaxTimeAssumption DEF Init, IInv, Good, EmptyTable, Time

LEMMA NextIInv == IInv /\ [Next]_vars => IInv'
<1> SUFFICES ASSUME IInv, [Next]_vars
             PROVE  IInv'
  OBVIOUS
<1> USE DEF IInv, Rewritten
<1>1. CASE Tick
  BY <1>1, MaxTimeAssumption DEF Tick, Time
<1>2. CASE Reset
  BY <1>2, ResetRewrites DEF Reset
<1>3. CASE Claim
  BY <1>3, ClaimRewrites DEF Claim
<1>4. ASSUME NEW t \in Time, Expire(t)
      PROVE  IInv'
  BY <1>4, ExpireRewrites DEF Expire
<1>5. ASSUME NEW j \in Job, AudioReady(j)
      PROVE  IInv'
  BY <1>5, AudioReadyRewrites DEF AudioReady
<1>6. ASSUME NEW j \in Job, Ready(j)
      PROVE  IInv'
  BY <1>6, ReadyRewrites DEF Ready
<1>7. ASSUME NEW j \in Job, Fail(j)
      PROVE  IInv'
  BY <1>7, FailRewrites DEF Fail
<1>8. ASSUME NEW j \in Job, NEW e \in Deadline, Requeue(j, e)
      PROVE  IInv'
  BY <1>8, RequeueRewrites DEF Requeue
<1>9. ASSUME NEW j \in Job, NEW e \in Deadline, Return(j, e)
      PROVE  IInv'
  BY <1>9, ReturnRewrites DEF Return
<1>10. ASSUME NEW j \in Job, NEW e \in Deadline, NEW k \in Key, Insert(j, k, e)
       PROVE  IInv'
  BY <1>10, InsertGood DEF Insert
<1>11. CASE UNCHANGED vars
  BY <1>11 DEF vars
<1> QED
  BY <1>1, <1>2, <1>3, <1>4, <1>5, <1>6, <1>7, <1>8, <1>9, <1>10, <1>11 DEF Next

LEMMA SpecIInv == Spec => []IInv
  BY InitIInv, NextIInv, PTL DEF Spec

\* Every row has columns of the declared kinds, whatever statements are run.
THEOREM Typing == Spec => []TypeOK
  BY SpecIInv, IInvImplies, PTL

\* No sequence of statements leaves an error on a job that is not failed, or
\* a failed job without one.
THEOREM ErrorColumn == Spec => []ErrorIffFailed
  BY SpecIInv, IInvImplies, PTL

\* A job waiting for an upload has a deadline, a job past its upload none.
THEOREM DeadlineColumn == Spec => []DeadlineMatchesStatus
  BY SpecIInv, IInvImplies, PTL

\* A ready row names a transcript, so api.rs:461-463 never answers.
THEOREM PathColumn == Spec => []ReadyHasPath
  BY SpecIInv, IInvImplies, PTL

\* There is never more than one job for a key.
THEOREM UniqueKeys == Spec => []OneJobPerKey
  BY SpecIInv, IInvImplies, PTL

\* Clients are told positions 1, 2, ... without gap or repetition.
THEOREM Positions == Spec => []PositionsNumberTheQueue
<1>1. IInv => PositionsNumberTheQueue
  BY PositionsFill DEF IInv, PositionsNumberTheQueue
<1> QED
  BY <1>1, SpecIInv, PTL

LEMMA NextOldestOnly ==
  ASSUME IInv, [Next]_vars
  PROVE  OldestOnly(table, table')
<1>1. ASSUME Next
      PROVE  OldestOnly(table, table')
  <2>1. Good(table)
    BY DEF IInv
  <2>2. CASE Claim
    BY <2>1, <2>2, ClaimOldestOnly DEF Claim
  <2>3. CASE ~Claim
    <3>1. InStatus(table', "processing") \subseteq InStatus(table, "processing")
      BY <1>1, <2>1, <2>3, OnlyClaims DEF Next, Tick, Reset, Expire, AudioReady,
         Ready, Fail, Requeue, Return, Insert
    <3>2. DOMAIN table \subseteq DOMAIN table'
      BY <1>1 DEF Next, Tick, Reset, Claim, Expire, AudioReady, Ready, Fail,
         Requeue, Return, Insert, ResetProcessing, ClaimNext, ExpireUploads,
         MarkAudioReady, MarkReady, MarkFailed, RequeueFailed,
         ReturnToAwaitingUpload, InsertAwaitingUpload
    <3> QED
      BY <3>1, <3>2, NoneOldestOnly
  <2> QED
    BY <2>2, <2>3
<1>2. UNCHANGED vars => OldestOnly(table, table')
  BY DEF vars, OldestOnly
<1> QED
  BY <1>1, <1>2

\* No statement but claim_next moves a job to the worker, and that one moves
\* a single job, the oldest.
THEOREM Claims == Spec => ClaimsOldest
<1>1. IInv /\ [Next]_vars =>
        [\A j \in DOMAIN table :
           table[j].status # "processing" /\ table'[j].status = "processing"
             => /\ table[j].status = "pending"
                /\ \A i \in DOMAIN table \ {j} :
                     /\ table'[i] = table[i]
                     /\ table[i].status = "pending"
                          => table[j].created <= table[i].created]_vars
  BY NextOldestOnly DEF OldestOnly
<1> QED
  BY <1>1, SpecIInv, PTL DEF Spec, ClaimsOldest

\* Ties of one second are all that keeps FirstInQueueIsClaimed from holding: a
\* job claimed while no other queued job was created in its second is the one
\* whose reported position is 1 (db.rs:164-178, 213-228).
THEOREM FirstUnlessTied ==
  Spec => [][\A j \in DOMAIN table :
               /\ table[j].status = "pending" /\ table'[j].status = "processing"
               /\ \A i \in InStatus(table, "pending") \ {j} :
                    table[i].created # table[j].created
               => PendingPosition(table, j) = 1]_vars
<1> DEFINE First ==
      \A j \in DOMAIN table :
        /\ table[j].status = "pending" /\ table'[j].status = "processing"
        /\ \A i \in InStatus(table, "pending") \ {j} :
             table[i].created # table[j].created
        => PendingPosition(table, j) = 1
<1>1. ASSUME IInv, OldestOnly(table, table')
      PROVE  First
  <2> SUFFICES ASSUME NEW j \in DOMAIN table, table[j].status = "pending",
                      table'[j].status = "processing",
                      \A i \in InStatus(table, "pending") \ {j} :
                        table[i].created # table[j].created
               PROVE  PendingPosition(table, j) = 1
    OBVIOUS
  <2>1. Good(table)
    BY <1>1 DEF IInv
  <2>2. \A i \in InStatus(table, "pending") : table[i].created \in Nat
    BY <2>1, MaxTimeAssumption DEF InStatus, Good, RowOK, Row, Time
  <2>3. j \in InStatus(table, "pending")
    BY DEF InStatus
  <2>4. \A i \in InStatus(table, "pending") \ {j} : table[j].created <= table[i].created
    BY <1>1 DEF OldestOnly, InStatus
  <2>5. \A i \in InStatus(table, "pending") \ {j} : table[j].created < table[i].created
    BY <2>2, <2>3, <2>4
  <2> QED
    BY <2>1, <2>3, <2>5, EarliestIsFirst
<1>2. IInv /\ [Next]_vars => [First]_vars
  BY <1>1, NextOldestOnly
<1> QED
  BY <1>2, SpecIInv, PTL DEF Spec

=============================================================================
