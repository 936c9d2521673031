-------------------------- MODULE ProgressPollProofs --------------------------
(***************************************************************************)
(* Proofs about ProgressPoll, for any jobs, keys, time to live and bound   *)
(* on the clock.                                                           *)
(*                                                                         *)
(* ProgressPoll watches JobStore, so its behaviours are behaviours of      *)
(* JobStore (StepsOfJobStore) and the invariant of JobStoreProofs comes    *)
(* with them.  What is added is about claims: nothing is stamped later     *)
(* than now, and while WhisperX has a job it makes no other claim.         *)
(***************************************************************************)
EXTENDS ProgressPoll, JobStoreProofs

\* The part of the invariant that is about the loop.
LoopOK ==
  /\ active \in Job \cup {NoJob}
  /\ poll \in {"find", "fetch"} /\ (poll = "fetch" => active # NoJob)
  /\ shown \subseteq {active}

\* The part that is about claims.
ClaimsOK ==
  /\ busy \in Job \cup {NoJob}
  /\ updated \in [Job -> Time]
  /\ \A i \in Job : updated[i] <= now
  /\ \A i \in Job \ InStatus(table, "processing") : updated[i] = 0
  /\ WorkIsClaimedLast

PInv == LoopOK /\ ClaimsOK

LEMMA PInvImplies == IInv /\ PInv => PollTypeOK /\ WorkIsClaimedLast
<1> SUFFICES ASSUME IInv, PInv
             PROVE  PollTypeOK /\ WorkIsClaimedLast
  OBVIOUS
<1>1. updated \in [Job -> 0 .. now]
  <2>1. now \in Nat /\ Time \subseteq Nat
    BY MaxTimeAssumption DEF IInv, Time
  <2>2. ASSUME NEW i \in Job
        PROVE  updated[i] \in 0 .. now
    <3>1. updated[i] \in Nat /\ updated[i] <= now
      BY <2>1 DEF PInv, ClaimsOK
    <3> QED
      BY <2>1, <3>1
  <2> QED
    BY <2>2 DEF PInv, ClaimsOK
<1> QED
  BY <1>1, IInvImplies DEF PInv, LoopOK, ClaimsOK, PollTypeOK

-----------------------------------------------------------------------------
(* The table and the clock.                                                *)

LEMMA StepIsJobStore ==
  ASSUME PollNext \/ UNCHANGED pollVars
  PROVE  Next \/ UNCHANGED vars
<1>1. ASSUME Find \/ FetchShown \/ FetchNothing \/ Drop \/ \E j \in Job : Clear(j)
      PROVE  UNCHANGED vars
  BY <1>1 DEF Find, FetchShown, FetchNothing, Drop, Clear
<1>2. CASE ClaimNextJob
  BY <1>2 DEF ClaimNextJob, Next
<1>3. CASE Statement
  BY <1>3 DEF Statement, Next
<1>4. CASE UNCHANGED pollVars
  BY <1>4 DEF pollVars, vars
<1> QED
  BY <1>1, <1>2, <1>3, <1>4 DEF PollNext

\* The loop only reads the table, and WhisperX changes it as a caller of the
\* statements: the theorems about JobStore hold here.
THEOREM StepsOfJobStore == PollSpec => Spec
<1>1. PollInit => Init
  BY DEF PollInit
<1>2. [PollNext]_pollVars => [Next]_vars
  BY StepIsJobStore
<1> QED
  BY <1>1, <1>2, PTL DEF PollSpec, Spec

-----------------------------------------------------------------------------
(* The inductive invariant.                                                *)

LEMMA InitPInv == PollInit => PInv
<1> SUFFICES ASSUME PollInit
             PROVE  PInv
  OBVIOUS
<1>1. LoopOK
  BY DEF PollInit, LoopOK
<1>2. updated \in [Job -> Time] /\ \A i \in Job : updated[i] <= now /\ updated[i] = 0
  BY MaxTimeAssumption DEF PollInit, Init, Time
<1>3. WorkIsClaimedLast
  BY JobAssumption DEF PollInit, WorkIsClaimedLast, AtWork, NoJob
<1> QED
  BY <1>1, <1>2, <1>3 DEF PInv, ClaimsOK, PollInit

LEMMA LoopStep ==
  ASSUME IInv, PInv, PollNext \/ UNCHANGED pollVars
  PROVE  LoopOK'
<1> USE DEF PInv, LoopOK
<1>1. CASE Find
  <2>1. \A j \in OldestProcessing : j \in Job /\ j # NoJob
    BY JobAssumption DEF OldestProcessing, InStatus, IInv, Good, NoJob
  <2>2. shown' \subseteq {active'}
    BY <1>1 DEF Find, Unwatch
  <2> QED
    BY <1>1, <2>1, <2>2 DEF Find
<1>2. CASE FetchShown \/ FetchNothing \/ Drop
  BY <1>2 DEF FetchShown, FetchNothing, Drop, loopVars
<1>3. CASE ClaimNextJob \/ Statement
  BY <1>3 DEF ClaimNextJob, Statement, loopVars
<1>4. ASSUME NEW j \in Job, Clear(j)
      PROVE  LoopOK'
  BY <1>4 DEF Clear, loopVars
<1>5. CASE UNCHANGED pollVars
  BY <1>5 DEF pollVars
<1> QED
  BY <1>1, <1>2, <1>3, <1>4, <1>5 DEF PollNext

\* What Stamp leaves in a row at the worker: the time of its claim.
LEMMA Stamped ==
  ASSUME IInv, IInv', ClaimsOK, Stamp, now <= now'
  PROVE  /\ updated' \in [Job -> Time]
         /\ \A i \in Job : updated'[i] <= now'
         /\ \A i \in Job \ InStatus(table', "processing") : updated'[i] = 0
         /\ \A i \in Job : i \in InStatus(table', "processing")
              => updated'[i] = IF i \in InStatus(table, "processing")
                               THEN updated[i] ELSE now
<1>1. now \in Nat /\ now' \in Nat /\ now \in Time /\ 0 \in Time /\ Time \subseteq Nat
  BY MaxTimeAssumption DEF IInv, Time
<1>2. \A i \in Job : updated[i] \in Time /\ updated[i] <= now
  BY DEF ClaimsOK
<1>3. ASSUME NEW i \in Job
      PROVE  updated'[i] = IF i \notin InStatus(table', "processing") THEN 0
                           ELSE IF i \in InStatus(table, "processing")
                                THEN updated[i] ELSE now
  BY DEF Stamp
<1>4. updated' = [i \in Job |-> updated'[i]]
  BY DEF Stamp
<1>5. ASSUME NEW i \in Job
      PROVE  updated'[i] \in Time /\ updated'[i] <= now'
  <2>1. updated'[i] \in {0, updated[i], now}
    BY <1>3
  <2>2. 0 <= now' /\ updated[i] <= now'
    <3>1. updated[i] \in Nat /\ updated[i] <= now
      BY <1>1, <1>2
    <3> QED
      BY <1>1, <3>1
  <2> QED
    BY <1>1, <1>2, <2>1, <2>2
<1> QED
  BY <1>3, <1>4, <1>5

\* A claim made when WhisperX has no job is later than all it made before.
LEMMA ClaimStep ==
  ASSUME IInv, IInv', ClaimsOK, ClaimNextJob
  PROVE  ClaimsOK'
<1>1. /\ now' = now /\ table' = ClaimNext(table) /\ Stamp
      /\ busy' \in IF ClaimHead(table) = {} THEN {NoJob} ELSE ClaimHead(table)
  BY DEF ClaimNextJob, Claim
<1>2. now \in Nat
  BY MaxTimeAssumption DEF IInv, Time
<1>3. /\ updated' \in [Job -> Time]
      /\ \A i \in Job : updated'[i] <= now'
      /\ \A i \in Job \ InStatus(table', "processing") : updated'[i] = 0
      /\ \A i \in Job : i \in InStatus(table', "processing")
           => updated'[i] = IF i \in InStatus(table, "processing")
                            THEN updated[i] ELSE now
  BY <1>1, <1>2, Stamped
<1>4. \A j \in ClaimHead(table) : j \in Job /\ j \notin InStatus(table, "processing")
  BY ClaimHeadPending DEF InStatus, IInv, Good
<1>5. busy' \in Job \cup {NoJob}
  BY <1>1, <1>4
<1>6. ASSUME NEW j \in Job, AtWork(j)'
      PROVE  \A i \in InStatus(table', "processing") : updated'[i] <= updated'[j]
  <2>1. j \in ClaimHead(table)
    BY <1>1, <1>6, JobAssumption DEF AtWork, NoJob
  <2>2. updated'[j] = now'
    BY <1>1, <1>3, <1>4, <1>6, <2>1 DEF AtWork
  <2>3. InStatus(table', "processing") \subseteq Job
    BY DEF InStatus, IInv, Good
  <2> QED
    BY <1>3, <2>2, <2>3
<1> QED
  BY <1>3, <1>5, <1>6 DEF ClaimsOK, WorkIsClaimedLast

\* Any other statement hands no job to the worker.
LEMMA StatementStep ==
  ASSUME IInv, IInv', ClaimsOK, Statement
  PROVE  ClaimsOK'
<1>1. Stamp /\ busy' = busy
  BY DEF Statement
<1>2. now \in Nat /\ now' \in Nat /\ now <= now'
  BY MaxTimeAssumption
     DEF Statement, IInv, Time, Tick, Expire, AudioReady, Ready, Fail, Requeue,
         Return, Insert
<1>3. /\ updated' \in [Job -> Time]
      /\ \A i \in Job : updated'[i] <= now'
      /\ \A i \in Job \ InStatus(table', "processing") : updated'[i] = 0
      /\ \A i \in Job : i \in InStatus(table', "processing")
           => updated'[i] = IF i \in InStatus(table, "processing")
                            THEN updated[i] ELSE now
  BY <1>1, <1>2, Stamped
<1>4. InStatus(table', "processing") \subseteq InStatus(table, "processing")
  BY OnlyClaims
     DEF Statement, IInv, Tick, Expire, AudioReady, Ready, Fail, Requeue, Return,
         Insert
<1>5. InStatus(table', "processing") \subseteq Job
  BY DEF InStatus, IInv, Good
<1>6. \A i \in InStatus(table', "processing") : updated'[i] = updated[i]
  BY <1>3, <1>4, <1>5
<1>7. WorkIsClaimedLast'
  BY <1>1, <1>4, <1>6 DEF ClaimsOK, WorkIsClaimedLast, AtWork
<1> QED
  BY <1>1, <1>3, <1>7 DEF ClaimsOK

LEMMA NextPInv == IInv /\ IInv' /\ PInv /\ [PollNext]_pollVars => PInv'
<1> SUFFICES ASSUME IInv, IInv', PInv, [PollNext]_pollVars
             PROVE  PInv'
  OBVIOUS
<1>1. ClaimsOK
  BY DEF PInv
<1>2. CASE ClaimNextJob \/ Statement
  BY <1>1, <1>2, ClaimStep, StatementStep, LoopStep DEF PInv, PollNext
<1>3. CASE Drop
  <2>1. busy' = NoJob /\ UNCHANGED <<table, now, updated>>
    BY <1>3 DEF Drop, vars
  <2>2. WorkIsClaimedLast'
    BY <2>1, JobAssumption DEF WorkIsClaimedLast, AtWork, NoJob
  <2>3. ClaimsOK'
    BY <1>1, <2>1, <2>2 DEF ClaimsOK
  <2> QED
    BY <1>3, <2>3, LoopStep DEF PInv, PollNext
<1>4. CASE \/ Find \/ FetchShown \/ FetchNothing
           \/ \E j \in Job : Clear(j)
           \/ UNCHANGED pollVars
  <2>1. UNCHANGED <<table, now, updated, busy>>
    BY <1>4 DEF Find, FetchShown, FetchNothing, Clear, vars, pollVars
  <2>2. ClaimsOK'
    BY <1>1, <2>1 DEF ClaimsOK, WorkIsClaimedLast, AtWork
  <2> QED
    BY <1>4, <2>2, LoopStep DEF PInv, PollNext
<1> QED
  BY <1>2, <1>3, <1>4 DEF PollNext

LEMMA PollInvariant == PollSpec => [](IInv /\ PInv)
<1>1. PollInit => IInv
  BY InitIInv DEF PollInit
<1>2. IInv /\ [PollNext]_pollVars => IInv'
  BY NextIInv, StepIsJobStore
<1> QED
  BY <1>1, <1>2, InitPInv, NextPInv, PTL DEF PollSpec

\* The map holds a snapshot of no job but the one polled, the loop polls only
\* jobs it has found (worker.rs:45-65), and no date of a claim is in the
\* future or outlives the claim.
THEOREM PollTyping == PollSpec => []PollTypeOK
  BY PollInvariant, PInvImplies, PTL

\* However jobs are lost, failed, returned and claimed again, the job WhisperX
\* works on is the last one the loop turns to (db.rs:180-189): every job that is
\* left at the worker beside it hides its progress.
THEOREM WorkIsFoundLast == PollSpec => []WorkIsClaimedLast
  BY PollInvariant, PInvImplies, PTL

=============================================================================
