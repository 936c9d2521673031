---------------------------- MODULE LifecycleProofs ----------------------------
(***************************************************************************)
(* Proofs about Lifecycle, for any keys and addresses that .env may hold.  *)
(*                                                                         *)
(* RoutesApart is not inductive: it says nothing of a process that has not *)
(* bound its address yet.  What every process carries with it is that its  *)
(* Config was accepted when it was read, so its own two keys differ, and   *)
(* its listener keeps a process with other keys from the same address.     *)
(***************************************************************************)
EXTENDS Lifecycle, TLAPS

ReadAccepted == \A p \in Process : Accepted(conf[p])

\* Two processes that serve, if they are two, serve at two addresses.
Disjoint(q, r) == Serves(q) /\ Serves(r) /\ conf[q].bind = conf[r].bind => q = r

LInv == LifeTypeOK /\ ReadAccepted

LEMMA LInvImplies == LInv => LifeTypeOK /\ RoutesApart
<1> SUFFICES ASSUME LInv
             PROVE  RoutesApart
  BY DEF LInv
<1> SUFFICES ASSUME NEW key \in Secret, NEW p \in Process, NEW q \in Process,
                    OpensClientRoutes(p, key), OpensWorkerRoutes(q, key),
                    conf[p].bind = conf[q].bind
             PROVE  FALSE
  BY DEF RoutesApart
<1>1. p = q
  BY DEF LInv, LifeTypeOK, OpensClientRoutes, OpensWorkerRoutes
<1>2. conf[p].api # conf[p].worker
  BY DEF LInv, ReadAccepted, Accepted
<1> QED
  BY <1>1, <1>2 DEF OpensClientRoutes, OpensWorkerRoutes

LEMMA InitLInv == LifeInit => LInv
  BY DEF LifeInit, LInv, LifeTypeOK, ReadAccepted, Process, Environment, Serves

\* The end of a process, whichever way it comes, frees its address and its loop.
LEMMA EndKeeps ==
  ASSUME LInv, NEW p \in Process, NEW how \in {"failure", "success"}, End(p, how)
  PROVE  LInv'
<1> USE DEF LInv, LifeTypeOK, Serves, Disjoint
<1>1. /\ state' = [state EXCEPT ![p] = "down"] /\ loop' = [loop EXCEPT ![p] = "none"]
      /\ outcome' \in {outcome, how} /\ UNCHANGED <<env, conf>>
  BY DEF End, Enter
<1>2. \A q \in Process : loop'[q] = "none" <=> state'[q] \in {"down", "connecting"}
  BY <1>1
<1>3. \A q, r \in Process : Disjoint(q, r)'
  BY <1>1
<1> QED
  BY <1>1, <1>2, <1>3 DEF ReadAccepted, Accepted

\* A step of main that ends no process.
LEMMA MainKeeps ==
  ASSUME LInv, NEW p \in Process,
         Launch(p) \/ Connect(p) \/ Bind(p) \/ StartupError(p) \/ Signal(p)
  PROVE  LInv'
<1> USE DEF LInv, LifeTypeOK, Serves, Disjoint
<1>1. CASE \E how \in {"failure", "success"} : End(p, how)
  BY <1>1, EndKeeps
<1>2. CASE Launch(p) /\ ~End(p, "failure")
  <2>1. /\ state[p] = "down" /\ state' = [state EXCEPT ![p] = "connecting"]
        /\ Accepted(env) /\ conf' = [conf EXCEPT ![p] = env]
        /\ UNCHANGED <<env, loop, outcome>>
    BY <1>2 DEF Launch, Enter
  <2>2. ReadAccepted'
    BY <2>1 DEF ReadAccepted, Accepted
  <2>3. \A q \in Process : loop'[q] = "none" <=> state'[q] \in {"down", "connecting"}
    BY <2>1
  <2>4. \A q, r \in Process : Disjoint(q, r)'
    BY <2>1
  <2> QED
    BY <2>1, <2>2, <2>3, <2>4
<1>3. CASE Connect(p)
  <2>1. \A q, r \in Process : Disjoint(q, r)'
    BY <1>3 DEF Connect, Enter
  <2> QED
    BY <1>3, <2>1 DEF Connect, Enter, ReadAccepted, Accepted
<1>4. CASE Bind(p)
  <2>1. \A q, r \in Process : Disjoint(q, r)'
    BY <1>4 DEF Bind, Enter, Taken
  <2> QED
    BY <1>4, <2>1 DEF Bind, Enter, ReadAccepted, Accepted
<1>5. CASE Serves(p) /\ Enter(p, "draining") /\ UNCHANGED <<env, conf, loop, outcome>>
  <2>1. \A q, r \in Process : Disjoint(q, r)'
    BY <1>5 DEF Enter
  <2> QED
    BY <1>5, <2>1 DEF Enter, ReadAccepted, Accepted
<1> QED
  BY <1>1, <1>2, <1>3, <1>4, <1>5 DEF StartupError, Signal

LEMMA NextLInv == LInv /\ [LifeNext]_lifeVars => LInv'
<1> SUFFICES ASSUME LInv, [LifeNext]_lifeVars
             PROVE  LInv'
  OBVIOUS
<1>1. CASE Relaunch
  BY <1>1, MainKeeps DEF Relaunch, Process
<1>2. ASSUME NEW p \in Process, StartByHand(p)
      PROVE  LInv'
  BY <1>2, MainKeeps DEF StartByHand
<1>3. ASSUME NEW p \in Process,
             Connect(p) \/ Bind(p) \/ StartupError(p) \/ Signal(p)
      PROVE  LInv'
  BY <1>3, MainKeeps
<1>4. ASSUME NEW p \in Process, Drained(p) \/ Crash(p)
      PROVE  LInv'
  BY <1>4, EndKeeps DEF Drained, Crash
<1>5. CASE EditEnv
  BY <1>5 DEF EditEnv, LInv, LifeTypeOK, ReadAccepted, Accepted, Serves
<1>6. ASSUME NEW p \in Process, LoopReset(p)
      PROVE  LInv'
  BY <1>6 DEF LoopReset, LInv, LifeTypeOK, ReadAccepted, Accepted, Serves
<1>7. CASE UNCHANGED lifeVars
  BY <1>7 DEF lifeVars, LInv, LifeTypeOK, ReadAccepted, Accepted, Serves
<1> QED
  BY <1>1, <1>2, <1>3, <1>4, <1>5, <1>6, <1>7 DEF LifeNext

LEMMA SpecLInv == LifeSpec => []LInv
  BY InitLInv, NextLInv, PTL DEF LifeSpec

\* A process that listens or waits for its address has spawned its loop, no loop
\* outlives its process, and an address has one listener (main.rs:39-61).
THEOREM LifeTyping == LifeSpec => []LifeTypeOK
  BY SpecLInv, LInvImplies, PTL

\* Whatever is written into .env, its address included, and whenever processes
\* are started, crash or drain, no key opens client and internal routes alike
\* at one address (config.rs:40-44).
THEOREM KeysStayApart == LifeSpec => []RoutesApart
  BY SpecLInv, LInvImplies, PTL

=============================================================================
