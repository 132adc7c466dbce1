----------------------- MODULE DeliveryWorker_proofs -----------------------
(***************************************************************************)
(* For any number of commands, worker processes, requests and faults: the  *)
(* worker lock lets one worker tick at a time, and only a fault can leave  *)
(* a pending request with nobody to look after it.                         *)
(***************************************************************************)
EXTENDS DeliveryWorker, TLAPS

-----------------------------------------------------------------------------
\* Every step of ensure_worker, run_worker and a death keeps the variables
\* within their types.
THEOREM TypeCorrect == Spec => []TypeOK
<1>1. Init => TypeOK
  BY ActorsDistinct, BoundsKnown DEF Init, TypeOK, Procs, ClientPCs, WorkerPCs
<1>2. TypeOK /\ [Next]_vars => TypeOK'
  <2> SUFFICES ASSUME TypeOK, [Next]_vars
               PROVE  TypeOK'
    OBVIOUS
  <2> USE ActorsDistinct, BoundsKnown DEF TypeOK, Procs, ClientPCs, WorkerPCs
  <2>1. ASSUME NEW c \in Clients, Hold(c)
        PROVE  TypeOK'
    BY <2>1 DEF Hold
  <2>2. ASSUME NEW c \in Clients, Nudge(c)
        PROVE  TypeOK'
    BY <2>2 DEF Nudge
  <2>3. ASSUME NEW c \in Clients, ProbeBusy(c)
        PROVE  TypeOK'
    BY <2>3 DEF ProbeBusy, RoundDone, AfterRound
  <2>4. ASSUME NEW c \in Clients, ProbeFree(c)
        PROVE  TypeOK'
    BY <2>4 DEF ProbeFree
  <2>5. ASSUME NEW c \in Clients, ProbeEnds(c)
        PROVE  TypeOK'
    BY <2>5 DEF ProbeEnds
  <2>6. ASSUME NEW c \in Clients, SpawnWorker(c)
        PROVE  TypeOK'
    BY <2>6 DEF SpawnWorker, RoundDone, AfterRound
  <2>7. ASSUME NEW c \in Clients, SpawnFails(c)
        PROVE  TypeOK'
    BY <2>7 DEF SpawnFails
  <2>8. ASSUME NEW w \in Workers, WorkerStep(w)
        PROVE  TypeOK'
    BY <2>8 DEF WorkerStep, TakeLock, Tick, CheckQueue, DropLock, Recheck
  <2>9. CASE ClosedElsewhere
    BY <2>9 DEF ClosedElsewhere
  <2>10. ASSUME NEW p \in Procs, Die(p)
         PROVE  TypeOK'
    BY <2>10 DEF Die
  <2>11. CASE UNCHANGED vars
    BY <2>11 DEF vars
  <2>12. QED
    BY <2>1, <2>2, <2>3, <2>4, <2>5, <2>6, <2>7, <2>8, <2>9, <2>10, <2>11
    DEF Next, ClientStep
<1>3. QED
  BY <1>1, <1>2, PTL DEF Spec

-----------------------------------------------------------------------------
\* The process inside delivery-worker.lock is the one that owns it, so two
\* workers never tick at once: _worker_lock is asked with LOCK_NB, and a
\* finished or dead owner leaves it free.
THEOREM OneTickerHolds == Spec => []OneTicker
<1>1. Init => OneTicker
  BY ActorsDistinct DEF Init, OneTicker, LockPCs, Procs
<1>2. TypeOK /\ OneTicker /\ [Next]_vars => OneTicker'
  <2> SUFFICES ASSUME TypeOK, OneTicker, [Next]_vars
               PROVE  OneTicker'
    OBVIOUS
  <2> USE ActorsDistinct DEF TypeOK, OneTicker, LockPCs, Procs
  <2>1. ASSUME NEW c \in Clients, ClientStep(c)
        PROVE  OneTicker'
    <3>1. CASE Hold(c) \/ Nudge(c) \/ ProbeBusy(c)
      BY <3>1 DEF Hold, Nudge, ProbeBusy, AfterRound
    <3>2. CASE ProbeFree(c)
      BY <3>2 DEF ProbeFree
    <3>3. CASE ProbeEnds(c)
      BY <3>3 DEF ProbeEnds
    <3>4. CASE SpawnWorker(c)
      BY <3>4 DEF SpawnWorker, AfterRound
    <3>5. CASE SpawnFails(c)
      BY <3>5 DEF SpawnFails
    <3>6. QED
      BY <2>1, <3>1, <3>2, <3>3, <3>4, <3>5 DEF ClientStep
  <2>2. ASSUME NEW w \in Workers, WorkerStep(w)
        PROVE  OneTicker'
    <3>1. CASE TakeLock(w)
      BY <3>1 DEF TakeLock
    <3>2. CASE Tick(w) \/ CheckQueue(w)
      BY <3>2 DEF Tick, CheckQueue
    <3>3. CASE DropLock(w)
      BY <3>3 DEF DropLock
    <3>4. CASE Recheck(w)
      BY <3>4 DEF Recheck
    <3>5. QED
      BY <2>2, <3>1, <3>2, <3>3, <3>4 DEF WorkerStep
  <2>3. ASSUME NEW p \in Procs, Die(p)
        PROVE  OneTicker'
    BY <2>3 DEF Die
  <2>4. CASE ClosedElsewhere \/ UNCHANGED vars
    BY <2>4 DEF ClosedElsewhere, vars
  <2>5. QED
    BY <2>1, <2>2, <2>3, <2>4 DEF Next
<1>3. QED
  BY <1>1, <1>2, TypeCorrect, PTL DEF Spec

-----------------------------------------------------------------------------
\* Whoever finds the lock busy leaves the queue to its owner, and an owner
\* still has the queue, or a spawn, before it.
LEMMA OwnerResponsible ==
  ASSUME TypeOK, OneTicker, owner # NoOne
  PROVE  owner \in Procs /\ Responsible(owner)
BY DEF TypeOK, OneTicker, LockPCs, Responsible

\* A step that is not a fault keeps somebody responsible while the queue is
\* not empty: the probe that meets a busy lock and the spawned worker that
\* meets a probe leave the queue to the owner, and the worker that goes idle
\* reads the queue once more.
LEMMA StepKeepsWatch ==
  ASSUME TypeOK, OneTicker, Next, faults' # faults + 1, ~Stranded
  PROVE  ~Stranded'
<1> SUFFICES ASSUME queue' # {}
             PROVE  \E p \in Procs : Responsible(p)'
  BY DEF Stranded
<1> USE ActorsDistinct DEF TypeOK, Procs, Responsible
<1>1. ASSUME NEW c \in Clients, ClientStep(c)
      PROVE  \E p \in Procs : Responsible(p)'
  <2>1. CASE Hold(c) \/ Nudge(c) \/ ProbeFree(c) \/ ProbeEnds(c)
    BY <2>1 DEF Hold, Nudge, ProbeFree, ProbeEnds
  <2>2. CASE ProbeBusy(c)
    <3>1. owner \in Procs /\ owner # c
      BY <2>2, OwnerResponsible DEF ProbeBusy, OneTicker, LockPCs
    <3>2. Responsible(owner)
      BY <2>2, OwnerResponsible DEF ProbeBusy
    <3>3. pc'[owner] = pc[owner]
      BY <2>2, <3>1 DEF ProbeBusy
    <3>4. QED
      BY <3>1, <3>2, <3>3
  <2>3. CASE SpawnWorker(c)
    <3>1. PICK w \in Workers :
             pc' = [pc EXCEPT ![w] = "starting", ![c] = AfterRound(c)]
      BY <2>3 DEF SpawnWorker
    <3>2. pc'[w] = "starting"
      BY <3>1
    <3>3. QED
      BY <3>2
  <2>4. CASE SpawnFails(c)
    BY <2>4 DEF SpawnFails
  <2>5. QED
    BY <1>1, <2>1, <2>2, <2>3, <2>4 DEF ClientStep
<1>2. ASSUME NEW w \in Workers, WorkerStep(w)
      PROVE  \E p \in Procs : Responsible(p)'
  <2>1. CASE TakeLock(w) /\ owner # NoOne
    <3>1. owner \in Procs /\ owner # w
      BY <2>1, OwnerResponsible DEF TakeLock, OneTicker, LockPCs
    <3>2. Responsible(owner)
      BY <2>1, OwnerResponsible
    <3>3. pc'[owner] = pc[owner]
      BY <2>1, <3>1 DEF TakeLock
    <3>4. QED
      BY <3>1, <3>2, <3>3
  <2>2. CASE TakeLock(w) /\ owner = NoOne
    BY <2>2 DEF TakeLock
  <2>3. CASE Tick(w) \/ CheckQueue(w) \/ DropLock(w)
    BY <2>3 DEF Tick, CheckQueue, DropLock
  <2>4. CASE Recheck(w)
    BY <2>4 DEF Recheck
  <2>5. QED
    BY <1>2, <2>1, <2>2, <2>3, <2>4 DEF WorkerStep
<1>3. CASE ClosedElsewhere
  BY <1>3 DEF ClosedElsewhere, Stranded
<1>4. ASSUME NEW p \in Procs, Die(p)
      PROVE  FALSE
  BY <1>4 DEF Die
<1>5. QED
  BY <1>1, <1>2, <1>3, <1>4 DEF Next

\* Only a death or a failed spawn strands a pending request.
THEOREM OnlyFaultsStrandHolds == Spec => OnlyFaultsStrand
<1>1. TypeOK /\ OneTicker /\ [Next]_vars
      => [~Stranded /\ Stranded' => faults' = faults + 1]_vars
  BY StepKeepsWatch
<1>2. QED
  BY <1>1, TypeCorrect, OneTickerHolds, PTL DEF Spec, OnlyFaultsStrand
=============================================================================
