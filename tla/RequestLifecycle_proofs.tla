---------------------- MODULE RequestLifecycle_proofs ----------------------
(***************************************************************************)
(* Proofs about RequestLifecycle, for every number of processes, occupants *)
(* and deaths, in four parts:                                              *)
(*                                                                         *)
(*   1. types: every variable keeps its type (TypeCorrect);                *)
(*   2. safety: the inductive invariant IInv and what it implies;          *)
(*   3. steps: what a step may do to the record (RecordMove), and with it  *)
(*      the action properties and the promise of HeldDelivery;             *)
(*   4. evidence: what a settled request proves.                           *)
(*                                                                         *)
(* The argument of part 2: whoever is inside the record's lock works on    *)
(* the record as it is on disk, and the caller's unlocked part runs before *)
(* anybody else can know the record.  So the facts a process established   *)
(* when it took the lock (still held, not yet sent, not terminal) hold     *)
(* until its own next save, and a held record has no prompt behind it.     *)
(***************************************************************************)
EXTENDS RequestLifecycle, TLAPS

-----------------------------------------------------------------------------
(* 1. Types.  Each group of actions has a lemma; SaveStepTypes covers      *)
(* every call that ends with a save of the record.                         *)

\* Storing a value of the field's type keeps a record a record.
LEMMA FieldUpdates ==
  ASSUME NEW r \in Records
  PROVE  /\ \A v \in States : [r EXCEPT !.state = v] \in Records
         /\ \A v \in BOOLEAN : /\ [r EXCEPT !.terminal = v] \in Records
                               /\ [r EXCEPT !.decision = v] \in Records
                               /\ [r EXCEPT !.notified = v] \in Records
                               /\ [r EXCEPT !.wellFormed = v] \in Records
                               /\ [r EXCEPT !.working = v] \in Records
                               /\ [r EXCEPT !.waitSafe = v] \in Records
                               /\ [r EXCEPT !.turnObserved = v] \in Records
                               /\ [r EXCEPT !.correlated = v] \in Records
                               /\ [r EXCEPT !.watched = v] \in Records
         /\ \A v \in {"null", "no", "yes"} : [r EXCEPT !.submitted = v] \in Records
         /\ \A v \in Occupants \cup {NoOne} : [r EXCEPT !.target = v] \in Records
         /\ \A v \in {"none", "ok", "error"} : [r EXCEPT !.baseline = v] \in Records
         /\ \A v \in {"open", "timed_out", "cancelled"} : [r EXCEPT !.wait = v] \in Records
<1>1. \A v \in States : [r EXCEPT !.state = v] \in Records
  BY Zenon DEF Records
<1>2. \A v \in BOOLEAN : /\ [r EXCEPT !.terminal = v] \in Records
                        /\ [r EXCEPT !.decision = v] \in Records
                        /\ [r EXCEPT !.notified = v] \in Records
                        /\ [r EXCEPT !.wellFormed = v] \in Records
                        /\ [r EXCEPT !.working = v] \in Records
  BY ZenonT(60) DEF Records
<1>3. \A v \in BOOLEAN : /\ [r EXCEPT !.waitSafe = v] \in Records
                        /\ [r EXCEPT !.turnObserved = v] \in Records
                        /\ [r EXCEPT !.correlated = v] \in Records
                        /\ [r EXCEPT !.watched = v] \in Records
  BY ZenonT(60) DEF Records
<1>4. /\ \A v \in {"null", "no", "yes"} : [r EXCEPT !.submitted = v] \in Records
      /\ \A v \in Occupants \cup {NoOne} : [r EXCEPT !.target = v] \in Records
      /\ \A v \in {"none", "ok", "error"} : [r EXCEPT !.baseline = v] \in Records
      /\ \A v \in {"open", "timed_out", "cancelled"} : [r EXCEPT !.wait = v] \in Records
  BY ZenonT(60) DEF Records
<1>5. QED
  BY <1>1, <1>2, <1>3, <1>4, Zenon

\* What the helpers make of a record is a record.
LEMMA RecordHelpers ==
  ASSUME NEW r \in Records
  PROVE  /\ Failed(r) \in Records
         /\ Validated(r) \in Records
         /\ RecipientChanged(r) \in Records
         /\ \A c \in BOOLEAN : Settled(r, c) \in Records
         /\ \A s \in Snapshots : Capturing(r, s) \in Records
         /\ \A b \in {"none", "ok", "error"} : Committed(r, b) \in Records
         /\ \A a \in {"none", "accepted", "refused", "unknown"} :
               Answered(r, a) \in Records
         /\ \A w \in {"timed_out", "cancelled"} : GaveUp(r, w) \in Records
         /\ Cancelled(r) \in Records
         /\ Pushed(r) \in Records
<1> USE FieldUpdates DEF States
<1>1. Failed(r) \in Records
  BY Zenon DEF Failed
<1>2. Validated(r) \in Records
  BY <1>1, Zenon DEF Validated
<1>3. RecipientChanged(r) \in Records
  BY Zenon DEF RecipientChanged
<1>4. ASSUME NEW c \in BOOLEAN
      PROVE  Settled(r, c) \in Records
  <2>1. (IF r.wait = "timed_out" THEN "open" ELSE r.wait)
        \in {"open", "timed_out", "cancelled"}
    BY DEF Records
  <2>2. QED
    BY <2>1, Zenon DEF Settled
<1>5. ASSUME NEW s \in Snapshots
      PROVE  Capturing(r, s) \in Records
  <2>1. s.occupant \in Occupants \cup {NoOne} /\ s.working \in BOOLEAN
        /\ (~s.working) \in BOOLEAN
    BY DEF Snapshots
  <2>2. QED
    BY <2>1, Zenon DEF Capturing
<1>6. ASSUME NEW b \in {"none", "ok", "error"}
      PROVE  Committed(r, b) \in Records
  <2>1. Held(r) \in BOOLEAN
    BY DEF Held
  <2>2. QED
    BY <2>1, Zenon DEF Committed
<1>7. ASSUME NEW a \in {"none", "accepted", "refused", "unknown"}
      PROVE  Answered(r, a) \in Records
  BY <1>1, Zenon DEF Answered
<1>8. ASSUME NEW w \in {"timed_out", "cancelled"}
      PROVE  GaveUp(r, w) \in Records
  BY Zenon DEF GaveUp
<1>9. Cancelled(r) \in Records
  BY <1>1, <1>2, Zenon DEF Cancelled
<1>10. Pushed(r) \in Records
  BY <1>2, Zenon DEF Pushed
<1>11. QED
  BY <1>1, <1>2, <1>3, <1>4, <1>5, <1>6, <1>7, <1>8, <1>9, <1>10

\* The records and snapshots a process starts from.
LEMMA ConstantRecords ==
  /\ NoRecord \in Records
  /\ NewRecord \in Records
  /\ NoSnap \in Snapshots
<1>1. NoRecord \in Records
  BY DEF NoRecord, Records, States
<1>2. NewRecord \in Records
  BY <1>1, FieldUpdates, Zenon DEF NewRecord, States
<1>3. NoSnap \in Snapshots
  BY DEF NoSnap, Snapshots
<1>4. QED
  BY <1>1, <1>2, <1>3

LEMMA LookUpType == TypeOK => LookUp \in Snapshots
BY DEF TypeOK, LookUp, Snapshots, Working

LEMMA HeldRecordType ==
  ASSUME TypeOK, NEW r \in Records
  PROVE  HeldRecord(r) \in Records
<1>1. occupant \in Occupants \cup {NoOne} /\ Working \in BOOLEAN
  BY DEF TypeOK, Working
<1>2. QED
  BY <1>1, FieldUpdates, Zenon DEF HeldRecord, States

\* Every outcome of one look at the recipient is a record.
LEMMA ObservedType ==
  ASSUME TypeOK, NEW r \in Records, NEW o \in Observed(r)
  PROVE  o \in Records
<1>1. CASE occupant # r.target
  BY <1>1, RecordHelpers DEF Observed
<1>2. CASE occupant = r.target
  <2>1. o \in Observations(r)
    BY <1>2 DEF Observed
  <2>2. Reopened(r.wait) \in {"open", "timed_out", "cancelled"}
    BY DEF Records, Reopened
  <2> USE FieldUpdates DEF States
  <2>3. CASE ~r.waitSafe /\ Working
    <3>1. o = [r EXCEPT !.state = "submitted_working", !.working = TRUE,
                        !.correlated = FALSE]
      BY <2>1, <2>3, Zenon DEF Observations
    <3>2. QED
      BY <3>1, Zenon
  <2>4. CASE ~r.waitSafe /\ ~Working
    <3>1. PICK b \in {"ok", "error"} :
             o = [r EXCEPT !.state = "submitted_unknown", !.working = FALSE,
                           !.waitSafe = TRUE, !.baseline = b,
                           !.wait = Reopened(r.wait), !.correlated = FALSE]
      BY <2>1, <2>4, Zenon DEF Observations
    <3>2. b \in {"none", "ok", "error"}
      OBVIOUS
    <3>3. QED
      BY <2>2, <3>1, <3>2, Zenon
  <2>5. CASE r.waitSafe /\ Working
    <3>1. o = [r EXCEPT !.state = "submitted_working", !.working = TRUE,
                        !.turnObserved = TRUE, !.wait = Reopened(r.wait),
                        !.correlated = FALSE]
      BY <2>1, <2>5, Zenon DEF Observations
    <3>2. QED
      BY <2>2, <3>1, Zenon
  <2>6. CASE r.waitSafe /\ ~Working /\ r.turnObserved
    <3>1. PICK c \in BOOLEAN : o = Settled(r, c)
      BY <2>1, <2>6 DEF Observations
    <3>2. QED
      BY <3>1, RecordHelpers
  <2>7. CASE r.waitSafe /\ ~Working /\ ~r.turnObserved
    <3>1. o = [r EXCEPT !.state = "submitted_unknown", !.working = FALSE,
                        !.correlated = FALSE]
      BY <2>1, <2>7, Zenon DEF Observations
    <3>2. QED
      BY <3>1, Zenon
  <2>8. QED
    BY <2>3, <2>4, <2>5, <2>6, <2>7
<1>3. QED
  BY <1>1, <1>2

-----------------------------------------------------------------------------
\* The conjuncts of TypeOK about the processes, and about everything else
\* but the record and its lock.
ProcTypes ==
    /\ pc \in [Procs -> PCs]
    /\ mem \in [Procs -> Records]
    /\ snap \in [Procs -> Snapshots]
    /\ force \in [Procs -> BOOLEAN]
    /\ answer \in [Procs -> {"none", "accepted", "refused", "unknown"}]
    /\ mode \in {"request", "send"}

RestTypes ==
    /\ occupant \in Occupants
    /\ focused \in BOOLEAN
    /\ turn \in {"idle", "foreign", "requested"}
    /\ overdue \in BOOLEAN
    /\ watchOver \in BOOLEAN
    /\ interloper \in BOOLEAN
    /\ crashes \in Nat
    /\ prompts \in Nat
    /\ request \in {"absent", "queued", "running", "done", "lost"}
    /\ notices \in Nat

LEMMA TypesSplit ==
  TypeOK <=> rec \in Records /\ lock \in Procs \cup {NoOne}
             /\ ProcTypes /\ RestTypes
BY DEF TypeOK, ProcTypes, RestTypes

LEMMA TypesSplitNext ==
  TypeOK' <=> rec' \in Records /\ lock' \in Procs \cup {NoOne}
              /\ ProcTypes' /\ RestTypes'
BY DEF TypeOK, ProcTypes, RestTypes

LEMMA LeaveTypes ==
  ASSUME TypeOK, NEW p \in Procs, NEW l \in PCs, NEW r \in Records,
         Leave(p, l, r)
  PROVE  ProcTypes'
BY ConstantRecords DEF TypeOK, ProcTypes, Leave

LEMMA KeepTypes ==
  ASSUME TypeOK, NEW p \in Procs, NEW l \in PCs, NEW r \in Records,
         Keep(p, l, r)
  PROVE  /\ pc' \in [Procs -> PCs]
         /\ mem' \in [Procs -> Records]
         /\ mode' \in {"request", "send"}
BY DEF TypeOK, Keep

LEMMA SaveAndLeaveTypes ==
  ASSUME TypeOK, NEW p \in Procs, NEW l \in PCs, NEW r \in Records,
         SaveAndLeave(p, l, r)
  PROVE  ProcTypes' /\ rec' \in Records /\ lock' \in Procs \cup {NoOne}
BY LeaveTypes DEF SaveAndLeave, Release, TypeOK

LEMMA RestUnchanged ==
  ASSUME TypeOK, UNCHANGED <<envVars, crashes, ghostVars>>
  PROVE  RestTypes'
BY DEF TypeOK, RestTypes, envVars, ghostVars

LEMMA AfterTypes ==
  ASSUME NEW p, NEW r
  PROVE  AfterDeliver(p, r) \in PCs /\ AfterObserve(p, r) \in PCs
BY DEF AfterDeliver, AfterObserve, PCs

LEMMA ProcsKnown ==
  /\ Caller \in Procs
  /\ Workers \subseteq Procs
  /\ Viewers \subseteq Procs
BY DEF Procs

\* A call that ends by saving a record keeps the types.
LEMMA SaveStepTypes ==
  ASSUME TypeOK, NEW p \in Procs, NEW l \in PCs, NEW r \in Records,
         SaveAndLeave(p, l, r), UNCHANGED <<envVars, crashes, ghostVars>>
  PROVE  TypeOK'
BY SaveAndLeaveTypes, RestUnchanged, TypesSplitNext

LEMMA CallerTypes ==
  ASSUME TypeOK, CallerStep
  PROVE  TypeOK'
<1> USE ProcsKnown
<1>1. mem[Caller] \in Records /\ rec \in Records /\ occupant \in Occupants
  BY DEF TypeOK
<1>2. CASE Begin
  <2>1. rec' \in Records /\ ProcTypes'
    BY <1>2, ConstantRecords, KeepTypes DEF Begin, PCs, TypeOK, ProcTypes
  <2>2. QED
    BY <1>2, <2>1, RestUnchanged, TypesSplitNext DEF Begin, TypeOK
<1>3. CASE ResolveUnreachable
  BY <1>1, <1>3, RecordHelpers, SaveStepTypes DEF ResolveUnreachable, PCs
<1>4. CASE RejectSelfSend
  <2>1. (IF mode = "send" THEN "done" ELSE "returned") \in PCs
    BY DEF PCs
  <2>2. QED
    BY <1>1, <1>4, <2>1, RecordHelpers, SaveStepTypes DEF RejectSelfSend
<1>5. CASE Defer
  <2>1. (IF mode = "send" THEN "returned" ELSE "waiting") \in PCs
    BY DEF PCs
  <2>2. QED
    BY <1>1, <1>5, <2>1, HeldRecordType, SaveStepTypes DEF Defer
<1>6. CASE SubmitNow
  <2>1. rec' \in Records
    BY <1>1, <1>6, LookUpType, RecordHelpers DEF SubmitNow
  <2>2. ProcTypes'
    BY <1>6, <2>1, KeepTypes, LookUpType
    DEF SubmitNow, PCs, TypeOK, ProcTypes
  <2>3. QED
    BY <1>6, <2>1, <2>2, TypesSplitNext DEF SubmitNow, TypeOK, RestTypes, ghostVars
<1>7. CASE SendNow
  <2>1. [mem[Caller] EXCEPT !.target = occupant] \in Records
    BY <1>1, FieldUpdates, Zenon
  <2>2. ProcTypes'
    BY <1>7, <2>1, KeepTypes, LookUpType
    DEF SendNow, PCs, TypeOK, ProcTypes
  <2>3. QED
    BY <1>7, <2>2, TypesSplitNext DEF SendNow, TypeOK, RestTypes, ghostVars
<1>8. CASE CancelSubmission
  <2>1. [Failed(mem[Caller]) EXCEPT !.wait = "cancelled"] \in Records
    BY <1>1, RecordHelpers, FieldUpdates, Zenon
  <2>2. QED
    BY <1>8, <2>1, SaveStepTypes DEF CancelSubmission, PCs
<1>9. CASE TransmitDirect
  <2>1. ProcTypes'
    BY <1>9, ConstantRecords, LeaveTypes DEF TransmitDirect, PCs
  <2>2. RestTypes'
    BY <1>9 DEF TransmitDirect, Arrives, TypeOK, RestTypes, envVars
  <2>3. QED
    BY <1>9, <2>1, <2>2, TypesSplitNext DEF TransmitDirect, TypeOK
<1>10. CASE ExitDirect
  <2>1. ProcTypes'
    BY <1>10, ConstantRecords, LeaveTypes DEF ExitDirect, PCs
  <2>2. QED
    BY <1>10, <2>1, RestUnchanged, TypesSplitNext DEF ExitDirect, TypeOK
<1>11. CASE Poll
  <2>1. PICK r \in Observed(mem[Caller]) :
           IF r.terminal
           THEN SaveAndLeave(Caller, "returned", r)
           ELSE /\ rec' = r
                /\ Keep(Caller, "polling", r)
                /\ UNCHANGED <<lock, snap, force, answer>>
    BY <1>11 DEF Poll
  <2>2. r \in Records
    BY <1>1, ObservedType
  <2>3. CASE r.terminal
    BY <1>11, <2>1, <2>2, <2>3, SaveStepTypes DEF Poll, PCs
  <2>4. CASE ~r.terminal
    <3>1. ProcTypes'
      BY <2>1, <2>2, <2>4, KeepTypes DEF PCs, TypeOK, ProcTypes
    <3>2. QED
      BY <1>11, <2>1, <2>2, <2>4, <3>1, RestUnchanged, TypesSplitNext
      DEF Poll, TypeOK
  <2>5. QED
    BY <2>3, <2>4
<1>12. CASE StopPolling
  BY <1>1, <1>12, RecordHelpers, SaveStepTypes DEF StopPolling, PCs
<1>13. CASE WaitPoll
  <2>1. ProcTypes'
    BY <1>13 DEF WaitPoll, TypeOK, ProcTypes, PCs
  <2>2. QED
    BY <1>13, <2>1, RestUnchanged, TypesSplitNext DEF WaitPoll, TypeOK
<1>14. CASE WaitTimeout
  <2>1. (IF Held(rec) \/ rec.terminal THEN rec ELSE GaveUp(rec, "timed_out"))
        \in Records
    BY <1>1, RecordHelpers
  <2>2. QED
    BY <1>14, <2>1, SaveStepTypes DEF WaitTimeout, PCs
<1>15. CASE WaitCancel
  <2>1. (IF Cancelled(rec).terminal THEN "returned" ELSE "mark") \in PCs
    BY DEF PCs
  <2>2. QED
    BY <1>1, <1>15, <2>1, RecordHelpers, SaveStepTypes DEF WaitCancel
<1>16. CASE MarkCancelled
  <2>1. (IF rec.terminal THEN rec ELSE [rec EXCEPT !.wait = "cancelled"])
        \in Records
    BY <1>1, FieldUpdates, Zenon
  <2>2. QED
    BY <1>16, <2>1, SaveStepTypes DEF MarkCancelled, PCs
<1>17. QED
  BY <1>2, <1>3, <1>4, <1>5, <1>6, <1>7, <1>8, <1>9, <1>10, <1>11, <1>12,
     <1>13, <1>14, <1>15, <1>16 DEF CallerStep

LEMMA LockedTypes ==
  ASSUME TypeOK, NEW p \in Procs, LockedStep(p)
  PROVE  TypeOK'
<1>1. /\ mem[p] \in Records /\ rec \in Records /\ snap[p] \in Snapshots
      /\ answer[p] \in {"none", "accepted", "refused", "unknown"}
  BY DEF TypeOK
<1>2. CASE LoadHeld(p)
  <2> DEFINE v == Validated(rec)
  <2>1. v \in Records
    BY <1>1, RecordHelpers
  <2>2. CASE Held(v)
    <3>1. lock' = p /\ Keep(p, "recheck", v) /\ UNCHANGED <<rec, snap, force, answer>>
      BY <1>2, <2>2 DEF LoadHeld
    <3>2. ProcTypes'
      BY <2>1, <3>1, KeepTypes DEF PCs, TypeOK, ProcTypes
    <3>3. QED
      BY <1>2, <3>1, <3>2, RestUnchanged, TypesSplitNext DEF LoadHeld, TypeOK
  <2>3. CASE ~Held(v)
    <3>1. SaveAndLeave(p, AfterDeliver(p, v), v)
      BY <1>2, <2>3 DEF LoadHeld
    <3>2. QED
      BY <1>2, <2>1, <3>1, AfterTypes, SaveStepTypes DEF LoadHeld
  <2>4. QED
    BY <2>2, <2>3
<1>3. CASE LoseHeld(p)
  BY <1>1, <1>3, RecordHelpers, AfterTypes, SaveStepTypes DEF LoseHeld
<1>4. CASE RecheckHeld(p)
  <2>1. ProcTypes'
    BY <1>4, LookUpType DEF RecheckHeld, TypeOK, ProcTypes, PCs
  <2>2. QED
    BY <1>4, <2>1, TypesSplitNext DEF RecheckHeld, TypeOK, RestTypes, ghostVars
<1>5. CASE KeepHolding(p)
  <2> DEFINE kept == IF overdue
                     THEN [mem[p] EXCEPT !.state = "awaiting_decision"]
                     ELSE mem[p]
  <2>1. kept \in Records
    BY <1>1, FieldUpdates, Zenon DEF States
  <2>2. SaveAndLeave(p, AfterDeliver(p, kept), kept)
    BY <1>5 DEF KeepHolding
  <2> HIDE DEF kept
  <2>3. QED
    BY <1>5, <2>1, <2>2, AfterTypes, SaveStepTypes DEF KeepHolding
<1>6. CASE ReleaseHeld(p)
  <2>1. rec' \in Records
    BY <1>1, <1>6, RecordHelpers DEF ReleaseHeld
  <2>2. ProcTypes'
    BY <1>6, <2>1, KeepTypes DEF ReleaseHeld, PCs, TypeOK, ProcTypes
  <2>3. QED
    BY <1>6, <2>1, <2>2, RestUnchanged, TypesSplitNext DEF ReleaseHeld, TypeOK
<1>7. CASE Commit(p)
  <2>1. rec' \in Records
    BY <1>1, <1>7, RecordHelpers DEF Commit
  <2>2. ProcTypes'
    BY <1>7, <2>1, KeepTypes DEF Commit, PCs, TypeOK, ProcTypes
  <2>3. QED
    BY <1>7, <2>1, <2>2, RestUnchanged, TypesSplitNext DEF Commit, TypeOK
<1>8. CASE Transmit(p)
  <2>1. ProcTypes'
    BY <1>8 DEF Transmit, TypeOK, ProcTypes, PCs
  <2>2. RestTypes'
    BY <1>8 DEF Transmit, Arrives, TypeOK, RestTypes, envVars
  <2>3. QED
    BY <1>8, <2>1, <2>2, TypesSplitNext DEF Transmit, TypeOK
<1>9. CASE RecordAnswer(p)
  <2> DEFINE r == Answered(mem[p], answer[p])
  <2>1. r \in Records
    BY <1>1, RecordHelpers
  <2>2. CASE lock = p
    <3>1. SaveAndLeave(p, AfterDeliver(p, r), r)
      BY <1>9, <2>2 DEF RecordAnswer
    <3>2. QED
      BY <1>9, <2>1, <3>1, AfterTypes, SaveStepTypes DEF RecordAnswer
  <2>3. CASE lock # p /\ r.terminal
    <3>1. SaveAndLeave(p, "returned", r)
      BY <1>9, <2>3 DEF RecordAnswer
    <3>2. QED
      BY <1>9, <2>1, <3>1, SaveStepTypes DEF RecordAnswer, PCs
  <2>4. CASE lock # p /\ ~r.terminal
    <3>1. /\ rec' = r
          /\ Keep(p, "polling", r)
          /\ snap' = [snap EXCEPT ![p] = NoSnap]
          /\ answer' = [answer EXCEPT ![p] = "none"]
          /\ UNCHANGED <<lock, force>>
      BY <1>9, <2>4 DEF RecordAnswer
    <3>2. ProcTypes'
      BY <2>1, <3>1, KeepTypes, ConstantRecords DEF PCs, TypeOK, ProcTypes
    <3>3. QED
      BY <1>9, <2>1, <3>1, <3>2, RestUnchanged, TypesSplitNext
      DEF RecordAnswer, TypeOK
  <2>5. QED
    BY <2>2, <2>3, <2>4
<1>10. CASE LoadSubmitted(p)
  <2>1. CASE rec.terminal
    BY <1>1, <1>10, <2>1, AfterTypes, SaveStepTypes DEF LoadSubmitted
  <2>2. CASE ~rec.terminal /\ rec.baseline = "none"
    <3>1. (IF p = Caller THEN "done" ELSE "idle") \in PCs
      BY DEF PCs
    <3>2. QED
      BY <1>1, <1>10, <2>2, <3>1, SaveStepTypes DEF LoadSubmitted
  <2>3. CASE ~rec.terminal /\ rec.baseline # "none"
    <3>1. ProcTypes'
      BY <1>1, <1>10, <2>3, KeepTypes DEF LoadSubmitted, PCs, TypeOK, ProcTypes
    <3>2. QED
      BY <1>10, <2>3, <3>1, RestUnchanged, TypesSplitNext
      DEF LoadSubmitted, TypeOK
  <2>4. QED
    BY <2>1, <2>2, <2>3
<1>11. CASE Observe(p)
  <2>1. PICK r : /\ r \in Observed(mem[p]) \/ r = mem[p]
                 /\ SaveAndLeave(p, AfterObserve(p, r), r)
    BY <1>11 DEF Observe
  <2>2. r \in Records
    BY <1>1, <2>1, ObservedType
  <2>3. QED
    BY <1>11, <2>1, <2>2, AfterTypes, SaveStepTypes DEF Observe
<1>12. QED
  BY <1>2, <1>3, <1>4, <1>5, <1>6, <1>7, <1>8, <1>9, <1>10, <1>11
  DEF LockedStep

LEMMA WorkerTypes ==
  ASSUME TypeOK, NEW w \in Workers, WorkerStep(w)
  PROVE  TypeOK'
<1>1. w \in Procs /\ rec \in Records /\ mem[w] \in Records
  BY ProcsKnown DEF TypeOK
<1>2. CASE BeginTick(w)
  <2> DEFINE v == Validated(rec)
  <2>1. v \in Records /\ rec' = v
    BY <1>1, <1>2, RecordHelpers DEF BeginTick
  <2>2. ProcTypes'
    <3>1. CASE v.terminal
      BY <1>2, <3>1 DEF BeginTick, TypeOK, ProcTypes, procVars
    <3>2. CASE ~v.terminal /\ (v.decision \/ v.state = "deferred")
      <4>1. v.decision \in BOOLEAN
        BY <2>1 DEF Records
      <4>2. QED
        BY <1>1, <1>2, <3>2, <4>1 DEF BeginTick, TypeOK, ProcTypes, PCs
    <3>3. CASE ~v.terminal /\ ~(v.decision \/ v.state = "deferred")
      <4>1. Leave(w, AfterDeliver(w, v), v)
        BY <1>2, <3>3 DEF BeginTick
      <4>2. QED
        BY <1>1, <2>1, <4>1, AfterTypes, LeaveTypes
    <3>4. QED
      BY <3>1, <3>2, <3>3
  <2>3. QED
    BY <1>2, <2>1, <2>2, RestUnchanged, TypesSplitNext DEF BeginTick, TypeOK
<1>3. CASE Notify(w)
  <2>1. ProcTypes' /\ lock' \in Procs \cup {NoOne}
    <3>1. CASE rec.state = "awaiting_decision" /\ ~rec.notified
      BY <1>1, <1>3, <3>1, KeepTypes DEF Notify, TypeOK, ProcTypes, PCs
    <3>2. CASE ~(rec.state = "awaiting_decision" /\ ~rec.notified)
      BY <1>1, <1>3, <3>2, LeaveTypes DEF Notify, TypeOK, PCs
    <3>3. QED
      BY <3>1, <3>2
  <2>2. RestTypes'
    BY <1>3 DEF Notify, TypeOK, RestTypes, envVars
  <2>3. QED
    BY <1>3, <2>1, <2>2, TypesSplitNext DEF Notify, TypeOK
<1>4. CASE SaveNotified(w)
  <2>1. PICK saved \in BOOLEAN :
           SaveAndLeave(w, "idle", [mem[w] EXCEPT !.notified = saved])
    BY <1>4 DEF SaveNotified
  <2>2. [mem[w] EXCEPT !.notified = saved] \in Records
    BY <1>1, FieldUpdates, Zenon
  <2>3. QED
    BY <1>1, <1>4, <2>1, <2>2, SaveStepTypes DEF SaveNotified, PCs
<1>5. QED
  BY <1>2, <1>3, <1>4 DEF WorkerStep

LEMMA OtherTypes ==
  ASSUME TypeOK,
         \/ \E v \in Viewers : BeginStatus(v)
         \/ \E p \in Procs : StoreRoute(p) \/ Crash(p)
         \/ UserStep
         \/ EnvStep
  PROVE  TypeOK'
<1>1. rec \in Records
  BY DEF TypeOK
<1>2. ASSUME NEW v \in Viewers, BeginStatus(v)
      PROVE  TypeOK'
  <2>1. ProcTypes'
    BY <1>2, ProcsKnown DEF BeginStatus, TypeOK, ProcTypes, PCs
  <2>2. QED
    BY <1>2, <2>1, RestUnchanged, TypesSplitNext DEF BeginStatus, TypeOK
<1>3. ASSUME NEW p \in Procs, StoreRoute(p)
      PROVE  TypeOK'
  <2>1. (IF p = Caller THEN "done" ELSE "idle") \in PCs
    BY DEF PCs
  <2>2. ProcTypes'
    BY <1>3, <2>1, ConstantRecords, LeaveTypes DEF StoreRoute
  <2>3. QED
    BY <1>3, <2>2, RestUnchanged, TypesSplitNext DEF StoreRoute, Merged, TypeOK
<1>4. ASSUME NEW p \in Procs, Crash(p)
      PROVE  TypeOK'
  <2>1. (IF p = Caller THEN "done" ELSE "idle") \in PCs
    BY DEF PCs
  <2>2. ProcTypes'
    BY <1>4, <2>1, ConstantRecords, LeaveTypes DEF Crash
  <2>3. RestTypes' /\ lock' \in Procs \cup {NoOne}
    BY <1>4 DEF Crash, Release, TypeOK, RestTypes, envVars, ghostVars
  <2>4. QED
    BY <1>4, <2>2, <2>3, TypesSplitNext DEF Crash, TypeOK
<1>5. CASE UserStep
  <2>1. rec' \in Records
    BY <1>1, <1>5, RecordHelpers DEF UserStep, UserPush, UserCancel
  <2>2. UNCHANGED <<lock, procVars, envVars, crashes, ghostVars>>
    BY <1>5 DEF UserStep, UserPush, UserCancel
  <2>3. QED
    BY <2>1, <2>2, RestUnchanged, TypesSplitNext DEF procVars, TypeOK, ProcTypes
<1>6. CASE Damage
  <2>1. rec' \in Records
    BY <1>1, <1>6, FieldUpdates, Zenon DEF Damage
  <2>2. QED
    BY <1>6, <2>1, RestUnchanged, TypesSplitNext
    DEF Damage, procVars, TypeOK, ProcTypes
<1>7. CASE EnvStep /\ ~Damage
  <2>1. UNCHANGED <<rec, lock, procVars, crashes>>
    BY <1>7 DEF EnvStep, FocusMoves, OccupantChanges, ForeignTurnStarts,
                RequestedTurnStarts, TurnEnds, DeadlinePasses, WatchRunsOut
  <2>2. RestTypes'
    BY <1>7 DEF EnvStep, FocusMoves, OccupantChanges, ForeignTurnStarts,
                RequestedTurnStarts, TurnEnds, DeadlinePasses, WatchRunsOut,
                TypeOK, RestTypes, ghostVars
  <2>3. QED
    BY <2>1, <2>2, TypesSplitNext DEF procVars, TypeOK, ProcTypes
<1>8. QED
  BY <1>2, <1>3, <1>4, <1>5, <1>6, <1>7

\* Every variable keeps its type, whatever the processes, the user and the
\* recipient do.
THEOREM TypeCorrect == Spec => []TypeOK
<1>1. Init => TypeOK
  <2> SUFFICES ASSUME Init PROVE TypeOK
    OBVIOUS
  <2>1. rec \in Records /\ lock \in Procs \cup {NoOne}
    BY ConstantRecords DEF Init
  <2>2. ProcTypes
    BY ConstantRecords, ScenarioKnown DEF Init, ProcTypes, PCs
  <2>3. RestTypes
    BY DEF Init, RestTypes
  <2>4. QED
    BY <2>1, <2>2, <2>3, TypesSplit
<1>2. TypeOK /\ [Next]_vars => TypeOK'
  <2>1. CASE UNCHANGED vars
    BY <2>1 DEF vars, procVars, envVars, ghostVars, TypeOK
  <2>2. CASE Next
    BY <2>2, CallerTypes, LockedTypes, WorkerTypes, OtherTypes DEF Next
  <2>3. QED
    BY <2>1, <2>2
<1>3. QED
  BY <1>1, <1>2, PTL DEF Spec

-----------------------------------------------------------------------------
(* 2. Safety.                                                              *)

InsidePCs == {"recheck", "decide", "observing", "notified"}

SubmitPCs == {"baseline", "submitting", "sent"}

CallerPCs == {"start", "resolve", "direct", "exit", "polling", "waiting", "mark"}

\* Where the caller is the only one who knows the record.
PrivatePCs == {"start", "resolve", "direct", "exit", "polling"}

\* Who owns the lock is inside; who is inside owns it, the caller's
\* submission in run() apart.
LockDiscipline ==
    \A p \in Procs :
        /\ pc[p] \in InsidePCs => lock = p
        /\ pc[p] \in SubmitPCs => lock = p \/ p = Caller
        /\ lock = p => pc[p] \in InsidePCs \cup SubmitPCs
        /\ pc[p] \in CallerPCs => p = Caller

\* As long as the caller works without the lock, it is alone.
AloneWhilePrivate ==
    CallerPrivate =>
        /\ lock = NoOne
        /\ \A p \in Procs \ {Caller} : pc[p] = "idle"
        /\ ~Held(rec)
        /\ ~rec.watched

\* The copies that are about to be saved.
CopiesCurrent ==
    /\ NoLostUpdate
    /\ pc[Caller] \in SubmitPCs \cup {"polling"} => mem[Caller] = rec
    /\ pc[Caller] = "resolve" => mem[Caller] = NewRecord

\* How far the record is, seen from where the processes are.
StageOfProcesses ==
    /\ pc[Caller] \in {"start", "direct", "exit"} => rec = NoRecord
    /\ pc[Caller] = "resolve" =>
          rec = IF mode = "request" THEN NewRecord ELSE NoRecord
    /\ rec.state = "none" => pc[Caller] \in {"start", "resolve", "direct", "exit", "done"}
    /\ rec.state = "resolving" => pc[Caller] \in {"resolve", "baseline", "done"}
    /\ rec.state \in {"none", "resolving"} => lock = NoOne
    /\ \A p \in Procs :
          /\ pc[p] \in {"recheck", "decide", "notified"} => Held(rec)
          /\ pc[p] = "notified" => rec.state = "awaiting_decision"
          /\ pc[p] = "baseline" => Held(rec) \/ rec.state = "resolving"
          /\ pc[p] \in {"submitting", "sent"} =>
                rec.state = "submitted_unknown" /\ rec.submitted = "null"
          /\ pc[p] \in {"submitting", "sent", "observing", "polling"} =>
                /\ ~rec.terminal
                /\ rec.state \in {"submitted_working", "submitted_unknown"}
          /\ pc[p] = "decide" => snap[p].occupant = rec.target

\* What the state word says about the other fields.
StateConsistent(r) ==
    /\ r.state \in {"submitted_settled", "submission_failed"} => r.terminal
    /\ Held(r) \/ r.state \in {"none", "resolving"} =>
          ~r.terminal /\ r.baseline = "none"

\* A message that goes out of "awaiting_decision" was pushed.
PushBehindDelivery ==
    \A p \in Procs :
        /\ force[p] => p \in Workers /\ pc[p] # "idle"
        /\ force[p] /\ Held(rec) => rec.decision
        /\ pc[p] = "baseline" /\ rec.state = "awaiting_decision" => rec.decision

\* The number of prompts n behind a record.
PromptsBehind(r, n) ==
    /\ r.submitted = "no" => n = 0
    /\ r.submitted = "yes" => n = 1
    /\ Held(r) \/ r.state = "resolving" => n = 0

\* What a process knows about the prompts while it submits.
PromptsWhileSubmitting ==
    /\ pc[Caller] \in {"start", "resolve", "direct"} => prompts = 0
    /\ \A p \in Procs :
          /\ pc[p] = "submitting" => prompts = 0
          /\ pc[p] = "sent" =>
                /\ answer[p] # "none"
                /\ answer[p] = "accepted" => prompts = 1
                /\ answer[p] = "refused" => prompts = 0

IInv ==
    /\ LockDiscipline
    /\ AloneWhilePrivate
    /\ CopiesCurrent
    /\ StageOfProcesses
    /\ StateConsistent(rec)
    /\ PushBehindDelivery
    /\ AtMostOnePrompt
    /\ PromptsBehind(rec, prompts)
    /\ PromptsWhileSubmitting

-----------------------------------------------------------------------------
(* What the record helpers do to the fields the invariant speaks of.       *)

\* The fields a save may only carry on.
SameOrigin(r, s) ==
    /\ s.target = r.target
    /\ s.decision = r.decision
    /\ s.watched = r.watched

LEMMA FailedFields ==
  ASSUME NEW r \in Records
  PROVE  /\ Failed(r).state = "submission_failed"
         /\ Failed(r).terminal
         /\ Failed(r).submitted = "no"
         /\ Failed(r).baseline = r.baseline
         /\ Failed(r).waitSafe = r.waitSafe
         /\ Failed(r).turnObserved = r.turnObserved
         /\ SameOrigin(r, Failed(r))
BY DEF Failed, Records, SameOrigin

LEMMA ValidatedFields ==
  ASSUME NEW r \in Records
  PROVE  \/ Validated(r) = r /\ (Held(r) => r.wellFormed)
         \/ Validated(r) = Failed(r) /\ Held(r) /\ ~r.wellFormed
BY DEF Validated

LEMMA CancelledFields ==
  ASSUME NEW r \in Records
  PROVE  Cancelled(r) = IF Held(r) THEN Failed(r) ELSE r
<1>1. ~Held(Failed(r))
  BY FailedFields DEF Held
<1>2. CASE Validated(r) = r
  BY <1>2 DEF Cancelled
<1>3. CASE Validated(r) = Failed(r) /\ Held(r)
  BY <1>1, <1>3 DEF Cancelled
<1>4. QED
  BY <1>2, <1>3, ValidatedFields

LEMMA PushedFields ==
  ASSUME NEW r \in Records, Held(r)
  PROVE  Pushed(r) = IF r.wellFormed THEN [r EXCEPT !.decision = TRUE] ELSE Failed(r)
<1>1. ~Held(Failed(r))
  BY FailedFields DEF Held
<1>2. CASE r.wellFormed
  BY <1>2 DEF Pushed, Validated
<1>3. CASE ~r.wellFormed
  BY <1>1, <1>3 DEF Pushed, Validated
<1>4. QED
  BY <1>2, <1>3

LEMMA CapturingFields ==
  ASSUME NEW r \in Records, NEW s \in Snapshots
  PROVE  /\ Capturing(r, s).state = r.state
         /\ Capturing(r, s).terminal = r.terminal
         /\ Capturing(r, s).submitted = r.submitted
         /\ Capturing(r, s).baseline = r.baseline
         /\ Capturing(r, s).decision = r.decision
         /\ Capturing(r, s).watched = r.watched
         /\ Capturing(r, s).target = s.occupant
BY DEF Capturing, Records

LEMMA CommittedFields ==
  ASSUME NEW r \in Records, NEW b \in {"ok", "error"}
  PROVE  /\ Committed(r, b).state = "submitted_unknown"
         /\ Committed(r, b).terminal = r.terminal
         /\ Committed(r, b).submitted = "null"
         /\ Committed(r, b).baseline = b
         /\ ~Committed(r, b).decision
         /\ Committed(r, b).watched = Held(r)
         /\ Committed(r, b).target = r.target
         /\ Committed(r, b).waitSafe = r.waitSafe
         /\ Committed(r, b).turnObserved = r.turnObserved
BY DEF Committed, Records

LEMMA AnsweredFields ==
  ASSUME NEW r \in Records, NEW a
  PROVE  /\ a = "refused" => Answered(r, a) = Failed(r)
         /\ a # "refused" =>
               /\ Answered(r, a).state \in {"submitted_working", "submitted_unknown"}
               /\ Answered(r, a).terminal = r.terminal
               /\ Answered(r, a).submitted = IF a = "accepted" THEN "yes" ELSE "null"
               /\ Answered(r, a).baseline = r.baseline
               /\ Answered(r, a).waitSafe = r.waitSafe
               /\ Answered(r, a).turnObserved = r.turnObserved
               /\ SameOrigin(r, Answered(r, a))
BY DEF Answered, Records, SameOrigin

LEMMA GaveUpFields ==
  ASSUME NEW r \in Records, NEW w
  PROVE  /\ GaveUp(r, w).state \in {"submitted_working", "submitted_unknown"}
         /\ GaveUp(r, w).terminal = r.terminal
         /\ GaveUp(r, w).submitted = r.submitted
         /\ GaveUp(r, w).baseline = r.baseline
         /\ GaveUp(r, w).waitSafe = r.waitSafe
         /\ GaveUp(r, w).turnObserved = r.turnObserved
         /\ SameOrigin(r, GaveUp(r, w))
BY DEF GaveUp, Records, SameOrigin

LEMMA HeldRecordFields ==
  ASSUME NEW r \in Records
  PROVE  /\ HeldRecord(r).state = "deferred"
         /\ HeldRecord(r).terminal = r.terminal
         /\ HeldRecord(r).submitted = "no"
         /\ HeldRecord(r).baseline = r.baseline
         /\ HeldRecord(r).decision = r.decision
         /\ HeldRecord(r).target = occupant
BY DEF HeldRecord, Records

LEMMA NewRecordFields ==
  /\ NewRecord.state = "resolving" /\ ~NewRecord.terminal
  /\ NewRecord.submitted = "null" /\ NewRecord.baseline = "none"
  /\ NewRecord.target = NoOne /\ ~NewRecord.watched /\ ~NewRecord.decision
  /\ NoRecord.state = "none" /\ ~NoRecord.terminal
  /\ NoRecord.submitted = "null" /\ NoRecord.baseline = "none"
  /\ NoRecord.target = NoOne /\ ~NoRecord.watched /\ ~NoRecord.decision
  /\ NewRecord.decision = NoRecord.decision
BY DEF NewRecord, NoRecord

\* What one look at the recipient leaves alone.
LEMMA ObservedFields ==
  ASSUME NEW r \in Records, NEW o \in Observed(r)
  PROVE  /\ o.state \in {"submitted_working", "submitted_unknown", "submitted_settled"}
         /\ r.terminal => o.terminal
         /\ o.state = "submitted_settled" => o.terminal
         /\ o.submitted = r.submitted
         /\ r.baseline # "none" => o.baseline # "none"
         /\ r.waitSafe => o.waitSafe
         /\ r.turnObserved => o.turnObserved
         /\ SameOrigin(r, o)
<1>1. CASE occupant # r.target
  <2>1. o = RecipientChanged(r)
    BY <1>1 DEF Observed
  <2>2. QED
    BY <2>1 DEF RecipientChanged, Records, SameOrigin
<1>2. CASE occupant = r.target
  <2>1. o \in Observations(r)
    BY <1>2 DEF Observed
  <2>2. CASE ~r.waitSafe /\ Working
    <3>1. o = [r EXCEPT !.state = "submitted_working", !.working = TRUE,
                        !.correlated = FALSE]
      BY <2>1, <2>2, Zenon DEF Observations
    <3>2. QED
      BY <3>1 DEF Records, SameOrigin
  <2>3. CASE ~r.waitSafe /\ ~Working
    <3>1. PICK b \in {"ok", "error"} :
             o = [r EXCEPT !.state = "submitted_unknown", !.working = FALSE,
                           !.waitSafe = TRUE, !.baseline = b,
                           !.wait = Reopened(r.wait), !.correlated = FALSE]
      BY <2>1, <2>3, Zenon DEF Observations
    <3>2. QED
      BY <3>1 DEF Records, SameOrigin
  <2>4. CASE r.waitSafe /\ Working
    <3>1. o = [r EXCEPT !.state = "submitted_working", !.working = TRUE,
                        !.turnObserved = TRUE, !.wait = Reopened(r.wait),
                        !.correlated = FALSE]
      BY <2>1, <2>4, Zenon DEF Observations
    <3>2. QED
      BY <3>1 DEF Records, SameOrigin
  <2>5. CASE r.waitSafe /\ ~Working /\ r.turnObserved
    <3>1. PICK c \in BOOLEAN : o = Settled(r, c)
      BY <2>1, <2>5 DEF Observations
    <3>2. QED
      BY <3>1 DEF Settled, Records, SameOrigin
  <2>6. CASE r.waitSafe /\ ~Working /\ ~r.turnObserved
    <3>1. o = [r EXCEPT !.state = "submitted_unknown", !.working = FALSE,
                        !.correlated = FALSE]
      BY <2>1, <2>6, Zenon DEF Observations
    <3>2. QED
      BY <3>1 DEF Records, SameOrigin
  <2>7. QED
    BY <2>2, <2>3, <2>4, <2>5, <2>6
<1>3. QED
  BY <1>1, <1>2

-----------------------------------------------------------------------------
(* How a step of one process touches the others.                           *)

\* Where a process holds no lock and works without one.
OutsidePCs == {"idle", "done", "returned", "waiting", "mark",
               "deliver", "observe", "notify"}

OthersKept(p) ==
    \A q \in Procs \ {p} :
        /\ pc'[q] = pc[q]
        /\ mem'[q] = mem[q]
        /\ snap'[q] = snap[q]
        /\ force'[q] = force[q]
        /\ answer'[q] = answer[q]

LEMMA LeaveKeepsOthers ==
  ASSUME TypeOK, NEW p \in Procs, NEW l, NEW r, Leave(p, l, r)
  PROVE  OthersKept(p) /\ pc'[p] = l /\ ~force'[p]
BY DEF Leave, OthersKept, TypeOK

LEMMA KeepKeepsOthers ==
  ASSUME TypeOK, NEW p \in Procs, NEW l, NEW r, Keep(p, l, r)
  PROVE  /\ \A q \in Procs \ {p} : pc'[q] = pc[q] /\ mem'[q] = mem[q]
         /\ pc'[p] = l
         /\ mem'[p] = r
BY DEF Keep, TypeOK

\* Somebody who is not alone with the record and may write it: nobody else
\* is inside, or half way through a submission.
LEMMA WriterAlone ==
  ASSUME IInv, NEW p \in Procs, p = Caller \/ ~CallerPrivate,
         lock \in {NoOne, p}
  PROVE  \A q \in Procs \ {p} : pc[q] \notin InsidePCs \cup SubmitPCs
<1> SUFFICES ASSUME NEW q \in Procs \ {p}, pc[q] \in InsidePCs \cup SubmitPCs
             PROVE  FALSE
  OBVIOUS
<1>1. lock # q
  BY ProcessesDistinct
<1>2. q = Caller /\ pc[q] \in SubmitPCs
  BY <1>1 DEF IInv, LockDiscipline
<1>3. CallerPrivate
  BY <1>1, <1>2 DEF CallerPrivate, SubmitPCs
<1>4. QED
  BY <1>2, <1>3

\* A process goes outside, possibly saving r on the way.
LEMMA LeaveStep ==
  ASSUME TypeOK, IInv, NEW p \in Procs, p = Caller \/ ~CallerPrivate,
         OthersKept(p), pc'[p] \in OutsidePCs,
         pc'[p] \in {"waiting", "mark"} => p = Caller,
         Release(p), UNCHANGED prompts,
         rec' = rec \/ lock \in {NoOne, p},
         StateConsistent(rec'), PromptsBehind(rec', prompts),
         rec'.state \in {"none", "resolving"} =>
            rec' = rec /\ (p = Caller => pc'[p] = "done"),
         force'[p] => p \in Workers /\ pc'[p] # "idle",
         Held(rec') => /\ force'[p] => rec'.decision
                       /\ \A q \in Procs \ {p} : force[q] => rec'.decision
  PROVE  IInv'
<1>0. Caller \in Procs /\ NoOne \notin Procs
  BY ProcsKnown, ProcessesDistinct
<1> USE <1>0
<1>1. lock' = (IF lock = p THEN NoOne ELSE lock)
  BY DEF Release
<1>2. \A q \in Procs \ {p} :
         /\ pc'[q] = pc[q] /\ mem'[q] = mem[q] /\ snap'[q] = snap[q]
         /\ force'[q] = force[q] /\ answer'[q] = answer[q]
  BY DEF OthersKept
<1>3. pc'[p] \notin InsidePCs \cup SubmitPCs \cup PrivatePCs
  BY DEF OutsidePCs, InsidePCs, SubmitPCs, PrivatePCs
<1>4. \A q \in Procs \ {p} : pc[q] \in InsidePCs \cup SubmitPCs =>
         rec' = rec /\ lock' = lock /\ lock = q
  <2> SUFFICES ASSUME NEW q \in Procs \ {p}, pc[q] \in InsidePCs \cup SubmitPCs
               PROVE  rec' = rec /\ lock' = lock /\ lock = q
    OBVIOUS
  <2>1. lock = q
    <3>1. lock = q \/ (q = Caller /\ pc[q] \in SubmitPCs)
      BY DEF IInv, LockDiscipline
    <3>2. QED
      BY <3>1 DEF CallerPrivate, SubmitPCs
  <2>2. QED
    BY <1>1, <2>1
<1>5. ~CallerPrivate'
  <2>1. CASE p = Caller
    BY <1>3, <2>1 DEF CallerPrivate, PrivatePCs, SubmitPCs
  <2>2. CASE p # Caller
    <3>1. pc'[Caller] = pc[Caller] /\ ~CallerPrivate
      BY <1>2, <2>2
    <3>2. pc[Caller] \in SubmitPCs => lock' = Caller
      BY <1>4, <2>2
    <3>3. QED
      BY <3>1, <3>2 DEF CallerPrivate, SubmitPCs
  <2>3. QED
    BY <2>1, <2>2
<1>6. LockDiscipline'
  <2> SUFFICES ASSUME NEW q \in Procs
               PROVE  /\ pc'[q] \in InsidePCs => lock' = q
                      /\ pc'[q] \in SubmitPCs => lock' = q \/ q = Caller
                      /\ lock' = q => pc'[q] \in InsidePCs \cup SubmitPCs
                      /\ pc'[q] \in CallerPCs => q = Caller
    BY DEF LockDiscipline
  <2>1. CASE q = p
    BY <1>1, <1>3, <2>1 DEF OutsidePCs, CallerPCs
  <2>2. CASE q # p
    BY <1>1, <1>2, <1>4, <2>2 DEF IInv, LockDiscipline
  <2>3. QED
    BY <2>1, <2>2
<1>7. AloneWhilePrivate'
  BY <1>5 DEF AloneWhilePrivate
<1>8. CopiesCurrent'
  <2>1. \A q \in Procs : lock' = q => mem'[q] = rec'
    <3> SUFFICES ASSUME NEW q \in Procs, lock' = q
                 PROVE  mem'[q] = rec'
      OBVIOUS
    <3>1. q # p /\ lock = q
      BY <1>1
    <3>2. pc[q] \in InsidePCs \cup SubmitPCs /\ mem[q] = rec
      BY <3>1 DEF IInv, LockDiscipline, CopiesCurrent, NoLostUpdate
    <3>3. QED
      BY <1>2, <1>4, <3>1, <3>2
  <2>2. pc'[Caller] \in SubmitPCs => mem'[Caller] = rec'
    <3>1. pc'[Caller] \in SubmitPCs => lock' = Caller
      BY <1>5 DEF CallerPrivate, SubmitPCs
    <3>2. QED
      BY <2>1, <3>1
  <2>3. pc'[Caller] # "polling" /\ pc'[Caller] # "resolve"
    BY <1>5 DEF CallerPrivate
  <2>4. QED
    BY <2>1, <2>2, <2>3 DEF CopiesCurrent, NoLostUpdate
<1>9. StageOfProcesses'
  <2>1. pc'[Caller] \notin PrivatePCs
    BY <1>5 DEF CallerPrivate, PrivatePCs
  <2>2. rec'.state \in {"none", "resolving"} => pc'[Caller] = "done"
    <3>1. CASE p = Caller
      BY <3>1
    <3>2. CASE p # Caller
      <4> SUFFICES ASSUME rec'.state \in {"none", "resolving"}
                   PROVE  pc[Caller] = "done"
        BY <1>2, <3>2
      <4>1. rec.state \in {"none", "resolving"} /\ rec' = rec
        OBVIOUS
      <4>2. pc[Caller] \in PrivatePCs \cup {"baseline", "done"}
        BY <4>1 DEF IInv, StageOfProcesses, PrivatePCs
      <4>3. pc[Caller] # "baseline"
        BY <1>4, <3>2, <4>1 DEF IInv, StageOfProcesses, SubmitPCs
      <4>4. QED
        BY <2>1, <4>2, <4>3, <1>2, <3>2
    <3>3. QED
      BY <3>1, <3>2
  <2>3. rec'.state \in {"none", "resolving"} => lock' = NoOne
    BY <1>1 DEF IInv, StageOfProcesses
  <2>4. ASSUME NEW q \in Procs
        PROVE  /\ pc'[q] \in {"recheck", "decide", "notified"} => Held(rec')
               /\ pc'[q] = "notified" => rec'.state = "awaiting_decision"
               /\ pc'[q] = "baseline" => Held(rec') \/ rec'.state = "resolving"
               /\ pc'[q] \in {"submitting", "sent"} =>
                     rec'.state = "submitted_unknown" /\ rec'.submitted = "null"
               /\ pc'[q] \in {"submitting", "sent", "observing", "polling"} =>
                     /\ ~rec'.terminal
                     /\ rec'.state \in {"submitted_working", "submitted_unknown"}
               /\ pc'[q] = "decide" => snap'[q].occupant = rec'.target
    <3>1. CASE q = p
      BY <3>1 DEF OutsidePCs
    <3>2. CASE q # p /\ pc[q] \in InsidePCs \cup SubmitPCs
      BY <1>2, <1>4, <3>2 DEF IInv, StageOfProcesses
    <3>3. CASE q # p /\ pc[q] \notin InsidePCs \cup SubmitPCs
      <4>1. pc'[q] \notin InsidePCs \cup SubmitPCs
        BY <1>2, <3>3
      <4>2. pc'[q] # "polling"
        BY <1>5, <1>6 DEF LockDiscipline, CallerPCs, CallerPrivate
      <4>3. QED
        BY <4>1, <4>2 DEF InsidePCs, SubmitPCs
    <3>4. QED
      BY <3>1, <3>2, <3>3
  <2>5. QED
    BY <2>1, <2>2, <2>3, <2>4 DEF StageOfProcesses, PrivatePCs
<1>10. PushBehindDelivery'
  <2> SUFFICES ASSUME NEW q \in Procs
               PROVE  /\ force'[q] => q \in Workers /\ pc'[q] # "idle"
                      /\ force'[q] /\ Held(rec') => rec'.decision
                      /\ pc'[q] = "baseline" /\ rec'.state = "awaiting_decision"
                            => rec'.decision
    BY DEF PushBehindDelivery
  <2>1. CASE q = p
    BY <2>1 DEF OutsidePCs
  <2>2. CASE q # p
    <3>1. pc'[q] = "baseline" => rec' = rec
      BY <1>2, <1>4, <2>2 DEF SubmitPCs
    <3>2. QED
      BY <1>2, <2>2, <3>1 DEF IInv, PushBehindDelivery
  <2>3. QED
    BY <2>1, <2>2
<1>11. PromptsWhileSubmitting'
  <2>1. pc'[Caller] \notin {"start", "resolve", "direct"}
    BY <1>5 DEF CallerPrivate
  <2>2. pc'[p] \notin {"submitting", "sent"}
    BY DEF OutsidePCs
  <2>3. QED
    BY <1>2, <2>1, <2>2 DEF IInv, PromptsWhileSubmitting
<1>12. QED
  BY <1>6, <1>7, <1>8, <1>9, <1>10, <1>11 DEF IInv, AtMostOnePrompt

\* Nobody moves, and the record is rewritten while it is not locked.
LEMMA QuietWrite ==
  ASSUME TypeOK, IInv, ~CallerPrivate, lock = NoOne,
         UNCHANGED <<lock, procVars, prompts>>,
         StateConsistent(rec'), PromptsBehind(rec', prompts),
         rec'.state \in {"none", "resolving"} => rec' = rec,
         Held(rec') => \A q \in Procs : force[q] => rec'.decision
  PROVE  IInv'
<1>1. Caller \in Procs /\ Caller \notin Workers /\ NoOne \notin Procs
  BY ProcsKnown, ProcessesDistinct
<1>2. OthersKept(Caller) /\ Release(Caller)
  BY <1>1 DEF OthersKept, procVars, Release
<1>3. pc'[Caller] = pc[Caller] /\ ~force'[Caller]
  BY <1>1 DEF procVars, IInv, PushBehindDelivery
<1>4. pc[Caller] \in OutsidePCs
  <2>1. pc[Caller] \notin InsidePCs
    BY <1>1 DEF IInv, LockDiscipline
  <2>2. pc[Caller] \notin PrivatePCs \cup SubmitPCs
    BY <1>1 DEF CallerPrivate, PrivatePCs, SubmitPCs
  <2>3. pc[Caller] \in PCs
    BY <1>1 DEF TypeOK
  <2>4. QED
    BY <2>1, <2>2, <2>3 DEF PCs, OutsidePCs, InsidePCs, PrivatePCs, SubmitPCs
<1>5. rec.state \in {"none", "resolving"} => pc[Caller] = "done"
  BY <1>4 DEF IInv, StageOfProcesses, OutsidePCs
<1>6. UNCHANGED prompts
  OBVIOUS
<1>7. QED
  BY <1>1, <1>2, <1>3, <1>4, <1>5, <1>6, LeaveStep

\* p takes the lock of a record it has just read.
LEMMA EnterStep ==
  ASSUME TypeOK, IInv, NEW p \in Procs, ~CallerPrivate, lock = NoOne,
         OthersKept(p), lock' = p, UNCHANGED <<rec, prompts>>,
         mem'[p] = rec, force'[p] = force[p],
         \/ pc'[p] = "recheck" /\ Held(rec)
         \/ pc'[p] = "notified" /\ rec.state = "awaiting_decision"
         \/ /\ pc'[p] = "observing"
            /\ ~rec.terminal
            /\ rec.state \in {"submitted_working", "submitted_unknown"}
  PROVE  IInv'
<1>0. Caller \in Procs /\ NoOne \notin Procs
  BY ProcsKnown, ProcessesDistinct
<1> USE <1>0
<1>1. \A q \in Procs \ {p} : pc'[q] = pc[q] /\ pc[q] \notin InsidePCs \cup SubmitPCs
  BY WriterAlone DEF OthersKept
<1>2. pc'[p] \in {"recheck", "notified", "observing"}
  OBVIOUS
<1>3. pc'[Caller] \notin PrivatePCs \cup SubmitPCs
  BY <1>1, <1>2 DEF CallerPrivate, PrivatePCs, SubmitPCs
<1>4. rec.state \notin {"none", "resolving"}
  BY DEF Held
<1>5. LockDiscipline'
  BY <1>1, <1>2 DEF IInv, LockDiscipline, InsidePCs, SubmitPCs, CallerPCs
<1>6. AloneWhilePrivate'
  BY <1>3 DEF AloneWhilePrivate, CallerPrivate, PrivatePCs, SubmitPCs
<1>7. CopiesCurrent'
  BY <1>3 DEF CopiesCurrent, NoLostUpdate, PrivatePCs
<1>8. StageOfProcesses'
  <2>1. ASSUME NEW q \in Procs
        PROVE  /\ pc'[q] \in {"recheck", "decide", "notified"} => Held(rec')
               /\ pc'[q] = "notified" => rec'.state = "awaiting_decision"
               /\ pc'[q] = "baseline" => Held(rec') \/ rec'.state = "resolving"
               /\ pc'[q] \in {"submitting", "sent"} =>
                     rec'.state = "submitted_unknown" /\ rec'.submitted = "null"
               /\ pc'[q] \in {"submitting", "sent", "observing", "polling"} =>
                     /\ ~rec'.terminal
                     /\ rec'.state \in {"submitted_working", "submitted_unknown"}
               /\ pc'[q] = "decide" => snap'[q].occupant = rec'.target
    <3>1. CASE q = p
      BY <1>2, <3>1 DEF Held
    <3>2. CASE q # p
      BY <1>1, <3>2 DEF IInv, StageOfProcesses, InsidePCs, SubmitPCs
    <3>3. QED
      BY <3>1, <3>2
  <2>2. QED
    BY <1>3, <1>4, <2>1 DEF StageOfProcesses, PrivatePCs
<1>9. PushBehindDelivery'
  BY <1>1, <1>2 DEF IInv, PushBehindDelivery, OthersKept, SubmitPCs
<1>10. PromptsWhileSubmitting'
  BY <1>1, <1>2, <1>3 DEF PromptsWhileSubmitting, SubmitPCs, PrivatePCs
<1>11. QED
  BY <1>5, <1>6, <1>7, <1>8, <1>9, <1>10 DEF IInv, AtMostOnePrompt

\* p, who alone may write the record, saves it and goes on.
LEMMA HoldStep ==
  ASSUME TypeOK, IInv, NEW p \in Procs,
         \/ lock = p /\ pc'[p] \in {"decide"} \cup SubmitPCs
         \/ /\ p = Caller /\ CallerPrivate
            /\ pc'[p] \in {"polling"} \cup SubmitPCs
            /\ ~Held(rec') /\ ~rec'.watched,
         OthersKept(p), lock' = lock, mem'[p] = rec', force'[p] = force[p],
         StateConsistent(rec'), PromptsBehind(rec', prompts'), AtMostOnePrompt',
         rec'.state # "none",
         rec'.state = "resolving" => lock # p /\ pc'[p] = "baseline",
         Held(rec') => Held(rec) /\ rec'.decision = rec.decision,
         pc'[p] = "decide" => Held(rec') /\ snap'[p].occupant = rec'.target,
         pc'[p] = "baseline" =>
            /\ Held(rec') \/ rec'.state = "resolving"
            /\ rec'.state = "awaiting_decision" => rec'.decision,
         pc'[p] \in {"submitting", "sent"} =>
            rec'.state = "submitted_unknown" /\ rec'.submitted = "null",
         pc'[p] \in {"submitting", "sent", "polling"} =>
            /\ ~rec'.terminal
            /\ rec'.state \in {"submitted_working", "submitted_unknown"},
         pc'[p] = "submitting" => prompts' = 0,
         pc'[p] = "sent" => /\ answer'[p] # "none"
                            /\ answer'[p] = "accepted" => prompts' = 1
                            /\ answer'[p] = "refused" => prompts' = 0
  PROVE  IInv'
<1>0. Caller \in Procs /\ NoOne \notin Procs
  BY ProcsKnown, ProcessesDistinct
<1> USE <1>0
<1>1. p = Caller \/ ~CallerPrivate
  BY DEF IInv, AloneWhilePrivate
<1>2. lock \in {NoOne, p}
  BY DEF IInv, AloneWhilePrivate
<1>3. \A q \in Procs \ {p} : pc'[q] = pc[q] /\ pc[q] \notin InsidePCs \cup SubmitPCs
  BY <1>1, <1>2, WriterAlone DEF OthersKept
<1>4. pc'[p] \in {"decide", "polling"} \cup SubmitPCs
  OBVIOUS
<1>5. p # Caller => pc'[Caller] \notin PrivatePCs \cup SubmitPCs
  BY <1>1, <1>3 DEF CallerPrivate, PrivatePCs, SubmitPCs
<1>6. LockDiscipline'
  BY <1>2, <1>3, <1>4
  DEF IInv, LockDiscipline, AloneWhilePrivate, InsidePCs, SubmitPCs, CallerPCs
<1>7. AloneWhilePrivate'
  <2>1. CASE lock = p
    <3>1. p = Caller => ~CallerPrivate
      BY <2>1 DEF IInv, AloneWhilePrivate
    <3>2. p = Caller => ~CallerPrivate'
      BY <2>1, <3>1 DEF CallerPrivate, SubmitPCs
    <3>3. p # Caller => ~CallerPrivate'
      BY <1>5 DEF CallerPrivate, PrivatePCs, SubmitPCs
    <3>4. QED
      BY <3>2, <3>3 DEF AloneWhilePrivate
  <2>2. CASE lock # p
    BY <1>3, <2>2 DEF IInv, AloneWhilePrivate
  <2>3. QED
    BY <2>1, <2>2
<1>8. CopiesCurrent'
  BY <1>2, <1>4, <1>5 DEF CopiesCurrent, NoLostUpdate, PrivatePCs, SubmitPCs
<1>9. StageOfProcesses'
  <2>1. ASSUME NEW q \in Procs
        PROVE  /\ pc'[q] \in {"recheck", "decide", "notified"} => Held(rec')
               /\ pc'[q] = "notified" => rec'.state = "awaiting_decision"
               /\ pc'[q] = "baseline" => Held(rec') \/ rec'.state = "resolving"
               /\ pc'[q] \in {"submitting", "sent"} =>
                     rec'.state = "submitted_unknown" /\ rec'.submitted = "null"
               /\ pc'[q] \in {"submitting", "sent", "observing", "polling"} =>
                     /\ ~rec'.terminal
                     /\ rec'.state \in {"submitted_working", "submitted_unknown"}
               /\ pc'[q] = "decide" => snap'[q].occupant = rec'.target
    <3>1. CASE q = p
      BY <1>4, <3>1 DEF SubmitPCs
    <3>2. CASE q # p
      <4>1. pc'[q] # "polling"
        BY <1>0, <1>1, <1>3, <3>2 DEF IInv, LockDiscipline, CallerPCs, CallerPrivate
      <4>2. QED
        BY <1>3, <3>2, <4>1 DEF InsidePCs, SubmitPCs
    <3>3. QED
      BY <3>1, <3>2
  <2>2. pc'[Caller] \notin {"start", "resolve", "direct", "exit"}
    BY <1>4, <1>5 DEF PrivatePCs, SubmitPCs
  <2>3. rec'.state = "resolving" => pc'[Caller] = "baseline" /\ lock' = NoOne
    BY <1>2
  <2>4. QED
    BY <2>1, <2>2, <2>3 DEF StageOfProcesses
<1>10. PushBehindDelivery'
  BY <1>3, <1>4 DEF IInv, PushBehindDelivery, OthersKept, SubmitPCs
<1>11. PromptsWhileSubmitting'
  BY <1>3, <1>4, <1>5 DEF PromptsWhileSubmitting, SubmitPCs, PrivatePCs
<1>12. QED
  BY <1>6, <1>7, <1>8, <1>9, <1>10, <1>11 DEF IInv

\* The caller goes on alone, before it has a record with an addressee.
LEMMA PrivateStep ==
  ASSUME TypeOK, IInv, CallerPrivate, OthersKept(Caller), lock' = lock,
         force'[Caller] = force[Caller] \/ ~force'[Caller],
         \/ /\ pc'[Caller] = "resolve" /\ mem'[Caller] = NewRecord
            /\ rec' = (IF mode' = "request" THEN NewRecord ELSE NoRecord)
            /\ prompts' = 0
         \/ pc'[Caller] = "direct" /\ rec' = NoRecord /\ prompts' = 0
         \/ pc'[Caller] = "exit" /\ rec' = NoRecord /\ prompts' \in {0, 1}
  PROVE  IInv'
<1>0. /\ Caller \in Procs /\ NoOne \notin Procs /\ Caller \notin Workers
      /\ lock = NoOne
  BY ProcsKnown, ProcessesDistinct DEF IInv, AloneWhilePrivate
<1> USE <1>0
<1>1. \A q \in Procs \ {Caller} : pc'[q] = "idle"
  BY DEF IInv, AloneWhilePrivate, OthersKept
<1>2. pc'[Caller] \in {"resolve", "direct", "exit"} /\ ~Held(rec')
  BY NewRecordFields DEF Held
<1>3. LockDiscipline'
  BY <1>1, <1>2 DEF LockDiscipline, InsidePCs, SubmitPCs, CallerPCs
<1>4. AloneWhilePrivate'
  BY <1>1, <1>2, NewRecordFields DEF AloneWhilePrivate
<1>5. CopiesCurrent'
  BY <1>2 DEF CopiesCurrent, NoLostUpdate, SubmitPCs
<1>6. StageOfProcesses'
  BY <1>1, <1>2, NewRecordFields DEF StageOfProcesses
<1>7. StateConsistent(rec') /\ PromptsBehind(rec', prompts')
  BY <1>2, NewRecordFields DEF StateConsistent, PromptsBehind
<1>8. PushBehindDelivery'
  BY <1>1, <1>2 DEF IInv, PushBehindDelivery, OthersKept
<1>9. PromptsWhileSubmitting' /\ AtMostOnePrompt'
  BY <1>1, <1>2 DEF PromptsWhileSubmitting, AtMostOnePrompt
<1>10. QED
  BY <1>3, <1>4, <1>5, <1>6, <1>7, <1>8, <1>9 DEF IInv

-----------------------------------------------------------------------------
(* Every step keeps the invariant.                                         *)

LEMMA SaveStep ==
  ASSUME TypeOK, IInv, NEW p \in Procs, p = Caller \/ ~CallerPrivate,
         lock \in {NoOne, p}, UNCHANGED prompts,
         NEW l \in OutsidePCs, l \in {"waiting", "mark"} => p = Caller,
         NEW r, SaveAndLeave(p, l, r),
         StateConsistent(r), PromptsBehind(r, prompts),
         r.state \in {"none", "resolving"} => r = rec /\ (p = Caller => l = "done"),
         Held(r) => \A q \in Procs \ {p} : force[q] => r.decision
  PROVE  IInv'
<1>1. OthersKept(p) /\ pc'[p] = l /\ ~force'[p]
  BY LeaveKeepsOthers DEF SaveAndLeave
<1>2. rec' = r /\ Release(p)
  BY DEF SaveAndLeave
<1>3. QED
  BY <1>1, <1>2, LeaveStep

\* What the place of a process says about its rights.
LEMMA RightsOf ==
  ASSUME IInv, NEW p \in Procs
  PROVE  /\ pc[p] # "idle" => p = Caller \/ ~CallerPrivate
         /\ pc[p] \in OutsidePCs => ~CallerPrivate \/ pc[p] = "idle"
         /\ pc[p] \in InsidePCs => lock = p /\ mem[p] = rec /\ ~CallerPrivate
         /\ pc[p] \in SubmitPCs =>
               /\ mem[p] = rec
               /\ \/ lock = p /\ ~CallerPrivate
                  \/ /\ p = Caller /\ CallerPrivate /\ lock = NoOne
                     /\ ~Held(rec) /\ ~rec.watched
         /\ CallerPrivate => lock = NoOne /\ lock # p
<1>0. Caller \in Procs /\ NoOne \notin Procs
  BY ProcsKnown, ProcessesDistinct
<1>1. CallerPrivate => lock = NoOne /\ ~Held(rec) /\ ~rec.watched
                       /\ \A q \in Procs \ {Caller} : pc[q] = "idle"
  BY DEF IInv, AloneWhilePrivate
<1>2. pc[p] # "idle" => p = Caller \/ ~CallerPrivate
  BY <1>1
<1>3. pc[p] \in OutsidePCs => ~CallerPrivate \/ pc[p] = "idle"
  <2>1. p = Caller /\ pc[p] \in OutsidePCs => ~CallerPrivate
    BY DEF CallerPrivate, OutsidePCs
  <2>2. QED
    BY <1>1, <2>1
<1>4. pc[p] \in InsidePCs => lock = p /\ mem[p] = rec /\ ~CallerPrivate
  BY <1>0, <1>1 DEF IInv, LockDiscipline, CopiesCurrent, NoLostUpdate
<1>5. pc[p] \in SubmitPCs /\ lock = p => mem[p] = rec /\ ~CallerPrivate
  BY <1>0, <1>1 DEF IInv, CopiesCurrent, NoLostUpdate
<1>6. pc[p] \in SubmitPCs /\ lock # p =>
         p = Caller /\ CallerPrivate /\ mem[p] = rec
  BY DEF IInv, LockDiscipline, CopiesCurrent, CallerPrivate, SubmitPCs
<1>7. QED
  BY <1>0, <1>1, <1>2, <1>3, <1>4, <1>5, <1>6

\* A record that failed undelivered, and one that was submitted, are
\* consistent.
LEMMA FailedConsistent ==
  ASSUME NEW r, NEW n,
         r.state = "submission_failed", r.terminal, r.submitted = "no", n = 0
  PROVE  StateConsistent(r) /\ PromptsBehind(r, n) /\ ~Held(r)
BY DEF StateConsistent, PromptsBehind, Held

LEMMA SubmittedConsistent ==
  ASSUME NEW r, NEW n,
         r.state \in {"submitted_working", "submitted_unknown", "submitted_settled"},
         r.state = "submitted_settled" => r.terminal,
         r.submitted = "no" => n = 0,
         r.submitted = "yes" => n = 1
  PROVE  StateConsistent(r) /\ PromptsBehind(r, n) /\ ~Held(r)
BY DEF StateConsistent, PromptsBehind, Held

LEMMA CallerSafe ==
  ASSUME TypeOK, IInv, CallerStep
  PROVE  IInv'
<1>0. /\ Caller \in Procs /\ NoOne \notin Procs /\ Caller \notin Workers
      /\ mem[Caller] \in Records /\ rec \in Records
  BY ProcsKnown, ProcessesDistinct DEF TypeOK
<1> USE <1>0
<1>1. CASE Begin
  <2>1. CallerPrivate /\ rec = NoRecord /\ prompts = 0
    BY <1>1 DEF Begin, CallerPrivate, IInv, StageOfProcesses, PromptsWhileSubmitting
  <2>2. OthersKept(Caller) /\ pc'[Caller] = "resolve" /\ mem'[Caller] = NewRecord
    BY <1>1, KeepKeepsOthers DEF Begin, OthersKept
  <2>3. /\ rec' = (IF mode' = "request" THEN NewRecord ELSE NoRecord)
        /\ lock' = lock /\ force' = force /\ prompts' = 0
    BY <1>1, <2>1 DEF Begin, Keep, ghostVars
  <2>4. QED
    BY <2>1, <2>2, <2>3, PrivateStep
<1>2. ASSUME pc[Caller] = "resolve"
      PROVE  /\ CallerPrivate /\ lock = NoOne /\ prompts = 0
             /\ mem[Caller] = NewRecord
             /\ \A q \in Procs : ~force[q]
             /\ rec = IF mode = "request" THEN NewRecord ELSE NoRecord
  <2>1. CallerPrivate
    BY <1>2 DEF CallerPrivate
  <2>2. QED
    BY <1>2, <2>1 DEF IInv, AloneWhilePrivate, CopiesCurrent, StageOfProcesses,
                      PromptsWhileSubmitting, PushBehindDelivery
<1>3. CASE ResolveUnreachable \/ RejectSelfSend
  <2>1. PICK l \in {"done", "returned"} : SaveAndLeave(Caller, l, Failed(mem[Caller]))
    BY <1>3 DEF ResolveUnreachable, RejectSelfSend
  <2>2. pc[Caller] = "resolve" /\ UNCHANGED prompts
    BY <1>3 DEF ResolveUnreachable, RejectSelfSend, ghostVars
  <2>3. l \in OutsidePCs /\ l \notin {"waiting", "mark"}
    BY DEF OutsidePCs
  <2>4. QED
    BY <1>2, <2>1, <2>2, <2>3, FailedFields, FailedConsistent, SaveStep
<1>4. CASE Defer
  <2> DEFINE r == HeldRecord(mem[Caller])
  <2>1. PICK l \in {"waiting", "returned"} : SaveAndLeave(Caller, l, r)
    BY <1>4 DEF Defer
  <2>2. pc[Caller] = "resolve" /\ UNCHANGED prompts
    BY <1>4 DEF Defer, ghostVars
  <2>3. StateConsistent(r) /\ PromptsBehind(r, prompts) /\ r.state = "deferred"
    BY <1>2, <2>2, HeldRecordFields, NewRecordFields
    DEF StateConsistent, PromptsBehind, Held
  <2>4. l \in OutsidePCs
    BY DEF OutsidePCs
  <2> HIDE DEF r
  <2>5. QED
    BY <1>2, <2>1, <2>2, <2>3, <2>4, SaveStep
<1>5. CASE SubmitNow
  <2> DEFINE r == Capturing(mem[Caller], LookUp)
  <2>1. /\ r.state = "resolving" /\ ~r.terminal /\ r.submitted = "null"
        /\ r.baseline = "none" /\ ~r.watched
    BY <1>2, <1>5, CapturingFields, LookUpType, NewRecordFields DEF SubmitNow
  <2>2. /\ rec' = r /\ mem'[Caller] = r /\ pc'[Caller] = "baseline"
        /\ lock' = lock /\ force' = force /\ prompts' = prompts
    BY <1>5, KeepKeepsOthers DEF SubmitNow, ghostVars
  <2>3. OthersKept(Caller)
    BY <1>5, KeepKeepsOthers DEF SubmitNow, OthersKept, TypeOK
  <2> HIDE DEF r
  <2>4. /\ StateConsistent(rec') /\ PromptsBehind(rec', prompts')
        /\ AtMostOnePrompt' /\ ~Held(rec')
    BY <1>2, <1>5, <2>1, <2>2
    DEF SubmitNow, StateConsistent, PromptsBehind, AtMostOnePrompt, Held
  <2>5. QED
    BY <1>2, <1>5, <2>1, <2>2, <2>3, <2>4, HoldStep DEF SubmitNow, SubmitPCs
<1>6. CASE SendNow
  <2>1. /\ mode = "send" /\ pc'[Caller] = "direct" /\ prompts' = prompts
        /\ lock' = lock /\ force' = force /\ rec' = rec
    BY <1>6, KeepKeepsOthers DEF SendNow, ghostVars
  <2>2. OthersKept(Caller)
    BY <1>6, KeepKeepsOthers DEF SendNow, OthersKept, TypeOK
  <2>3. rec' = NoRecord
    BY <1>2, <1>6, <2>1 DEF SendNow
  <2>4. QED
    BY <1>2, <1>6, <2>1, <2>2, <2>3, PrivateStep DEF SendNow
<1>7. CASE CancelSubmission
  <2> DEFINE r == [Failed(mem[Caller]) EXCEPT !.wait = "cancelled"]
  <2>1. pc[Caller] = "baseline" /\ lock # Caller /\ UNCHANGED prompts
        /\ SaveAndLeave(Caller, "returned", r)
    BY <1>7 DEF CancelSubmission, ghostVars
  <2>2. lock = NoOne /\ mem[Caller] = rec /\ ~Held(rec)
    BY <2>1, RightsOf DEF SubmitPCs
  <2>3. rec.state = "resolving" /\ prompts = 0
    BY <2>1, <2>2 DEF IInv, StageOfProcesses, PromptsBehind
  <2>4. r.state = "submission_failed" /\ r.terminal /\ r.submitted = "no"
    <3>1. Failed(mem[Caller]) \in Records
      BY RecordHelpers
    <3>2. QED
      BY <3>1, FailedFields DEF Records
  <2> HIDE DEF r
  <2>5. QED
    BY <2>1, <2>2, <2>3, <2>4, FailedConsistent, SaveStep DEF OutsidePCs
<1>8. CASE TransmitDirect
  <2>1. CallerPrivate /\ rec = NoRecord /\ prompts = 0
    BY <1>8 DEF TransmitDirect, CallerPrivate, IInv, StageOfProcesses,
                PromptsWhileSubmitting
  <2>2. OthersKept(Caller) /\ pc'[Caller] = "exit" /\ ~force'[Caller]
    BY <1>8, LeaveKeepsOthers DEF TransmitDirect
  <2>3. rec' = rec /\ lock' = lock /\ prompts' \in {0, 1}
    BY <1>8, <2>1 DEF TransmitDirect, Arrives
  <2>4. QED
    BY <2>1, <2>2, <2>3, PrivateStep
<1>9. CASE ExitDirect
  <2>1. rec = NoRecord
    BY <1>9 DEF ExitDirect, IInv, StageOfProcesses
  <2>2. /\ OthersKept(Caller) /\ pc'[Caller] = "done" /\ ~force'[Caller]
        /\ rec' = rec /\ UNCHANGED prompts
    BY <1>9, LeaveKeepsOthers DEF ExitDirect, ghostVars
  <2>3. Release(Caller)
    BY <1>9, RightsOf DEF ExitDirect, Release, CallerPrivate
  <2>4. StateConsistent(rec') /\ PromptsBehind(rec', prompts) /\ ~Held(rec')
    BY <2>1, <2>2, NewRecordFields DEF IInv, Held
  <2>5. QED
    BY <2>2, <2>3, <2>4, LeaveStep DEF OutsidePCs
<1>10. CASE Poll
  <2>1. /\ CallerPrivate /\ mem[Caller] = rec /\ lock = NoOne
        /\ ~Held(rec) /\ ~rec.watched /\ ~rec.terminal
    BY <1>10 DEF Poll, CallerPrivate, IInv, AloneWhilePrivate, CopiesCurrent,
                 StageOfProcesses
  <2>2. PICK r \in Observed(rec) :
           IF r.terminal
           THEN SaveAndLeave(Caller, "returned", r)
           ELSE /\ rec' = r
                /\ Keep(Caller, "polling", r)
                /\ UNCHANGED <<lock, snap, force, answer>>
    BY <1>10, <2>1 DEF Poll
  <2>3. /\ r.state \in {"submitted_working", "submitted_unknown", "submitted_settled"}
        /\ r.state = "submitted_settled" => r.terminal
        /\ r.submitted = rec.submitted /\ r.watched = rec.watched
    BY ObservedFields DEF SameOrigin
  <2>4. StateConsistent(r) /\ PromptsBehind(r, prompts) /\ ~Held(r)
    BY <2>3, SubmittedConsistent DEF IInv, PromptsBehind
  <2>5. UNCHANGED prompts
    BY <1>10 DEF Poll, ghostVars
  <2>6. CASE r.terminal
    BY <2>1, <2>2, <2>3, <2>4, <2>5, <2>6, SaveStep DEF OutsidePCs
  <2>7. CASE ~r.terminal
    <3>1. /\ rec' = r /\ mem'[Caller] = r /\ pc'[Caller] = "polling"
          /\ lock' = lock /\ force' = force
      BY <2>2, <2>7, KeepKeepsOthers
    <3>2. OthersKept(Caller)
      BY <2>2, <2>7, KeepKeepsOthers DEF OthersKept
    <3>3. AtMostOnePrompt'
      BY <2>5 DEF IInv, AtMostOnePrompt
    <3>4. QED
      BY <2>1, <2>3, <2>4, <2>5, <2>7, <3>1, <3>2, <3>3, HoldStep DEF SubmitPCs
  <2>8. QED
    BY <2>6, <2>7
<1>11. CASE StopPolling
  <2>1. mem[Caller] = rec /\ lock = NoOne
    BY <1>11 DEF StopPolling, CallerPrivate, IInv, AloneWhilePrivate, CopiesCurrent
  <2>2. PICK w : SaveAndLeave(Caller, "returned", GaveUp(rec, w))
    BY <1>11, <2>1 DEF StopPolling
  <2>3. /\ GaveUp(rec, w).state \in {"submitted_working", "submitted_unknown"}
        /\ GaveUp(rec, w).submitted = rec.submitted
    BY GaveUpFields
  <2>4. /\ StateConsistent(GaveUp(rec, w)) /\ PromptsBehind(GaveUp(rec, w), prompts)
        /\ ~Held(GaveUp(rec, w))
    BY <2>3, SubmittedConsistent DEF IInv, PromptsBehind
  <2>5. UNCHANGED prompts
    BY <1>11 DEF StopPolling, ghostVars
  <2>6. QED
    BY <2>1, <2>2, <2>3, <2>4, <2>5, SaveStep DEF OutsidePCs
<1>12. ASSUME pc[Caller] \in {"waiting", "mark"}
       PROVE  /\ ~CallerPrivate
              /\ rec.state \notin {"none", "resolving"}
              /\ StateConsistent(rec) /\ PromptsBehind(rec, prompts)
              /\ Held(rec) => \A q \in Procs : force[q] => rec.decision
  BY <1>12 DEF CallerPrivate, IInv, StageOfProcesses, PushBehindDelivery
<1>13. CASE WaitPoll
  <2>1. /\ pc'[Caller] = "deliver" /\ OthersKept(Caller) /\ force' = force
        /\ rec' = rec /\ lock' = lock /\ UNCHANGED prompts
    BY <1>13 DEF WaitPoll, OthersKept, TypeOK, ghostVars
  <2>2. Release(Caller)
    <3>1. lock # Caller
      BY <1>13 DEF WaitPoll, IInv, LockDiscipline, InsidePCs, SubmitPCs
    <3>2. QED
      BY <2>1, <3>1 DEF Release
  <2>3. ~force[Caller]
    BY DEF IInv, PushBehindDelivery
  <2>4. QED
    BY <1>12, <1>13, <2>1, <2>2, <2>3, LeaveStep DEF WaitPoll, OutsidePCs
<1>14. CASE WaitTimeout
  <2> DEFINE r == IF Held(rec) \/ rec.terminal THEN rec
                  ELSE GaveUp(rec, "timed_out")
  <2>1. /\ SaveAndLeave(Caller, "returned", r) /\ pc[Caller] = "waiting"
        /\ lock = NoOne /\ UNCHANGED prompts
    BY <1>14 DEF WaitTimeout, ghostVars
  <2>2. /\ StateConsistent(r) /\ PromptsBehind(r, prompts)
        /\ r.state \notin {"none", "resolving"}
        /\ Held(r) => r = rec
    <3>1. CASE Held(rec) \/ rec.terminal
      BY <1>12, <2>1, <3>1
    <3>2. CASE ~(Held(rec) \/ rec.terminal)
      <4>1. r.state \in {"submitted_working", "submitted_unknown"}
            /\ r.submitted = rec.submitted
        BY <3>2, GaveUpFields
      <4> HIDE DEF r
      <4>2. QED
        BY <4>1, SubmittedConsistent DEF IInv, PromptsBehind
    <3>3. QED
      BY <3>1, <3>2
  <2> HIDE DEF r
  <2>3. QED
    BY <1>12, <2>1, <2>2, SaveStep DEF OutsidePCs
<1>15. CASE WaitCancel
  <2>1. /\ pc[Caller] = "waiting" /\ lock = NoOne /\ UNCHANGED prompts
        /\ SaveAndLeave(Caller, IF Cancelled(rec).terminal THEN "returned" ELSE "mark",
                        Cancelled(rec))
    BY <1>15 DEF WaitCancel, ghostVars
  <2>2. (IF Cancelled(rec).terminal THEN "returned" ELSE "mark") \in OutsidePCs
    BY DEF OutsidePCs
  <2>3. CASE Held(rec)
    <3>1. prompts = 0 /\ Cancelled(rec) = Failed(rec)
      BY <2>3, CancelledFields DEF IInv, PromptsBehind
    <3>2. /\ StateConsistent(Failed(rec)) /\ PromptsBehind(Failed(rec), prompts)
          /\ ~Held(Failed(rec)) /\ Failed(rec).state = "submission_failed"
      BY <3>1, FailedFields, FailedConsistent
    <3>3. QED
      BY <2>1, <2>2, <3>1, <3>2, SaveStep
  <2>4. CASE ~Held(rec)
    <3>1. Cancelled(rec) = rec
      BY <2>4, CancelledFields
    <3>2. QED
      BY <1>12, <2>1, <2>2, <2>4, <3>1, SaveStep
  <2>5. QED
    BY <2>3, <2>4
<1>16. CASE MarkCancelled
  <2> DEFINE r == IF rec.terminal THEN rec ELSE [rec EXCEPT !.wait = "cancelled"]
  <2>1. /\ SaveAndLeave(Caller, "returned", r) /\ pc[Caller] = "mark"
        /\ lock = NoOne /\ UNCHANGED prompts
    BY <1>16 DEF MarkCancelled, ghostVars
  <2>2. /\ r.state = rec.state /\ r.terminal = rec.terminal
        /\ r.submitted = rec.submitted /\ r.baseline = rec.baseline
        /\ r.decision = rec.decision
    BY DEF Records
  <2> HIDE DEF r
  <2>3. StateConsistent(r) /\ PromptsBehind(r, prompts) /\ (Held(r) <=> Held(rec))
    BY <1>12, <2>1, <2>2 DEF StateConsistent, PromptsBehind, Held
  <2>4. QED
    BY <1>12, <2>1, <2>2, <2>3, SaveStep DEF OutsidePCs
<1>17. QED
  BY <1>1, <1>3, <1>4, <1>5, <1>6, <1>7, <1>8, <1>9, <1>10, <1>11, <1>13,
     <1>14, <1>15, <1>16 DEF CallerStep

LEMMA LockedSafe ==
  ASSUME TypeOK, IInv, NEW p \in Procs, LockedStep(p)
  PROVE  IInv'
<1>0. /\ Caller \in Procs /\ NoOne \notin Procs
      /\ mem[p] \in Records /\ rec \in Records /\ snap[p] \in Snapshots
  BY ProcsKnown, ProcessesDistinct DEF TypeOK
<1> USE <1>0
<1>1. /\ StateConsistent(rec) /\ PromptsBehind(rec, prompts)
      /\ prompts <= 1 /\ prompts \in Nat
      /\ Held(rec) => prompts = 0
      /\ Held(rec) => \A q \in Procs : force[q] => rec.decision
      /\ rec.state = "submitted_settled" => rec.terminal
      /\ rec.state \in {"none", "resolving"} =>
            lock = NoOne /\ pc[Caller] \in PrivatePCs \cup {"baseline", "done"}
  BY DEF IInv, PushBehindDelivery, PromptsBehind, StateConsistent, AtMostOnePrompt,
         TypeOK, StageOfProcesses, PrivatePCs
<1>2. ASSUME NEW r PROVE AfterDeliver(p, r) \in OutsidePCs
                         /\ AfterObserve(p, r) \in OutsidePCs
  BY DEF AfterDeliver, AfterObserve, OutsidePCs
<1>3. ASSUME NEW r
      PROVE  /\ AfterDeliver(p, r) \in {"waiting", "mark"} => p = Caller
             /\ AfterObserve(p, r) \in {"waiting", "mark"} => p = Caller
  BY DEF AfterDeliver, AfterObserve
<1>4. CASE LoadHeld(p)
  <2> DEFINE v == Validated(rec)
  <2>1. /\ pc[p] = "deliver" /\ lock = NoOne /\ UNCHANGED prompts
        /\ ~CallerPrivate
    BY <1>4, RightsOf DEF LoadHeld, ghostVars, OutsidePCs
  <2>2. CASE Held(v)
    <3>1. v = rec
      BY <2>2, ValidatedFields, FailedFields DEF Held
    <3>2. /\ lock' = p /\ Keep(p, "recheck", rec)
          /\ UNCHANGED <<rec, snap, force, answer>>
      BY <1>4, <2>2, <3>1 DEF LoadHeld
    <3>3. OthersKept(p) /\ pc'[p] = "recheck" /\ mem'[p] = rec /\ force'[p] = force[p]
      BY <3>2, KeepKeepsOthers DEF OthersKept
    <3>4. QED
      BY <2>1, <2>2, <3>1, <3>2, <3>3, EnterStep
  <2>3. CASE ~Held(v)
    <3>1. SaveAndLeave(p, AfterDeliver(p, v), v)
      BY <1>4, <2>3 DEF LoadHeld
    <3>2. v = rec \/ (v = Failed(rec) /\ prompts = 0)
      BY <1>1, ValidatedFields
    <3>3. StateConsistent(v) /\ PromptsBehind(v, prompts)
      BY <1>1, <3>2, FailedFields, FailedConsistent
    <3>4. v.state \in {"none", "resolving"} => v = rec /\ p # Caller
      BY <1>1, <2>1, <3>2, FailedFields DEF PrivatePCs
    <3> HIDE DEF v
    <3>5. QED
      BY <1>2, <1>3, <2>1, <2>3, <3>1, <3>3, <3>4, SaveStep
  <2>4. QED
    BY <2>2, <2>3
<1>5. ASSUME pc[p] \in {"recheck", "decide", "observing"}
      PROVE  lock = p /\ mem[p] = rec /\ ~CallerPrivate
  BY <1>5, RightsOf DEF InsidePCs
<1>6. CASE LoseHeld(p)
  <2>1. /\ pc[p] = "recheck" /\ UNCHANGED prompts
        /\ SaveAndLeave(p, AfterDeliver(p, Failed(mem[p])), Failed(mem[p]))
    BY <1>6 DEF LoseHeld, ghostVars
  <2>2. Held(rec)
    BY <2>1 DEF IInv, StageOfProcesses
  <2>3. QED
    BY <1>1, <1>2, <1>3, <1>5, <2>1, <2>2, FailedFields, FailedConsistent, SaveStep
<1>7. CASE RecheckHeld(p)
  <2>1. /\ pc[p] = "recheck" /\ pc'[p] = "decide" /\ mem' = mem /\ lock' = lock
        /\ rec' = rec /\ prompts' = prompts /\ force' = force
        /\ snap'[p].occupant = mem[p].target
    BY <1>7 DEF RecheckHeld, LookUp, TypeOK, ghostVars
  <2>2. OthersKept(p)
    BY <1>7 DEF RecheckHeld, OthersKept, TypeOK
  <2>3. Held(rec) /\ rec.state # "none" /\ rec.state # "resolving"
    BY <2>1 DEF IInv, StageOfProcesses, Held
  <2>4. AtMostOnePrompt'
    BY <1>1, <2>1 DEF AtMostOnePrompt
  <2>5. QED
    BY <1>1, <1>5, <2>1, <2>2, <2>3, <2>4, HoldStep DEF SubmitPCs
<1>8. CASE KeepHolding(p)
  <2> DEFINE kept == IF overdue
                     THEN [mem[p] EXCEPT !.state = "awaiting_decision"]
                     ELSE mem[p]
  <2>1. /\ pc[p] = "decide" /\ UNCHANGED prompts
        /\ SaveAndLeave(p, AfterDeliver(p, kept), kept)
    BY <1>8 DEF KeepHolding, ghostVars
  <2>2. Held(rec)
    BY <2>1 DEF IInv, StageOfProcesses
  <2>3. /\ Held(kept) /\ kept.terminal = rec.terminal /\ kept.submitted = rec.submitted
        /\ kept.baseline = rec.baseline /\ kept.decision = rec.decision
    BY <1>5, <2>1, <2>2 DEF Records, Held
  <2> HIDE DEF kept
  <2>4. /\ StateConsistent(kept) /\ PromptsBehind(kept, prompts)
        /\ kept.state \notin {"none", "resolving"}
    BY <1>1, <2>2, <2>3 DEF StateConsistent, PromptsBehind, Held
  <2>5. QED
    BY <1>1, <1>2, <1>3, <1>5, <2>1, <2>2, <2>3, <2>4, SaveStep
<1>9. CASE ReleaseHeld(p)
  <2> DEFINE r == Capturing(mem[p], snap[p])
  <2>1. /\ pc[p] = "decide" /\ rec' = r /\ pc'[p] = "baseline" /\ mem'[p] = r
        /\ lock' = lock /\ prompts' = prompts /\ force' = force
    BY <1>9, KeepKeepsOthers DEF ReleaseHeld, ghostVars
  <2>2. OthersKept(p)
    BY <1>9, KeepKeepsOthers DEF ReleaseHeld, OthersKept
  <2>3. Held(rec)
    BY <2>1 DEF IInv, StageOfProcesses
  <2>4. /\ r.state = rec.state /\ r.terminal = rec.terminal
        /\ r.submitted = rec.submitted /\ r.baseline = rec.baseline
        /\ r.decision = rec.decision
    BY <1>5, <2>1, CapturingFields
  <2>5. rec.state = "awaiting_decision" => rec.decision
    BY <1>1, <1>5, <1>9, <2>1, <2>3 DEF ReleaseHeld, MayDeliver, PushGranted
  <2> HIDE DEF r
  <2>6. /\ StateConsistent(r) /\ PromptsBehind(r, prompts) /\ Held(r)
        /\ r.state \notin {"none", "resolving"}
    BY <1>1, <2>3, <2>4 DEF StateConsistent, PromptsBehind, Held
  <2>7. AtMostOnePrompt'
    BY <1>1, <2>1 DEF AtMostOnePrompt
  <2>8. QED
    BY <1>5, <2>1, <2>2, <2>3, <2>4, <2>5, <2>6, <2>7, HoldStep DEF SubmitPCs
<1>10. ASSUME pc[p] \in SubmitPCs
       PROVE  /\ mem[p] = rec
              /\ \/ lock = p /\ ~CallerPrivate
                 \/ /\ p = Caller /\ CallerPrivate /\ lock = NoOne
                    /\ ~Held(rec) /\ ~rec.watched
  BY <1>10, RightsOf
<1>11. CASE Commit(p)
  <2>1. PICK b \in {"ok", "error"} : rec' = Committed(mem[p], b)
    BY <1>11 DEF Commit
  <2>2. /\ pc[p] = "baseline" /\ pc'[p] = "submitting" /\ mem'[p] = rec'
        /\ lock' = lock /\ prompts' = prompts /\ force' = force
    BY <1>11, KeepKeepsOthers DEF Commit, ghostVars
  <2>3. OthersKept(p)
    BY <1>11, KeepKeepsOthers DEF Commit, OthersKept
  <2>4. mem[p] = rec
    BY <1>10, <2>2 DEF SubmitPCs
  <2>5. (Held(rec) \/ rec.state = "resolving") /\ ~rec.terminal /\ prompts = 0
    BY <1>1, <2>2 DEF IInv, StageOfProcesses, PromptsBehind, StateConsistent
  <2>6. /\ rec'.state = "submitted_unknown" /\ ~rec'.terminal
        /\ rec'.submitted = "null" /\ rec'.watched = Held(rec)
    BY <2>1, <2>4, <2>5, CommittedFields
  <2>7. StateConsistent(rec') /\ PromptsBehind(rec', prompts') /\ ~Held(rec')
    BY <2>6, SubmittedConsistent
  <2>8. AtMostOnePrompt'
    BY <1>1, <2>2 DEF AtMostOnePrompt
  <2>9. QED
    BY <1>10, <2>2, <2>3, <2>5, <2>6, <2>7, <2>8, HoldStep DEF SubmitPCs
<1>12. CASE Transmit(p)
  <2>1. /\ pc[p] = "submitting" /\ pc'[p] = "sent" /\ mem' = mem
        /\ lock' = lock /\ rec' = rec /\ force' = force
    BY <1>12 DEF Transmit, TypeOK
  <2>2. OthersKept(p)
    BY <1>12 DEF Transmit, OthersKept, TypeOK
  <2>3. /\ prompts = 0 /\ ~rec.terminal
        /\ rec.state = "submitted_unknown" /\ rec.submitted = "null"
    BY <2>1 DEF IInv, StageOfProcesses, PromptsWhileSubmitting
  <2>4. /\ answer'[p] # "none" /\ prompts' \in {0, 1}
        /\ answer'[p] = "accepted" => prompts' = 1
        /\ answer'[p] = "refused" => prompts' = 0
    BY <1>12, <2>3 DEF Transmit, Arrives, TypeOK
  <2>5. StateConsistent(rec') /\ PromptsBehind(rec', prompts') /\ ~Held(rec')
    BY <2>1, <2>3, SubmittedConsistent
  <2>6. AtMostOnePrompt'
    BY <2>4 DEF AtMostOnePrompt
  <2>7. QED
    BY <1>10, <2>1, <2>2, <2>3, <2>4, <2>5, <2>6, HoldStep DEF SubmitPCs
<1>13. CASE RecordAnswer(p)
  <2> DEFINE r == Answered(mem[p], answer[p])
  <2>1. pc[p] = "sent" /\ UNCHANGED prompts /\ mem[p] = rec
    BY <1>10, <1>13 DEF RecordAnswer, SubmitPCs, ghostVars
  <2>2. /\ ~rec.terminal /\ rec.state = "submitted_unknown"
        /\ answer[p] \in {"accepted", "refused", "unknown"}
        /\ answer[p] = "accepted" => prompts = 1
        /\ answer[p] = "refused" => prompts = 0
    BY <2>1 DEF IInv, StageOfProcesses, PromptsWhileSubmitting, TypeOK
  <2>3. /\ StateConsistent(r) /\ PromptsBehind(r, prompts) /\ ~Held(r)
        /\ r.state \notin {"none", "resolving"}
        /\ ~r.terminal => /\ r.watched = rec.watched
                          /\ r.state \in {"submitted_working", "submitted_unknown"}
    <3>1. CASE answer[p] = "refused"
      BY <2>1, <2>2, <3>1, AnsweredFields, FailedFields, FailedConsistent
    <3>2. CASE answer[p] # "refused"
      <4>1. /\ r.state \in {"submitted_working", "submitted_unknown"}
            /\ r.submitted = (IF answer[p] = "accepted" THEN "yes" ELSE "null")
            /\ r.watched = rec.watched
        BY <2>1, <3>2, AnsweredFields DEF SameOrigin
      <4> HIDE DEF r
      <4>2. QED
        BY <2>2, <4>1, SubmittedConsistent
    <3>3. QED
      BY <3>1, <3>2
  <2>4. CASE lock = p
    <3>1. SaveAndLeave(p, AfterDeliver(p, r), r)
      BY <1>13, <2>4 DEF RecordAnswer
    <3>2. ~CallerPrivate
      BY <2>4, RightsOf
    <3> HIDE DEF r
    <3>3. QED
      BY <1>2, <1>3, <2>1, <2>3, <2>4, <3>1, <3>2, SaveStep
  <2>5. CASE lock # p
    <3>1. p = Caller /\ CallerPrivate /\ lock = NoOne /\ ~rec.watched
      BY <1>10, <2>1, <2>5 DEF SubmitPCs
    <3>2. CASE r.terminal
      <4>1. SaveAndLeave(p, "returned", r)
        BY <1>13, <2>5, <3>2 DEF RecordAnswer
      <4> HIDE DEF r
      <4>2. QED
        BY <2>1, <2>3, <3>1, <4>1, SaveStep DEF OutsidePCs
    <3>3. CASE ~r.terminal
      <4>1. /\ rec' = r
            /\ Keep(p, "polling", r)
            /\ snap' = [snap EXCEPT ![p] = NoSnap]
            /\ answer' = [answer EXCEPT ![p] = "none"]
            /\ UNCHANGED <<lock, force>>
        BY <1>13, <2>5, <3>3 DEF RecordAnswer
      <4> HIDE DEF r
      <4>2. /\ pc'[p] = "polling" /\ mem'[p] = r /\ force'[p] = force[p]
            /\ OthersKept(p)
        BY <4>1, KeepKeepsOthers DEF OthersKept, TypeOK
      <4>3. AtMostOnePrompt'
        BY <1>1, <2>1 DEF AtMostOnePrompt
      <4>4. QED
        BY <2>1, <2>3, <3>1, <3>3, <4>1, <4>2, <4>3, HoldStep DEF SubmitPCs
    <3>4. QED
      BY <3>2, <3>3
  <2>6. QED
    BY <2>4, <2>5
<1>14. CASE LoadSubmitted(p)
  <2>1. /\ pc[p] = "observe" /\ lock = NoOne /\ UNCHANGED prompts
        /\ ~CallerPrivate
    BY <1>14, RightsOf DEF LoadSubmitted, ghostVars, OutsidePCs
  <2>2. rec.state \in {"none", "resolving"} => p # Caller
    BY <1>1, <2>1 DEF PrivatePCs
  <2>3. CASE rec.terminal \/ rec.baseline = "none"
    <3>1. PICK l \in OutsidePCs : /\ SaveAndLeave(p, l, rec)
                                  /\ l \in {"waiting", "mark"} => p = Caller
      <4>1. CASE rec.terminal
        BY <1>2, <1>3, <1>14, <4>1 DEF LoadSubmitted
      <4>2. CASE ~rec.terminal
        BY <1>14, <2>3, <4>2 DEF LoadSubmitted, OutsidePCs
      <4>3. QED
        BY <4>1, <4>2
    <3>2. QED
      BY <1>1, <2>1, <2>2, <3>1, SaveStep
  <2>4. CASE ~(rec.terminal \/ rec.baseline = "none")
    <3>1. lock' = p /\ Keep(p, "observing", rec) /\ UNCHANGED <<rec, snap, force, answer>>
      BY <1>14, <2>4 DEF LoadSubmitted
    <3>2. OthersKept(p) /\ pc'[p] = "observing" /\ mem'[p] = rec /\ force'[p] = force[p]
      BY <3>1, KeepKeepsOthers DEF OthersKept
    <3>3. rec.state \in {"submitted_working", "submitted_unknown"}
      BY <1>1, <2>4 DEF StateConsistent, Held, Records, States
    <3>4. QED
      BY <2>1, <2>4, <3>1, <3>2, <3>3, EnterStep
  <2>5. QED
    BY <2>3, <2>4
<1>15. CASE Observe(p)
  <2>1. PICK r : /\ r \in Observed(mem[p]) \/ r = mem[p]
                 /\ SaveAndLeave(p, AfterObserve(p, r), r)
    BY <1>15 DEF Observe
  <2>2. pc[p] = "observing" /\ UNCHANGED prompts
    BY <1>15 DEF Observe, ghostVars
  <2>3. /\ ~rec.terminal
        /\ rec.state \in {"submitted_working", "submitted_unknown"}
    BY <2>2 DEF IInv, StageOfProcesses
  <2>4. StateConsistent(r) /\ PromptsBehind(r, prompts) /\ ~Held(r)
        /\ r.state \notin {"none", "resolving"}
    <3>1. CASE r = mem[p]
      BY <1>1, <1>5, <2>2, <2>3, <3>1 DEF Held
    <3>2. CASE r \in Observed(mem[p])
      <4>1. /\ r.state \in {"submitted_working", "submitted_unknown", "submitted_settled"}
            /\ r.state = "submitted_settled" => r.terminal
            /\ r.submitted = rec.submitted
        BY <1>5, <2>2, <3>2, ObservedFields
      <4>2. QED
        BY <1>1, <4>1, SubmittedConsistent DEF PromptsBehind
    <3>3. QED
      BY <2>1, <3>1, <3>2
  <2>5. QED
    BY <1>2, <1>3, <1>5, <2>1, <2>2, <2>4, SaveStep
<1>16. QED
  BY <1>4, <1>6, <1>7, <1>8, <1>9, <1>11, <1>12, <1>13, <1>14, <1>15
  DEF LockedStep

LEMMA WorkerSafe ==
  ASSUME TypeOK, IInv, NEW w \in Workers, WorkerStep(w)
  PROVE  IInv'
<1>0. /\ w \in Procs /\ w # Caller /\ Caller \in Procs /\ NoOne \notin Procs
      /\ rec \in Records /\ mem[w] \in Records
  BY ProcsKnown, ProcessesDistinct DEF TypeOK
<1> USE <1>0
<1>1. /\ StateConsistent(rec) /\ PromptsBehind(rec, prompts)
      /\ Held(rec) => prompts = 0
      /\ Held(rec) => \A q \in Procs : force[q] => rec.decision
  BY DEF IInv, PushBehindDelivery, PromptsBehind
<1>2. CASE BeginTick(w)
  <2> DEFINE v == Validated(rec)
  <2>1. /\ pc[w] = "idle" /\ lock = NoOne /\ lock' = lock /\ rec' = v
        /\ UNCHANGED prompts /\ Pending(rec)
    BY <1>2 DEF BeginTick, ghostVars
  <2>2. ~CallerPrivate
    BY <2>1 DEF IInv, AloneWhilePrivate, Pending
  <2>3. v = rec \/ (v = Failed(rec) /\ Held(rec))
    BY ValidatedFields
  <2>4. /\ StateConsistent(v) /\ PromptsBehind(v, prompts)
        /\ v.state \in {"none", "resolving"} => v = rec
        /\ Held(v) => v = rec
    <3>1. CASE v = rec
      BY <1>1, <3>1
    <3>2. CASE v = Failed(rec) /\ Held(rec)
      BY <1>1, <3>2, FailedFields, FailedConsistent
    <3>3. QED
      BY <2>3, <3>1, <3>2
  <2>5. v.decision \in BOOLEAN
    BY RecordHelpers DEF Records
  <2>6. Release(w)
    BY <2>1 DEF Release
  <2>7. CASE v.terminal
    <3>1. UNCHANGED procVars
      BY <1>2, <2>7 DEF BeginTick
    <3> HIDE DEF v
    <3>2. QED
      BY <1>1, <2>1, <2>2, <2>4, <3>1, QuietWrite
  <2>8. CASE ~v.terminal /\ (v.decision \/ v.state = "deferred")
    <3>1. /\ pc' = [pc EXCEPT ![w] = "deliver"]
          /\ force' = [force EXCEPT ![w] = v.decision]
          /\ UNCHANGED <<mem, snap, answer, mode>>
      BY <1>2, <2>8 DEF BeginTick
    <3> HIDE DEF v
    <3>2. OthersKept(w) /\ pc'[w] = "deliver" /\ force'[w] = v.decision
      BY <2>5, <3>1 DEF OthersKept, TypeOK
    <3>3. QED
      BY <1>1, <2>1, <2>2, <2>4, <2>6, <3>2, LeaveStep DEF OutsidePCs
  <2>9. CASE ~v.terminal /\ ~(v.decision \/ v.state = "deferred")
    <3>1. Leave(w, AfterDeliver(w, v), v)
      BY <1>2, <2>9 DEF BeginTick
    <3>2. SaveAndLeave(w, AfterDeliver(w, v), v)
      BY <2>1, <2>6, <3>1 DEF SaveAndLeave
    <3>3. AfterDeliver(w, v) \in OutsidePCs \ {"waiting", "mark"}
      BY DEF AfterDeliver, OutsidePCs
    <3> HIDE DEF v
    <3>4. QED
      BY <1>1, <2>1, <2>2, <2>4, <3>2, <3>3, SaveStep
  <2>10. QED
    BY <2>7, <2>8, <2>9
<1>3. CASE Notify(w)
  <2>1. /\ pc[w] = "notify" /\ lock = NoOne /\ rec' = rec /\ UNCHANGED prompts
    BY <1>3 DEF Notify
  <2>2. ~CallerPrivate
    BY <2>1, RightsOf
  <2>3. CASE rec.state = "awaiting_decision" /\ ~rec.notified
    <3>1. lock' = w /\ Keep(w, "notified", rec) /\ UNCHANGED <<snap, force, answer>>
      BY <1>3, <2>3 DEF Notify
    <3>2. OthersKept(w) /\ pc'[w] = "notified" /\ mem'[w] = rec /\ force'[w] = force[w]
      BY <3>1, KeepKeepsOthers DEF OthersKept
    <3>3. QED
      BY <2>1, <2>2, <2>3, <3>1, <3>2, EnterStep
  <2>4. CASE ~(rec.state = "awaiting_decision" /\ ~rec.notified)
    <3>1. Leave(w, "idle", rec) /\ lock' = lock
      BY <1>3, <2>4 DEF Notify
    <3>2. SaveAndLeave(w, "idle", rec)
      BY <2>1, <3>1 DEF SaveAndLeave, Release
    <3>3. QED
      BY <1>1, <2>1, <2>2, <3>2, SaveStep DEF OutsidePCs
  <2>5. QED
    BY <2>3, <2>4
<1>4. CASE SaveNotified(w)
  <2>1. PICK saved \in BOOLEAN :
           SaveAndLeave(w, "idle", [mem[w] EXCEPT !.notified = saved])
    BY <1>4 DEF SaveNotified
  <2> DEFINE r == [mem[w] EXCEPT !.notified = saved]
  <2>2. pc[w] = "notified" /\ UNCHANGED prompts
    BY <1>4 DEF SaveNotified, ghostVars
  <2>3. mem[w] = rec /\ lock = w /\ ~CallerPrivate
    BY <2>2, RightsOf DEF InsidePCs
  <2>4. Held(rec)
    BY <2>2 DEF IInv, StageOfProcesses, Held
  <2>5. /\ r.state = rec.state /\ r.terminal = rec.terminal
        /\ r.submitted = rec.submitted /\ r.baseline = rec.baseline
        /\ r.decision = rec.decision
    BY <2>3 DEF Records
  <2>6. SaveAndLeave(w, "idle", r)
    BY <2>1
  <2> HIDE DEF r
  <2>7. /\ StateConsistent(r) /\ PromptsBehind(r, prompts)
        /\ r.state \notin {"none", "resolving"}
    BY <1>1, <2>4, <2>5 DEF StateConsistent, PromptsBehind, Held
  <2>8. QED
    BY <1>1, <2>2, <2>3, <2>4, <2>5, <2>6, <2>7, SaveStep DEF OutsidePCs
<1>5. QED
  BY <1>2, <1>3, <1>4 DEF WorkerStep

LEMMA OtherSafe ==
  ASSUME TypeOK, IInv,
         \/ \E v \in Viewers : BeginStatus(v)
         \/ \E p \in Procs : StoreRoute(p) \/ Crash(p)
         \/ UserStep
         \/ EnvStep
  PROVE  IInv'
<1>0. /\ Caller \in Procs /\ NoOne \notin Procs /\ rec \in Records
      /\ Viewers \subseteq Procs /\ Caller \notin Viewers
  BY ProcsKnown, ProcessesDistinct DEF TypeOK
<1> USE <1>0
<1>1. /\ StateConsistent(rec) /\ PromptsBehind(rec, prompts)
      /\ Held(rec) => prompts = 0
      /\ Held(rec) => \A q \in Procs : force[q] => rec.decision
      /\ Held(rec) => ~CallerPrivate
  BY DEF IInv, PushBehindDelivery, PromptsBehind, AloneWhilePrivate
<1>2. ASSUME NEW v \in Viewers, BeginStatus(v)
      PROVE  IInv'
  <2>1. /\ pc[v] = "idle" /\ ~CallerPrivate
        /\ pc'[v] = "deliver" /\ OthersKept(v) /\ force' = force
        /\ rec' = rec /\ lock' = lock /\ UNCHANGED prompts
    BY <1>2 DEF BeginStatus, OthersKept, TypeOK, ghostVars
  <2>2. Release(v)
    <3>1. lock # v
      BY <2>1 DEF IInv, LockDiscipline, InsidePCs, SubmitPCs
    <3>2. QED
      BY <2>1, <3>1 DEF Release
  <2>3. ~force'[v]
    BY <2>1 DEF IInv, PushBehindDelivery
  <2>4. QED
    BY <1>1, <2>1, <2>2, <2>3, LeaveStep DEF OutsidePCs
<1>3. ASSUME NEW p \in Procs, StoreRoute(p)
      PROVE  IInv'
  <2>1. /\ pc[p] = "returned" /\ lock = NoOne /\ lock' = lock /\ rec' = rec
        /\ UNCHANGED prompts
    BY <1>3 DEF StoreRoute, Merged, ghostVars
  <2>2. /\ OthersKept(p) /\ ~force'[p]
        /\ pc'[p] = (IF p = Caller THEN "done" ELSE "idle")
    BY <1>3, LeaveKeepsOthers DEF StoreRoute
  <2>3. p = Caller \/ ~CallerPrivate
    BY <2>1, RightsOf
  <2>4. Release(p)
    BY <2>1 DEF Release
  <2>5. QED
    BY <1>1, <2>1, <2>2, <2>3, <2>4, LeaveStep DEF OutsidePCs
<1>4. ASSUME NEW p \in Procs, Crash(p)
      PROVE  IInv'
  <2>1. pc[p] # "idle" /\ Release(p) /\ rec' = rec /\ UNCHANGED prompts
    BY <1>4 DEF Crash, ghostVars
  <2>2. /\ OthersKept(p) /\ ~force'[p]
        /\ pc'[p] = (IF p = Caller THEN "done" ELSE "idle")
    BY <1>4, LeaveKeepsOthers DEF Crash
  <2>3. p = Caller \/ ~CallerPrivate
    BY <2>1, RightsOf
  <2>4. QED
    BY <1>1, <2>1, <2>2, <2>3, LeaveStep DEF OutsidePCs
<1>5. CASE UserCancel
  <2>1. /\ Held(rec) /\ lock = NoOne /\ rec' = Failed(rec)
        /\ UNCHANGED <<lock, procVars, prompts>>
    BY <1>5, CancelledFields DEF UserCancel, ghostVars
  <2>2. StateConsistent(rec') /\ PromptsBehind(rec', prompts) /\ ~Held(rec')
        /\ rec'.state = "submission_failed"
    BY <1>1, <2>1, FailedFields, FailedConsistent
  <2>3. QED
    BY <1>1, <2>1, <2>2, QuietWrite
<1>6. CASE UserPush
  <2>1. /\ Held(rec) /\ lock = NoOne
        /\ rec' = IF rec.wellFormed THEN [rec EXCEPT !.decision = TRUE] ELSE Failed(rec)
        /\ UNCHANGED <<lock, procVars, prompts>>
    BY <1>6, PushedFields DEF UserPush, ghostVars
  <2>2. CASE rec.wellFormed
    <3>1. /\ rec'.state = rec.state /\ rec'.terminal = rec.terminal
          /\ rec'.submitted = rec.submitted /\ rec'.baseline = rec.baseline
          /\ rec'.decision
      BY <2>1, <2>2 DEF Records
    <3>2. StateConsistent(rec') /\ PromptsBehind(rec', prompts)
          /\ rec'.state \notin {"none", "resolving"}
      BY <1>1, <2>1, <3>1 DEF StateConsistent, PromptsBehind, Held
    <3>3. QED
      BY <1>1, <2>1, <3>1, <3>2, QuietWrite
  <2>3. CASE ~rec.wellFormed
    <3>1. StateConsistent(rec') /\ PromptsBehind(rec', prompts) /\ ~Held(rec')
          /\ rec'.state = "submission_failed"
      BY <1>1, <2>1, <2>3, FailedFields, FailedConsistent
    <3>2. QED
      BY <1>1, <2>1, <3>1, QuietWrite
  <2>4. QED
    BY <2>2, <2>3
<1>7. CASE Damage
  <2>1. /\ Held(rec) /\ lock = NoOne /\ rec' = [rec EXCEPT !.wellFormed = FALSE]
        /\ UNCHANGED <<lock, procVars, prompts>>
    BY <1>7 DEF Damage, ghostVars
  <2>2. /\ rec'.state = rec.state /\ rec'.terminal = rec.terminal
        /\ rec'.submitted = rec.submitted /\ rec'.baseline = rec.baseline
        /\ rec'.decision = rec.decision
    BY <2>1 DEF Records
  <2>3. StateConsistent(rec') /\ PromptsBehind(rec', prompts)
        /\ rec'.state \notin {"none", "resolving"}
    BY <1>1, <2>1, <2>2 DEF StateConsistent, PromptsBehind, Held
  <2>4. QED
    BY <1>1, <2>1, <2>2, <2>3, QuietWrite
<1>8. CASE EnvStep /\ ~Damage
  <2>1. UNCHANGED <<rec, lock, procVars, prompts>>
    BY <1>8 DEF EnvStep, FocusMoves, OccupantChanges, ForeignTurnStarts,
                RequestedTurnStarts, TurnEnds, DeadlinePasses, WatchRunsOut,
                ghostVars
  <2>2. QED
    BY <2>1 DEF procVars, IInv, LockDiscipline, AloneWhilePrivate, CallerPrivate,
                CopiesCurrent, NoLostUpdate, StageOfProcesses, PushBehindDelivery,
                AtMostOnePrompt, PromptsWhileSubmitting
<1>9. QED
  BY <1>2, <1>3, <1>4, <1>5, <1>6, <1>7, <1>8 DEF UserStep

\* The whole invariant: in every reachable state.
THEOREM InvariantHolds == Spec => [](TypeOK /\ IInv)
<1>1. Init => IInv
  <2> SUFFICES ASSUME Init PROVE IInv
    OBVIOUS
  <2>1. /\ Caller \in Procs /\ NoOne \notin Procs /\ pc[Caller] = "start"
        /\ \A p \in Procs \ {Caller} : pc[p] = "idle"
        /\ rec = NoRecord /\ lock = NoOne /\ prompts = 0
        /\ \A p \in Procs : ~force[p]
    BY ProcsKnown, ProcessesDistinct DEF Init
  <2>2. LockDiscipline
    BY <2>1 DEF LockDiscipline, InsidePCs, SubmitPCs, CallerPCs
  <2>3. AloneWhilePrivate /\ CopiesCurrent
    BY <2>1, NewRecordFields
    DEF AloneWhilePrivate, CopiesCurrent, NoLostUpdate, SubmitPCs, Held
  <2>4. StageOfProcesses
    BY <2>1, NewRecordFields DEF StageOfProcesses
  <2>5. StateConsistent(rec) /\ PromptsBehind(rec, prompts)
    BY <2>1, NewRecordFields DEF StateConsistent, PromptsBehind
  <2>6. PushBehindDelivery /\ PromptsWhileSubmitting /\ AtMostOnePrompt
    BY <2>1 DEF PushBehindDelivery, PromptsWhileSubmitting, AtMostOnePrompt
  <2>7. QED
    BY <2>2, <2>3, <2>4, <2>5, <2>6 DEF IInv
<1>2. TypeOK /\ IInv /\ [Next]_vars => IInv'
  <2>1. CASE UNCHANGED vars
    BY <2>1 DEF vars, procVars, ghostVars, IInv, LockDiscipline, AloneWhilePrivate,
                CallerPrivate, CopiesCurrent, NoLostUpdate, StageOfProcesses,
                PushBehindDelivery, AtMostOnePrompt, PromptsWhileSubmitting
  <2>2. CASE Next
    BY <2>2, CallerSafe, LockedSafe, WorkerSafe, OtherSafe DEF Next
  <2>3. QED
    BY <2>1, <2>2
<1>3. QED
  BY <1>1, <1>2, TypeCorrect, PTL DEF Spec

\* The prompt of a request leaves at most once, however many processes
\* deliver it and die.
THEOREM AtMostOnePromptHolds == Spec => []AtMostOnePrompt
<1>1. IInv => AtMostOnePrompt
  BY DEF IInv
<1>2. QED
  BY <1>1, InvariantHolds, PTL

\* "submitted" never lies about the prompt, after a crash or a lost answer
\* included.
THEOREM SubmittedIsTruthfulHolds == Spec => []SubmittedIsTruthful
<1>1. IInv => SubmittedIsTruthful
  BY DEF IInv, PromptsBehind, SubmittedIsTruthful
<1>2. QED
  BY <1>1, InvariantHolds, PTL

\* Whoever owns the record's lock works on the record as it is on disk.
THEOREM NoLostUpdateHolds == Spec => []NoLostUpdate
<1>1. IInv => NoLostUpdate
  BY DEF IInv, CopiesCurrent
<1>2. QED
  BY <1>1, InvariantHolds, PTL

-----------------------------------------------------------------------------
(* 3. Steps.  Every step of the program and its environment is one of the  *)
(* moves below.                                                            *)

NotSent(r) == Held(r) \/ r.state \in {"none", "resolving"}

Submitted(r) == r.state \in {"submitted_working", "submitted_unknown"}

\* Nothing happens to the record or to the prompt.
Untouched ==
    /\ rec' = rec
    /\ prompts' = prompts
    /\ rec.state = "none" => pc'[Caller] = pc[Caller]

\* The caller of "send" gets on without a record.
WithoutRecord ==
    /\ rec' = rec
    /\ rec.state = "none"
    /\ <<pc[Caller], pc'[Caller]>> \in
          {<<"start", "resolve">>, <<"resolve", "direct">>, <<"resolve", "done">>,
           <<"direct", "exit">>, <<"direct", "done">>, <<"exit", "done">>}
    /\ prompts' = prompts \/ (pc[Caller] = "direct" /\ pc'[Caller] = "exit"
                              /\ prompts = 0 /\ prompts' = 1)

\* The message is created, held, pushed, or waits for a decision.
StaysUnsent(r, s) ==
    /\ NotSent(r)
    /\ Held(s) \/ s.state = "resolving"
    /\ Held(r) => Held(s)
    /\ r.state = "awaiting_decision" => s.state = "awaiting_decision"
    /\ s.state = "awaiting_decision" => Held(r)
    /\ r.state = "none" => pc[Caller] \in {"start", "resolve"}
    /\ r.target # NoOne => s.target = r.target
    /\ s.decision = r.decision \/ (Held(r) /\ s.state = r.state /\ s.decision)

\* The message fails undelivered.
Withdrawn(r, s) ==
    /\ NotSent(r)
    /\ s.state = "submission_failed"
    /\ s.terminal
    /\ r.state = "none" => pc[Caller] = "resolve"
    /\ r.target # NoOne => s.target = r.target

\* Delivery is committed.
Released(r, s) ==
    /\ Held(r) \/ r.state = "resolving"
    /\ r.state = "awaiting_decision" => r.decision
    /\ s.state = "submitted_unknown"
    /\ ~s.terminal
    /\ s.target = r.target

\* The prompt arrives.
Delivered ==
    /\ rec' = rec
    /\ rec.state = "submitted_unknown"
    /\ ~rec.terminal
    /\ prompts = 0
    /\ prompts' = 1

\* The answer, an observation or the end of a wait is written down.
Followed(r, s) ==
    /\ Submitted(r)
    /\ ~r.terminal
    /\ s.state \in {"submitted_working", "submitted_unknown",
                    "submitted_settled", "submission_failed"}
    /\ s.state \in {"submitted_settled", "submission_failed"} => s.terminal
    /\ s.target = r.target
    /\ s.decision = r.decision
    /\ r.turnObserved => s.turnObserved
    /\ r.waitSafe => s.waitSafe

Rewritten ==
    /\ prompts' = prompts
    /\ \/ StaysUnsent(rec, rec')
       \/ Withdrawn(rec, rec')
       \/ Released(rec, rec')
       \/ Followed(rec, rec')

RecordMove == Untouched \/ WithoutRecord \/ Delivered \/ Rewritten

-----------------------------------------------------------------------------
\* What is known of the record in every state.
LEMMA RecordFacts ==
  ASSUME TypeOK, IInv
  PROVE  /\ rec \in Records
         /\ Caller \in Procs
         /\ NotSent(rec) => ~rec.terminal /\ rec.baseline = "none"
         /\ rec.state = "none" =>
               pc[Caller] \in {"start", "resolve", "direct", "exit", "done"}
         /\ rec.state \in {"submitted_settled", "submission_failed"} => rec.terminal
         /\ rec.state \in {"none", "resolving", "deferred", "awaiting_decision",
                           "submitted_working", "submitted_unknown",
                           "submitted_settled", "submission_failed"}
BY ProcsKnown DEF TypeOK, IInv, StateConsistent, NotSent, StageOfProcesses,
                  Records, States

\* Other processes leave the caller where it is.
LEMMA SavedAndLeft ==
  ASSUME TypeOK, NEW p \in Procs, NEW l, NEW r, SaveAndLeave(p, l, r)
  PROVE  rec' = r /\ (p # Caller => pc'[Caller] = pc[Caller])
BY ProcsKnown, LeaveKeepsOthers DEF SaveAndLeave, OthersKept

LEMMA CallerMoves ==
  ASSUME TypeOK, IInv, CallerStep
  PROVE  RecordMove
<1>0. /\ Caller \in Procs /\ NoOne \notin Procs
      /\ mem[Caller] \in Records /\ rec \in Records
  BY ProcsKnown, ProcessesDistinct DEF TypeOK
<1> USE <1>0
<1>1. CASE Begin
  <2>1. /\ rec = NoRecord /\ pc[Caller] = "start" /\ pc'[Caller] = "resolve"
        /\ prompts' = prompts /\ (rec' = NoRecord \/ rec' = NewRecord)
    BY <1>1, KeepKeepsOthers DEF Begin, IInv, StageOfProcesses, ghostVars
  <2>2. CASE rec' = NoRecord
    BY <2>1, <2>2, NewRecordFields DEF RecordMove, WithoutRecord
  <2>3. CASE rec' = NewRecord
    BY <2>1, <2>3, NewRecordFields
    DEF RecordMove, Rewritten, StaysUnsent, NotSent, Held
  <2>4. QED
    BY <2>1, <2>2, <2>3
<1>2. ASSUME pc[Caller] = "resolve"
      PROVE  /\ mem[Caller] = NewRecord
             /\ NotSent(rec) /\ rec.target = NoOne /\ ~rec.decision /\ ~Held(rec)
  BY <1>2, NewRecordFields DEF IInv, CopiesCurrent, StageOfProcesses, NotSent, Held
<1>3. CASE ResolveUnreachable \/ RejectSelfSend
  <2>1. rec' = Failed(mem[Caller]) /\ pc[Caller] = "resolve" /\ prompts' = prompts
    BY <1>3 DEF ResolveUnreachable, RejectSelfSend, SaveAndLeave, ghostVars
  <2>2. QED
    BY <1>2, <2>1, FailedFields DEF RecordMove, Rewritten, Withdrawn
<1>4. CASE Defer
  <2>1. rec' = HeldRecord(mem[Caller]) /\ pc[Caller] = "resolve" /\ prompts' = prompts
    BY <1>4 DEF Defer, SaveAndLeave, ghostVars
  <2>2. rec'.state = "deferred" /\ ~rec'.decision
    BY <1>2, <2>1, HeldRecordFields, NewRecordFields
  <2>3. rec.decision \in BOOLEAN /\ rec'.decision \in BOOLEAN
    BY <1>0, <2>1, HeldRecordType DEF Records
  <2>4. rec'.decision = rec.decision
    BY <1>2, <2>1, <2>2, <2>3
  <2>5. QED
    BY <1>2, <2>1, <2>2, <2>4 DEF RecordMove, Rewritten, StaysUnsent, Held
<1>5. CASE SubmitNow
  <2>1. /\ rec' = Capturing(mem[Caller], LookUp) /\ pc[Caller] = "resolve"
        /\ prompts' = prompts /\ mode = "request"
    BY <1>5 DEF SubmitNow, ghostVars
  <2>2. rec = NewRecord
    BY <2>1 DEF IInv, StageOfProcesses
  <2>3. rec'.state = "resolving" /\ rec'.decision = rec.decision
    BY <1>2, <2>1, <2>2, CapturingFields, LookUpType, NewRecordFields
  <2>4. QED
    BY <1>2, <2>1, <2>2, <2>3, NewRecordFields
    DEF RecordMove, Rewritten, StaysUnsent, Held
<1>6. CASE SendNow
  <2>1. /\ pc[Caller] = "resolve" /\ pc'[Caller] = "direct" /\ rec' = rec
        /\ prompts' = prompts /\ mode = "send"
    BY <1>6, KeepKeepsOthers DEF SendNow, ghostVars
  <2>2. rec.state = "none"
    BY <2>1, NewRecordFields DEF IInv, StageOfProcesses
  <2>3. QED
    BY <2>1, <2>2 DEF RecordMove, WithoutRecord
<1>7. CASE CancelSubmission
  <2>1. pc[Caller] = "baseline" /\ lock # Caller /\ prompts' = prompts
        /\ rec' = [Failed(mem[Caller]) EXCEPT !.wait = "cancelled"]
    BY <1>7 DEF CancelSubmission, SaveAndLeave, ghostVars
  <2>2. mem[Caller] = rec /\ (Held(rec) \/ rec.state = "resolving")
    BY <2>1, RightsOf DEF SubmitPCs, IInv, StageOfProcesses
  <2>3. rec'.state = "submission_failed" /\ rec'.terminal /\ rec'.target = rec.target
    <3>1. Failed(rec) \in Records
      BY RecordHelpers
    <3>2. QED
      BY <2>1, <2>2, <3>1, FailedFields DEF Records, SameOrigin
  <2>4. QED
    BY <2>1, <2>2, <2>3 DEF RecordMove, Rewritten, Withdrawn, NotSent, Held
<1>8. CASE TransmitDirect
  <2>1. /\ rec.state = "none" /\ prompts = 0 /\ rec' = rec
        /\ pc[Caller] = "direct" /\ pc'[Caller] = "exit"
    BY <1>8, NewRecordFields, LeaveKeepsOthers
    DEF TransmitDirect, IInv, StageOfProcesses, PromptsWhileSubmitting
  <2>2. prompts' = prompts \/ prompts' = 1
    BY <1>8, <2>1 DEF TransmitDirect, Arrives
  <2>3. QED
    BY <2>1, <2>2 DEF RecordMove, WithoutRecord
<1>9. CASE ExitDirect
  <2>1. /\ rec.state = "none" /\ rec' = rec /\ prompts' = prompts
        /\ pc[Caller] = "exit" /\ pc'[Caller] = "done"
    BY <1>9, NewRecordFields, LeaveKeepsOthers
    DEF ExitDirect, IInv, StageOfProcesses, ghostVars
  <2>2. QED
    BY <2>1 DEF RecordMove, WithoutRecord
<1>10. CASE Poll
  <2>1. mem[Caller] = rec /\ Submitted(rec) /\ ~rec.terminal /\ prompts' = prompts
    BY <1>10 DEF Poll, IInv, CopiesCurrent, StageOfProcesses, Submitted, ghostVars
  <2>2. rec' \in Observed(rec)
    BY <1>10, <2>1 DEF Poll, SaveAndLeave
  <2>3. Followed(rec, rec')
    BY <2>1, <2>2, ObservedFields DEF Followed, SameOrigin
  <2>4. QED
    BY <2>1, <2>3 DEF RecordMove, Rewritten
<1>11. CASE StopPolling
  <2>1. mem[Caller] = rec /\ Submitted(rec) /\ ~rec.terminal /\ prompts' = prompts
    BY <1>11 DEF StopPolling, IInv, CopiesCurrent, StageOfProcesses, Submitted,
                 ghostVars
  <2>2. PICK w : rec' = GaveUp(rec, w)
    BY <1>11, <2>1 DEF StopPolling, SaveAndLeave
  <2>3. Followed(rec, rec')
    BY <2>1, <2>2, GaveUpFields DEF Followed, SameOrigin
  <2>4. QED
    BY <2>1, <2>3 DEF RecordMove, Rewritten
<1>12. ASSUME pc[Caller] \in {"waiting", "mark"}
       PROVE  rec.state \notin {"none", "resolving"}
  BY <1>12 DEF IInv, StageOfProcesses
<1>13. CASE WaitPoll
  BY <1>12, <1>13 DEF WaitPoll, RecordMove, Untouched, ghostVars
<1>14. ASSUME ~Held(rec), ~rec.terminal, rec.state \notin {"none", "resolving"}
       PROVE  Submitted(rec)
  BY <1>14, RecordFacts DEF Submitted, Held
<1>15. CASE WaitTimeout
  <2>1. /\ pc[Caller] = "waiting" /\ prompts' = prompts
        /\ rec' = IF Held(rec) \/ rec.terminal THEN rec ELSE GaveUp(rec, "timed_out")
    BY <1>15 DEF WaitTimeout, SaveAndLeave, ghostVars
  <2>2. CASE Held(rec) \/ rec.terminal
    BY <1>12, <2>1, <2>2 DEF RecordMove, Untouched
  <2>3. CASE ~(Held(rec) \/ rec.terminal)
    <3>1. Followed(rec, rec')
      BY <1>12, <1>14, <2>1, <2>3, GaveUpFields DEF Followed, SameOrigin
    <3>2. QED
      BY <2>1, <3>1 DEF RecordMove, Rewritten
  <2>4. QED
    BY <2>2, <2>3
<1>16. CASE WaitCancel
  <2>1. /\ pc[Caller] = "waiting" /\ prompts' = prompts
        /\ rec' = IF Held(rec) THEN Failed(rec) ELSE rec
    BY <1>16, CancelledFields DEF WaitCancel, SaveAndLeave, ghostVars
  <2>2. CASE ~Held(rec)
    BY <1>12, <2>1, <2>2 DEF RecordMove, Untouched
  <2>3. CASE Held(rec)
    BY <1>12, <2>1, <2>3, FailedFields
    DEF RecordMove, Rewritten, Withdrawn, NotSent, SameOrigin
  <2>4. QED
    BY <2>2, <2>3
<1>17. CASE MarkCancelled
  <2>1. /\ pc[Caller] = "mark" /\ prompts' = prompts
        /\ rec' = IF rec.terminal THEN rec ELSE [rec EXCEPT !.wait = "cancelled"]
    BY <1>17 DEF MarkCancelled, SaveAndLeave, ghostVars
  <2>2. CASE rec.terminal
    BY <1>12, <2>1, <2>2 DEF RecordMove, Untouched
  <2>3. CASE ~rec.terminal
    <3>1. /\ rec'.state = rec.state /\ rec'.terminal = rec.terminal
          /\ rec'.target = rec.target /\ rec'.decision = rec.decision
          /\ rec'.turnObserved = rec.turnObserved /\ rec'.waitSafe = rec.waitSafe
      BY <2>1, <2>3 DEF Records
    <3>2. CASE Held(rec)
      BY <1>12, <2>1, <3>1, <3>2
      DEF RecordMove, Rewritten, StaysUnsent, NotSent, Held
    <3>3. CASE ~Held(rec)
      <4>1. Submitted(rec)
        BY <1>12, <1>14, <2>1, <2>3, <3>3
      <4>2. QED
        BY <2>1, <2>3, <3>1, <4>1
        DEF RecordMove, Rewritten, Followed, Submitted
    <3>4. QED
      BY <3>2, <3>3
  <2>4. QED
    BY <2>2, <2>3
<1>18. QED
  BY <1>1, <1>3, <1>4, <1>5, <1>6, <1>7, <1>8, <1>9, <1>10, <1>11, <1>13,
     <1>15, <1>16, <1>17 DEF CallerStep

LEMMA LockedMoves ==
  ASSUME TypeOK, IInv, NEW p \in Procs, LockedStep(p)
  PROVE  RecordMove
<1>0. /\ Caller \in Procs /\ NoOne \notin Procs
      /\ mem[p] \in Records /\ rec \in Records /\ snap[p] \in Snapshots
  BY ProcsKnown, ProcessesDistinct DEF TypeOK
<1> USE <1>0
\* Only a command that never began has no record.
<1>1. rec.state = "none" => p # Caller \/ pc[p] \notin {"deliver", "observe"}
  BY RecordFacts
<1>2. ASSUME pc[p] \in InsidePCs \cup SubmitPCs
      PROVE  mem[p] = rec /\ rec.state # "none"
  <2>1. mem[p] = rec
    BY <1>2, RightsOf
  <2>2. CASE pc[p] \in SubmitPCs
    BY <2>1, <2>2 DEF IInv, StageOfProcesses, SubmitPCs, Held
  <2>3. CASE pc[p] \in InsidePCs
    BY <2>1, <2>3, RightsOf, ProcessesDistinct DEF IInv, StageOfProcesses
  <2>4. QED
    BY <1>2, <2>2, <2>3
<1>3. CASE LoadHeld(p)
  <2>1. pc[p] = "deliver" /\ prompts' = prompts
    BY <1>3 DEF LoadHeld, ghostVars
  <2>2. pc'[Caller] = pc[Caller] \/ p = Caller
    BY <1>3, LeaveKeepsOthers, KeepKeepsOthers DEF LoadHeld, SaveAndLeave, OthersKept
  <2>3. rec' = rec \/ (Held(rec) /\ rec' = Failed(rec))
    BY <1>3, ValidatedFields DEF LoadHeld, SaveAndLeave
  <2>4. CASE rec' = rec
    BY <1>1, <2>1, <2>2, <2>4 DEF RecordMove, Untouched
  <2>5. CASE Held(rec) /\ rec' = Failed(rec)
    BY <2>1, <2>5, FailedFields
    DEF RecordMove, Rewritten, Withdrawn, NotSent, SameOrigin, Held
  <2>6. QED
    BY <2>3, <2>4, <2>5
<1>4. CASE LoseHeld(p)
  <2>1. pc[p] = "recheck" /\ rec' = Failed(mem[p]) /\ prompts' = prompts
    BY <1>4 DEF LoseHeld, SaveAndLeave, ghostVars
  <2>2. mem[p] = rec /\ Held(rec)
    BY <1>2, <2>1 DEF IInv, StageOfProcesses, InsidePCs
  <2>3. QED
    BY <2>1, <2>2, FailedFields
    DEF RecordMove, Rewritten, Withdrawn, NotSent, SameOrigin, Held
<1>5. CASE RecheckHeld(p)
  BY <1>2, <1>5 DEF RecheckHeld, RecordMove, Untouched, ghostVars, InsidePCs
<1>6. CASE KeepHolding(p)
  <2>1. /\ pc[p] = "decide" /\ prompts' = prompts
        /\ rec' = IF overdue THEN [mem[p] EXCEPT !.state = "awaiting_decision"]
                  ELSE mem[p]
    BY <1>6 DEF KeepHolding, SaveAndLeave, ghostVars
  <2>2. mem[p] = rec /\ Held(rec)
    BY <1>2, <2>1 DEF IInv, StageOfProcesses, InsidePCs
  <2>3. /\ rec'.state = rec.state \/ rec'.state = "awaiting_decision"
        /\ rec'.target = rec.target /\ rec'.decision = rec.decision
    BY <2>1, <2>2 DEF Records
  <2>4. StaysUnsent(rec, rec')
    BY <2>2, <2>3 DEF StaysUnsent, NotSent, Held
  <2>5. QED
    BY <2>1, <2>4 DEF RecordMove, Rewritten
<1>7. CASE ReleaseHeld(p)
  <2>1. pc[p] = "decide" /\ prompts' = prompts /\ rec' = Capturing(mem[p], snap[p])
    BY <1>7 DEF ReleaseHeld, ghostVars
  <2>2. mem[p] = rec /\ Held(rec) /\ snap[p].occupant = rec.target
    BY <1>2, <2>1 DEF IInv, StageOfProcesses, InsidePCs
  <2>3. /\ rec'.state = rec.state
        /\ rec'.target = rec.target /\ rec'.decision = rec.decision
    BY <2>1, <2>2, CapturingFields
  <2>4. StaysUnsent(rec, rec')
    BY <2>2, <2>3 DEF StaysUnsent, NotSent, Held
  <2>5. QED
    BY <2>1, <2>4 DEF RecordMove, Rewritten
<1>8. CASE Commit(p)
  <2>1. PICK b \in {"ok", "error"} : rec' = Committed(mem[p], b)
    BY <1>8 DEF Commit
  <2>2. pc[p] = "baseline" /\ prompts' = prompts
    BY <1>8 DEF Commit, ghostVars
  <2>3. mem[p] = rec
    BY <1>2, <2>2 DEF SubmitPCs
  <2>4. /\ Held(rec) \/ rec.state = "resolving"
        /\ rec.state = "awaiting_decision" => rec.decision
        /\ ~rec.terminal
    BY <2>2 DEF IInv, StageOfProcesses, PushBehindDelivery, StateConsistent
  <2>5. Released(rec, rec')
    BY <2>1, <2>3, <2>4, CommittedFields DEF Released
  <2>6. QED
    BY <2>2, <2>5 DEF RecordMove, Rewritten
<1>9. CASE Transmit(p)
  <2>1. pc[p] = "submitting" /\ rec' = rec
    BY <1>9 DEF Transmit
  <2>2. rec.state = "submitted_unknown" /\ ~rec.terminal /\ prompts = 0
    BY <2>1 DEF IInv, StageOfProcesses, PromptsWhileSubmitting
  <2>3. prompts' = prompts \/ prompts' = 1
    BY <1>9, <2>2 DEF Transmit, Arrives
  <2>4. QED
    BY <2>1, <2>2, <2>3 DEF RecordMove, Untouched, Delivered
<1>10. CASE RecordAnswer(p)
  <2>1. pc[p] = "sent" /\ prompts' = prompts /\ rec' = Answered(mem[p], answer[p])
    BY <1>10 DEF RecordAnswer, SaveAndLeave, ghostVars
  <2>2. mem[p] = rec /\ Submitted(rec) /\ ~rec.terminal
    BY <1>2, <2>1 DEF IInv, StageOfProcesses, Submitted, SubmitPCs
  <2>3. CASE answer[p] = "refused"
    <3>1. Followed(rec, rec')
      BY <2>1, <2>2, <2>3, AnsweredFields, FailedFields DEF Followed, SameOrigin
    <3>2. QED
      BY <2>1, <3>1 DEF RecordMove, Rewritten
  <2>4. CASE answer[p] # "refused"
    <3>1. Followed(rec, rec')
      BY <2>1, <2>2, <2>4, AnsweredFields DEF Followed, SameOrigin
    <3>2. QED
      BY <2>1, <3>1 DEF RecordMove, Rewritten
  <2>5. QED
    BY <2>3, <2>4
<1>11. CASE LoadSubmitted(p)
  <2>1. pc[p] = "observe" /\ prompts' = prompts /\ rec' = rec
    BY <1>11 DEF LoadSubmitted, SaveAndLeave, ghostVars
  <2>2. pc'[Caller] = pc[Caller] \/ p = Caller
    BY <1>11, LeaveKeepsOthers, KeepKeepsOthers
    DEF LoadSubmitted, SaveAndLeave, OthersKept
  <2>3. QED
    BY <1>1, <2>1, <2>2 DEF RecordMove, Untouched
<1>12. CASE Observe(p)
  <2>1. PICK r : /\ r \in Observed(mem[p]) \/ r = mem[p]
                 /\ SaveAndLeave(p, AfterObserve(p, r), r)
    BY <1>12 DEF Observe
  <2>2. pc[p] = "observing" /\ prompts' = prompts /\ rec' = r
    BY <1>12, <2>1 DEF Observe, SaveAndLeave, ghostVars
  <2>3. mem[p] = rec /\ Submitted(rec) /\ ~rec.terminal
    BY <1>2, <2>2 DEF IInv, StageOfProcesses, Submitted, InsidePCs
  <2>4. CASE r = mem[p]
    BY <2>2, <2>3, <2>4 DEF RecordMove, Untouched, Submitted
  <2>5. CASE r \in Observed(mem[p])
    <3>1. Followed(rec, rec')
      BY <2>2, <2>3, <2>5, ObservedFields DEF Followed, SameOrigin
    <3>2. QED
      BY <2>2, <3>1 DEF RecordMove, Rewritten
  <2>6. QED
    BY <2>1, <2>4, <2>5
<1>13. QED
  BY <1>3, <1>4, <1>5, <1>6, <1>7, <1>8, <1>9, <1>10, <1>11, <1>12
  DEF LockedStep

LEMMA WorkerMoves ==
  ASSUME TypeOK, IInv, NEW w \in Workers, WorkerStep(w)
  PROVE  RecordMove
<1>0. /\ w \in Procs /\ w # Caller /\ Caller \in Procs
      /\ rec \in Records /\ mem[w] \in Records
  BY ProcsKnown, ProcessesDistinct DEF TypeOK
<1> USE <1>0
<1>1. CASE BeginTick(w)
  <2>1. rec' = Validated(rec) /\ prompts' = prompts
    BY <1>1 DEF BeginTick, ghostVars
  <2>2. pc'[Caller] = pc[Caller]
    BY <1>1, LeaveKeepsOthers DEF BeginTick, OthersKept, procVars, TypeOK
  <2>3. CASE rec' = rec
    BY <2>1, <2>2, <2>3 DEF RecordMove, Untouched
  <2>4. CASE Held(rec) /\ rec' = Failed(rec)
    BY <2>1, <2>4, FailedFields
    DEF RecordMove, Rewritten, Withdrawn, NotSent, SameOrigin, Held
  <2>5. QED
    BY <2>1, <2>3, <2>4, ValidatedFields
<1>2. CASE Notify(w)
  <2>1. rec' = rec /\ prompts' = prompts
    BY <1>2 DEF Notify
  <2>2. pc'[Caller] = pc[Caller]
    BY <1>2, LeaveKeepsOthers, KeepKeepsOthers DEF Notify, OthersKept
  <2>3. QED
    BY <2>1, <2>2 DEF RecordMove, Untouched
<1>3. CASE SaveNotified(w)
  <2>1. PICK saved \in BOOLEAN : rec' = [mem[w] EXCEPT !.notified = saved]
    BY <1>3 DEF SaveNotified, SaveAndLeave
  <2>2. pc[w] = "notified" /\ prompts' = prompts
    BY <1>3 DEF SaveNotified, ghostVars
  <2>3. mem[w] = rec /\ Held(rec)
    BY <2>2, RightsOf DEF InsidePCs, IInv, StageOfProcesses
  <2>4. /\ rec'.state = rec.state
        /\ rec'.target = rec.target /\ rec'.decision = rec.decision
    BY <2>1, <2>3 DEF Records
  <2>5. StaysUnsent(rec, rec')
    BY <2>3, <2>4 DEF StaysUnsent, NotSent, Held
  <2>6. QED
    BY <2>2, <2>5 DEF RecordMove, Rewritten
<1>4. QED
  BY <1>1, <1>2, <1>3 DEF WorkerStep

LEMMA OtherMoves ==
  ASSUME TypeOK, IInv,
         \/ \E v \in Viewers : BeginStatus(v)
         \/ \E p \in Procs : StoreRoute(p) \/ Crash(p)
         \/ UserStep
         \/ EnvStep
  PROVE  RecordMove
<1>0. /\ rec \in Records /\ Caller \in Procs /\ Viewers \subseteq Procs
      /\ Caller \notin Viewers
  BY ProcsKnown, ProcessesDistinct DEF TypeOK
<1> USE <1>0
<1>1. ASSUME NEW v \in Viewers, BeginStatus(v)
      PROVE  RecordMove
  BY <1>1 DEF BeginStatus, RecordMove, Untouched, ghostVars
<1>2. ASSUME NEW p \in Procs, StoreRoute(p)
      PROVE  RecordMove
  <2>1. pc[p] = "returned" /\ rec' = rec /\ prompts' = prompts
    BY <1>2 DEF StoreRoute, Merged, ghostVars
  <2>2. p # Caller => pc'[Caller] = pc[Caller]
    BY <1>2, LeaveKeepsOthers DEF StoreRoute, OthersKept
  <2>3. p = Caller => rec.state # "none"
    BY <2>1, RecordFacts
  <2>4. QED
    BY <2>1, <2>2, <2>3 DEF RecordMove, Untouched
<1>3. ASSUME NEW p \in Procs, Crash(p)
      PROVE  RecordMove
  <2>1. rec' = rec /\ prompts' = prompts /\ pc[p] \notin {"start", "done"}
    BY <1>3 DEF Crash, ghostVars
  <2>2. CASE p # Caller
    <3>1. pc'[Caller] = pc[Caller]
      BY <1>3, <2>2, LeaveKeepsOthers DEF Crash, OthersKept
    <3>2. QED
      BY <2>1, <3>1 DEF RecordMove, Untouched
  <2>3. CASE p = Caller
    <3>1. pc'[Caller] = "done"
      BY <1>3, <2>3, LeaveKeepsOthers DEF Crash
    <3>2. rec.state = "none" => pc[Caller] \in {"resolve", "direct", "exit"}
      BY <2>1, <2>3, RecordFacts
    <3>3. CASE rec.state = "none"
      BY <2>1, <3>1, <3>2, <3>3 DEF RecordMove, WithoutRecord
    <3>4. CASE rec.state # "none"
      BY <2>1, <3>4 DEF RecordMove, Untouched
    <3>5. QED
      BY <3>3, <3>4
  <2>4. QED
    BY <2>2, <2>3
<1>4. CASE UserCancel
  <2>1. Held(rec) /\ rec' = Failed(rec) /\ prompts' = prompts
    BY <1>4, CancelledFields DEF UserCancel, ghostVars
  <2>2. QED
    BY <2>1, FailedFields
    DEF RecordMove, Rewritten, Withdrawn, NotSent, SameOrigin, Held
<1>5. CASE UserPush
  <2>1. /\ Held(rec) /\ prompts' = prompts
        /\ rec' = IF rec.wellFormed THEN [rec EXCEPT !.decision = TRUE] ELSE Failed(rec)
    BY <1>5, PushedFields DEF UserPush, ghostVars
  <2>2. CASE rec.wellFormed
    <3>1. rec'.state = rec.state /\ rec'.target = rec.target /\ rec'.decision
      BY <2>1, <2>2 DEF Records
    <3>2. StaysUnsent(rec, rec')
      BY <2>1, <3>1 DEF StaysUnsent, NotSent, Held
    <3>3. QED
      BY <2>1, <3>2 DEF RecordMove, Rewritten
  <2>3. CASE ~rec.wellFormed
    BY <2>1, <2>3, FailedFields
    DEF RecordMove, Rewritten, Withdrawn, NotSent, SameOrigin, Held
  <2>4. QED
    BY <2>2, <2>3
<1>6. CASE Damage
  <2>1. /\ Held(rec) /\ prompts' = prompts
        /\ rec' = [rec EXCEPT !.wellFormed = FALSE]
    BY <1>6 DEF Damage, ghostVars
  <2>2. /\ rec'.state = rec.state
        /\ rec'.target = rec.target /\ rec'.decision = rec.decision
    BY <2>1 DEF Records
  <2>3. StaysUnsent(rec, rec')
    BY <2>1, <2>2 DEF StaysUnsent, NotSent, Held
  <2>4. QED
    BY <2>1, <2>3 DEF RecordMove, Rewritten
<1>7. CASE EnvStep /\ ~Damage
  <2>1. UNCHANGED <<rec, procVars, prompts>>
    BY <1>7 DEF EnvStep, FocusMoves, OccupantChanges, ForeignTurnStarts,
                RequestedTurnStarts, TurnEnds, DeadlinePasses, WatchRunsOut,
                ghostVars
  <2>2. QED
    BY <2>1 DEF procVars, RecordMove, Untouched
<1>8. QED
  BY <1>1, <1>2, <1>3, <1>4, <1>5, <1>6, <1>7 DEF UserStep

\* Every step of the program and its environment is one of the moves.
LEMMA StepMoves ==
  ASSUME TypeOK, IInv, Next
  PROVE  RecordMove
BY CallerMoves, LockedMoves, WorkerMoves, OtherMoves DEF Next

-----------------------------------------------------------------------------
(* The action properties.                                                  *)

\* A terminal result stays as it is, whoever still holds an older copy.
THEOREM TerminalIsFinalHolds == Spec => TerminalIsFinal
<1>1. TypeOK /\ IInv /\ [Next]_vars => [rec.terminal => rec' = rec]_vars
  <2> SUFFICES ASSUME TypeOK, IInv, Next, rec.terminal
               PROVE  rec' = rec
    OBVIOUS
  <2>1. RecordMove /\ ~NotSent(rec)
    BY StepMoves, RecordFacts
  <2>2. QED
    BY <2>1 DEF RecordMove, Untouched, WithoutRecord, Delivered, Rewritten,
                StaysUnsent, Withdrawn, Released, Followed, NotSent
<1>2. QED
  BY <1>1, InvariantHolds, PTL DEF Spec, TerminalIsFinal

\* No recheck, refresh or poll gives a request another addressee.
THEOREM AddresseeFixedHolds == Spec => AddresseeFixed
<1>1. TypeOK /\ IInv /\ [Next]_vars
        => [rec.target # NoOne => rec'.target = rec.target]_vars
  <2> SUFFICES ASSUME TypeOK, IInv, Next, rec.target # NoOne
               PROVE  rec'.target = rec.target
    OBVIOUS
  <2>1. RecordMove
    BY StepMoves
  <2>2. QED
    BY <2>1 DEF RecordMove, Untouched, WithoutRecord, Delivered, Rewritten,
                StaysUnsent, Withdrawn, Released, Followed
<1>2. QED
  BY <1>1, InvariantHolds, PTL DEF Spec, AddresseeFixed

\* Only a push delivers a message that waits for a decision.
THEOREM DecisionRespectedHolds == Spec => DecisionRespected
<1>1. TypeOK /\ IInv /\ [Next]_vars
        => [rec.state = "awaiting_decision" /\ rec'.state # "awaiting_decision"
              => \/ rec'.state = "submission_failed"
                 \/ rec'.state = "submitted_unknown" /\ rec.decision]_vars
  <2> SUFFICES ASSUME TypeOK, IInv, Next, rec.state = "awaiting_decision",
                      rec'.state # "awaiting_decision"
               PROVE  \/ rec'.state = "submission_failed"
                      \/ rec'.state = "submitted_unknown" /\ rec.decision
    OBVIOUS
  <2>1. RecordMove
    BY StepMoves
  <2>2. QED
    BY <2>1 DEF RecordMove, Untouched, WithoutRecord, Delivered, Rewritten,
                StaysUnsent, Withdrawn, Released, Followed, Submitted
<1>2. QED
  BY <1>1, InvariantHolds, PTL DEF Spec, DecisionRespected

\* An observed turn and a passed boundary are never taken back.
THEOREM EvidenceKeptHolds == Spec => EvidenceKept
<1>1. TypeOK /\ IInv /\ [Next]_vars
        => [rec.baseline # "none" =>
              /\ rec.turnObserved => rec'.turnObserved
              /\ rec.waitSafe => rec'.waitSafe]_vars
  <2> SUFFICES ASSUME TypeOK, IInv, Next, rec.baseline # "none"
               PROVE  /\ rec.turnObserved => rec'.turnObserved
                      /\ rec.waitSafe => rec'.waitSafe
    OBVIOUS
  <2>1. RecordMove /\ ~NotSent(rec)
    BY StepMoves, RecordFacts
  <2>2. QED
    BY <2>1 DEF RecordMove, Untouched, WithoutRecord, Delivered, Rewritten,
                StaysUnsent, Withdrawn, Released, Followed, NotSent
<1>2. QED
  BY <1>1, InvariantHolds, PTL DEF Spec, EvidenceKept

\* A decision notification is shown only while the message awaits a decision
\* and nobody is submitting it.
THEOREM NoticeOnlyWhileAwaitingHolds == Spec => NoticeOnlyWhileAwaiting
<1>1. TypeOK /\ IInv /\ [Next]_vars
        => [notices' # notices =>
              /\ rec.state = "awaiting_decision"
              /\ \A p \in Procs : pc[p] \notin {"baseline", "submitting", "sent"}]_vars
  <2> SUFFICES ASSUME TypeOK, IInv, Next, notices' # notices
               PROVE  /\ rec.state = "awaiting_decision"
                      /\ \A p \in Procs : pc[p] \notin SubmitPCs
    BY DEF SubmitPCs
  <2>1. PICK w \in Workers : Notify(w)
    BY DEF Next, CallerStep, Begin, ResolveUnreachable, RejectSelfSend, Defer,
           SubmitNow, SendNow, CancelSubmission, TransmitDirect, ExitDirect, Poll,
           StopPolling, WaitPoll, WaitTimeout, WaitCancel, MarkCancelled,
           LockedStep, LoadHeld, LoseHeld, RecheckHeld, KeepHolding, ReleaseHeld,
           Commit, Transmit, RecordAnswer, LoadSubmitted, Observe,
           WorkerStep, BeginTick, SaveNotified, BeginStatus, StoreRoute, Crash,
           UserStep, UserPush, UserCancel, EnvStep, FocusMoves, OccupantChanges,
           ForeignTurnStarts, RequestedTurnStarts, TurnEnds, DeadlinePasses,
           WatchRunsOut, Damage, ghostVars
  <2>2. /\ w \in Procs /\ pc[w] = "notify" /\ lock = NoOne
        /\ rec.state = "awaiting_decision"
    BY <2>1, ProcsKnown DEF Notify
  <2>3. ~CallerPrivate
    BY <2>2, RightsOf, ProcessesDistinct DEF OutsidePCs
  <2>4. ASSUME NEW p \in Procs
        PROVE  pc[p] \notin SubmitPCs
    BY <2>2, <2>3, RightsOf, ProcessesDistinct
  <2>5. QED
    BY <2>2, <2>4
<1>2. QED
  BY <1>1, InvariantHolds, PTL DEF Spec, NoticeOnlyWhileAwaiting

-----------------------------------------------------------------------------
(* Who gets the prompt.                                                    *)

\* Where a process has looked at the recipient and not sent the prompt yet.
SendingPCs == {"decide", "baseline", "submitting", "direct"}

\* p has seen the addressee in place, and unless somebody has stepped in
\* since it is still there.
Seen(p) == pc[p] \in SendingPCs =>
              /\ snap[p].occupant = mem[p].target
              /\ ~interloper => occupant = mem[p].target

AddresseeSeen ==
    /\ \A p \in Procs : Seen(p)
    /\ prompts = 0 => request = "absent" /\ turn # "requested"

\* p goes where it sends nothing; the others and the recipient stay.
TurnsAway(p) ==
    /\ pc'[p] \notin SendingPCs
    /\ \A q \in Procs \ {p} : pc'[q] = pc[q] /\ mem'[q] = mem[q] /\ snap'[q] = snap[q]
    /\ UNCHANGED <<occupant, interloper>>

LEMMA TurnedAway ==
  ASSUME AddresseeSeen, NEW p \in Procs, TurnsAway(p)
  PROVE  \A q \in Procs : Seen(q)'
BY DEF AddresseeSeen, Seen, TurnsAway

LEMMA LeavesAway ==
  ASSUME TypeOK, NEW p \in Procs, NEW l, NEW r, l \notin SendingPCs,
         UNCHANGED envVars, Leave(p, l, r)
  PROVE  TurnsAway(p)
BY LeaveKeepsOthers DEF OthersKept, TurnsAway, envVars

LEMMA KeepsAway ==
  ASSUME TypeOK, NEW p \in Procs, NEW l, NEW r, l \notin SendingPCs,
         UNCHANGED envVars, Keep(p, l, r),
         \A q \in Procs \ {p} : snap'[q] = snap[q]
  PROVE  TurnsAway(p)
BY KeepKeepsOthers DEF TurnsAway, envVars

LEMMA AfterAway ==
  ASSUME NEW p, NEW r
  PROVE  AfterDeliver(p, r) \notin SendingPCs /\ AfterObserve(p, r) \notin SendingPCs
BY DEF AfterDeliver, AfterObserve, SendingPCs

\* The caller's steps.
LEMMA CallerSees ==
  ASSUME TypeOK, IInv, AddresseeSeen, CallerStep
  PROVE  \A q \in Procs : Seen(q)'
<1>0. Caller \in Procs /\ mem[Caller] \in Records /\ snap \in [Procs -> Snapshots]
  BY ProcsKnown DEF TypeOK
<1> USE <1>0
<1>1. CASE Begin
  <2>1. TurnsAway(Caller)
    BY <1>1, KeepsAway DEF Begin, SendingPCs
  <2>2. QED
    BY <2>1, TurnedAway
<1>2. CASE ResolveUnreachable \/ RejectSelfSend \/ Defer \/ CancelSubmission
           \/ StopPolling \/ WaitTimeout \/ WaitCancel \/ MarkCancelled
  <2>1. PICK l, r : SaveAndLeave(Caller, l, r) /\ l \notin SendingPCs
                    /\ UNCHANGED envVars
    BY <1>2 DEF ResolveUnreachable, RejectSelfSend, Defer, CancelSubmission,
                StopPolling, WaitTimeout, WaitCancel, MarkCancelled, SendingPCs
  <2>2. QED
    BY <2>1, LeavesAway, TurnedAway DEF SaveAndLeave
<1>3. CASE TransmitDirect \/ ExitDirect
  <2>1. PICK l, r : Leave(Caller, l, r) /\ l \notin SendingPCs /\ UNCHANGED envVars
    BY <1>3 DEF TransmitDirect, ExitDirect, SendingPCs
  <2>2. QED
    BY <2>1, LeavesAway, TurnedAway
<1>4. CASE Poll
  <2>1. PICK r : \/ SaveAndLeave(Caller, "returned", r)
                 \/ Keep(Caller, "polling", r) /\ snap' = snap
    BY <1>4 DEF Poll
  <2>2. TurnsAway(Caller)
    BY <1>4, <2>1, LeavesAway, KeepsAway DEF Poll, SaveAndLeave, SendingPCs
  <2>3. QED
    BY <2>2, TurnedAway
<1>5. CASE WaitPoll
  <2>1. TurnsAway(Caller)
    BY <1>5 DEF WaitPoll, TurnsAway, SendingPCs, envVars, TypeOK
  <2>2. QED
    BY <2>1, TurnedAway
<1>6. CASE SubmitNow \/ SendNow
  <2>1. pc[Caller] = "resolve" /\ occupant' = occupant
    BY <1>6 DEF SubmitNow, SendNow
  <2>2. \A q \in Procs \ {Caller} : pc[q] = "idle"
    BY <2>1 DEF IInv, AloneWhilePrivate, CallerPrivate
  <2>3. \A q \in Procs \ {Caller} : pc'[q] = "idle"
    BY <1>6, <2>2, KeepKeepsOthers DEF SubmitNow, SendNow
  <2>4. snap'[Caller].occupant = occupant
    BY <1>6 DEF SubmitNow, SendNow, LookUp
  <2>5. mem'[Caller].target = occupant
    <3>1. CASE SubmitNow
      <4>1. mem'[Caller] = Capturing(mem[Caller], LookUp)
        BY <3>1, KeepKeepsOthers DEF SubmitNow
      <4>2. QED
        BY <4>1, LookUpType, CapturingFields DEF LookUp
    <3>2. CASE SendNow
      <4>1. mem'[Caller] = [mem[Caller] EXCEPT !.target = occupant]
        BY <3>2, KeepKeepsOthers DEF SendNow
      <4>2. QED
        BY <4>1 DEF Records
    <3>3. QED
      BY <1>6, <3>1, <3>2
  <2>6. Seen(Caller)'
    BY <2>1, <2>4, <2>5 DEF Seen
  <2>7. QED
    BY <2>3, <2>6 DEF Seen, SendingPCs
<1>7. QED
  BY <1>1, <1>2, <1>3, <1>4, <1>5, <1>6 DEF CallerStep

\* Whoever looks at the recipient under the lock is alone with the record.
LEMMA LockedSees ==
  ASSUME TypeOK, IInv, AddresseeSeen, NEW p \in Procs, LockedStep(p)
  PROVE  \A q \in Procs : Seen(q)'
<1>0. /\ Caller \in Procs /\ mem[p] \in Records /\ snap[p] \in Snapshots
      /\ snap \in [Procs -> Snapshots] /\ mem \in [Procs -> Records]
  BY ProcsKnown DEF TypeOK
<1> USE <1>0
<1>1. ASSUME TurnsAway(p)
      PROVE  \A q \in Procs : Seen(q)'
  BY <1>1, TurnedAway
<1>2. CASE LoadHeld(p)
  <2>1. \/ \E r : Keep(p, "recheck", r) /\ snap' = snap
        \/ \E l, r : SaveAndLeave(p, l, r) /\ l \notin SendingPCs
    BY <1>2, AfterAway DEF LoadHeld
  <2>2. TurnsAway(p)
    BY <1>2, <2>1, LeavesAway, KeepsAway DEF LoadHeld, SaveAndLeave, SendingPCs
  <2>3. QED
    BY <1>1, <2>2
<1>3. CASE LoseHeld(p) \/ KeepHolding(p) \/ Observe(p)
  <2>1. PICK l, r : SaveAndLeave(p, l, r) /\ l \notin SendingPCs /\ UNCHANGED envVars
    BY <1>3, AfterAway DEF LoseHeld, KeepHolding, Observe
  <2>2. QED
    BY <1>1, <2>1, LeavesAway DEF SaveAndLeave
<1>4. CASE LoadSubmitted(p)
  <2>1. \/ \E r : Keep(p, "observing", r) /\ snap' = snap
        \/ \E l, r : SaveAndLeave(p, l, r) /\ l \notin SendingPCs
    BY <1>4, AfterAway DEF LoadSubmitted, SendingPCs
  <2>2. TurnsAway(p)
    BY <1>4, <2>1, LeavesAway, KeepsAway DEF LoadSubmitted, SaveAndLeave, SendingPCs
  <2>3. QED
    BY <1>1, <2>2
<1>5. CASE RecordAnswer(p)
  <2>1. \/ \E r : Keep(p, "polling", r) /\ snap' = [snap EXCEPT ![p] = NoSnap]
        \/ \E l, r : SaveAndLeave(p, l, r) /\ l \notin SendingPCs
    BY <1>5, AfterAway DEF RecordAnswer, SendingPCs
  <2>2. TurnsAway(p)
    BY <1>5, <2>1, LeavesAway, KeepsAway DEF RecordAnswer, SaveAndLeave, SendingPCs
  <2>3. QED
    BY <1>1, <2>2
<1>6. CASE Transmit(p)
  <2>1. TurnsAway(p)
    BY <1>6 DEF Transmit, TurnsAway, SendingPCs, envVars, TypeOK
  <2>2. QED
    BY <1>1, <2>1
<1>7. CASE RecheckHeld(p)
  <2>1. lock = p /\ ~CallerPrivate
    BY <1>7, RightsOf DEF RecheckHeld, InsidePCs
  <2>2. ASSUME NEW q \in Procs \ {p}
        PROVE  pc[q] \notin SendingPCs
    <3>1. pc[q] \notin InsidePCs \cup SubmitPCs
      BY <2>1, WriterAlone
    <3>2. pc[q] # "direct"
      BY <2>1 DEF IInv, LockDiscipline, CallerPCs, CallerPrivate
    <3>3. QED
      BY <3>1, <3>2 DEF InsidePCs, SubmitPCs, SendingPCs
  <2>3. \A q \in Procs \ {p} : pc'[q] = pc[q]
    BY <1>7 DEF RecheckHeld, TypeOK
  <2>4. Seen(p)'
    BY <1>7 DEF RecheckHeld, Seen, LookUp
  <2>5. QED
    BY <2>2, <2>3, <2>4 DEF Seen
<1>8. CASE ReleaseHeld(p) \/ Commit(p)
  <2>1. /\ \A q \in Procs \ {p} : pc'[q] = pc[q] /\ mem'[q] = mem[q]
        /\ snap' = snap /\ UNCHANGED <<occupant, interloper>>
    BY <1>8, KeepKeepsOthers DEF ReleaseHeld, Commit, envVars
  <2>2. Seen(p) /\ pc[p] \in SendingPCs
    BY <1>8 DEF AddresseeSeen, ReleaseHeld, Commit, SendingPCs
  <2>3. mem'[p].target = mem[p].target
    <3>1. CASE ReleaseHeld(p)
      <4>1. mem'[p] = Capturing(mem[p], snap[p])
        BY <3>1, KeepKeepsOthers DEF ReleaseHeld
      <4>2. QED
        BY <2>2, <4>1, CapturingFields DEF Seen
    <3>2. CASE Commit(p)
      <4>1. PICK b \in {"ok", "error"} : mem'[p] = Committed(mem[p], b)
        BY <3>2, KeepKeepsOthers DEF Commit
      <4>2. QED
        BY <4>1, CommittedFields
    <3>3. QED
      BY <1>8, <3>1, <3>2
  <2>4. Seen(p)'
    BY <2>1, <2>2, <2>3 DEF Seen
  <2>5. QED
    BY <2>1, <2>4 DEF AddresseeSeen, Seen
<1>9. QED
  BY <1>2, <1>3, <1>4, <1>5, <1>6, <1>7, <1>8 DEF LockedStep

LEMMA OthersSee ==
  ASSUME TypeOK, IInv, AddresseeSeen,
         \/ \E w \in Workers : WorkerStep(w)
         \/ \E v \in Viewers : BeginStatus(v)
         \/ \E p \in Procs : StoreRoute(p) \/ Crash(p)
         \/ UserStep
         \/ EnvStep
  PROVE  \A q \in Procs : Seen(q)'
<1>0. Workers \subseteq Procs /\ Viewers \subseteq Procs
  BY ProcsKnown
<1>1. ASSUME NEW p \in Procs, TurnsAway(p)
      PROVE  \A q \in Procs : Seen(q)'
  BY <1>1, TurnedAway
<1>2. ASSUME NEW w \in Workers, BeginTick(w)
      PROVE  \A q \in Procs : Seen(q)'
  <2>1. \/ pc' = pc /\ mem' = mem /\ snap' = snap
        \/ pc' = [pc EXCEPT ![w] = "deliver"] /\ mem' = mem /\ snap' = snap
        \/ \E l, r : Leave(w, l, r) /\ l \notin SendingPCs
    BY <1>2, AfterAway DEF BeginTick, procVars
  <2>2. UNCHANGED envVars /\ pc[w] = "idle"
    BY <1>2 DEF BeginTick
  <2>3. TurnsAway(w)
    BY <1>0, <2>1, <2>2, LeavesAway DEF TurnsAway, SendingPCs, envVars, TypeOK
  <2>4. QED
    BY <1>0, <1>1, <2>3
<1>3. ASSUME NEW w \in Workers, Notify(w)
      PROVE  \A q \in Procs : Seen(q)'
  <2>1. TurnsAway(w)
    BY <1>0, <1>3, LeavesAway, KeepsAway DEF Notify, SendingPCs
  <2>2. QED
    BY <1>0, <1>1, <2>1
<1>4. ASSUME NEW w \in Workers, SaveNotified(w)
      PROVE  \A q \in Procs : Seen(q)'
  <2>1. TurnsAway(w)
    BY <1>0, <1>4, LeavesAway DEF SaveNotified, SaveAndLeave, SendingPCs
  <2>2. QED
    BY <1>0, <1>1, <2>1
<1>5. ASSUME NEW v \in Viewers, BeginStatus(v)
      PROVE  \A q \in Procs : Seen(q)'
  <2>1. TurnsAway(v)
    BY <1>0, <1>5 DEF BeginStatus, TurnsAway, SendingPCs, envVars, TypeOK
  <2>2. QED
    BY <1>0, <1>1, <2>1
<1>6. ASSUME NEW p \in Procs, StoreRoute(p) \/ Crash(p)
      PROVE  \A q \in Procs : Seen(q)'
  <2>1. TurnsAway(p)
    BY <1>6, LeavesAway DEF StoreRoute, Crash, SendingPCs
  <2>2. QED
    BY <1>1, <2>1
<1>7. CASE UserStep \/ EnvStep
  <2>1. /\ UNCHANGED procVars
        /\ UNCHANGED <<occupant, interloper>> \/ interloper'
    BY <1>7 DEF UserStep, UserPush, UserCancel, EnvStep, FocusMoves, OccupantChanges,
                ForeignTurnStarts, RequestedTurnStarts, TurnEnds, DeadlinePasses,
                WatchRunsOut, Damage, envVars
  <2>2. QED
    BY <2>1 DEF AddresseeSeen, Seen, procVars
<1>8. QED
  BY <1>2, <1>3, <1>4, <1>5, <1>6, <1>7 DEF WorkerStep

\* Before the prompt has left nothing of it can be queued or running.
LEMMA NothingBefore ==
  ASSUME TypeOK, AddresseeSeen, Next
  PROVE  prompts' = 0 => request' = "absent" /\ turn' # "requested"
<1>1. prompts \in Nat
  BY DEF TypeOK
<1>2. CASE UNCHANGED <<prompts, request>> /\ turn' = turn
  BY <1>2 DEF AddresseeSeen
<1>3. CASE prompts' = prompts + 1
  BY <1>1, <1>3
<1>4. CASE EnvStep
  BY <1>4 DEF AddresseeSeen, EnvStep, FocusMoves, OccupantChanges,
     ForeignTurnStarts, RequestedTurnStarts, TurnEnds, DeadlinePasses, WatchRunsOut,
     Damage, envVars, ghostVars
<1>5. CASE CallerStep
  BY <1>2, <1>3, <1>5 DEF CallerStep, Begin, ResolveUnreachable, RejectSelfSend,
     Defer, SubmitNow, SendNow, CancelSubmission, TransmitDirect, Arrives,
     ExitDirect, Poll, StopPolling, WaitPoll, WaitTimeout, WaitCancel,
     MarkCancelled, envVars, ghostVars
<1>6. ASSUME NEW p \in Procs, LockedStep(p)
      PROVE  prompts' = prompts + 1 \/ (UNCHANGED <<prompts, request>> /\ turn' = turn)
  BY <1>6 DEF LockedStep, LoadHeld, LoseHeld, RecheckHeld, KeepHolding, ReleaseHeld,
     Commit, Transmit, Arrives, RecordAnswer, LoadSubmitted, Observe, envVars,
     ghostVars
<1>7. CASE ~CallerStep /\ ~EnvStep /\ ~\E p \in Procs : LockedStep(p)
  BY <1>2, <1>7 DEF Next, WorkerStep, BeginTick, Notify, SaveNotified, BeginStatus,
     StoreRoute, Crash, UserStep, UserPush, UserCancel, envVars, ghostVars
<1>8. QED
  BY <1>2, <1>3, <1>4, <1>5, <1>6, <1>7

\* The addressee is in place when the sender looks, and what is sent to it
\* goes to it unless somebody has stepped in since.
THEOREM AddresseeGetsItHolds == Spec => AddresseeGetsIt
<1>1. Init => AddresseeSeen
  BY DEF Init, AddresseeSeen, Seen, SendingPCs
<1>2. TypeOK /\ IInv /\ AddresseeSeen /\ [Next]_vars => AddresseeSeen'
  <2> SUFFICES ASSUME TypeOK, IInv, AddresseeSeen, [Next]_vars
               PROVE  AddresseeSeen'
    OBVIOUS
  <2>1. CASE UNCHANGED vars
    BY <2>1 DEF vars, procVars, envVars, ghostVars, AddresseeSeen, Seen
  <2>2. CASE Next
    BY <2>2, CallerSees, LockedSees, OthersSee, NothingBefore
    DEF Next, AddresseeSeen
  <2>3. QED
    BY <2>1, <2>2
<1>3. TypeOK /\ IInv /\ AddresseeSeen /\ [Next]_vars
        => [/\ rec.target # NoOne => rec'.target = rec.target
            /\ prompts' # prompts =>
                 \E p \in Procs : /\ pc'[p] # pc[p]
                                  /\ snap[p].occupant = mem[p].target
                                  /\ request' = "lost" => interloper]_vars
  <2> SUFFICES ASSUME TypeOK, IInv, AddresseeSeen, Next
               PROVE  /\ rec.target # NoOne => rec'.target = rec.target
                      /\ prompts' # prompts =>
                           \E p \in Procs : /\ pc'[p] # pc[p]
                                            /\ snap[p].occupant = mem[p].target
                                            /\ request' = "lost" => interloper
    OBVIOUS
  <2>1. rec.target # NoOne => rec'.target = rec.target
    <3>1. RecordMove
      BY StepMoves
    <3>2. QED
      BY <3>1 DEF RecordMove, Untouched, WithoutRecord, Delivered, Rewritten,
                  StaysUnsent, Withdrawn, Released, Followed
  <2>2. ASSUME prompts' # prompts
        PROVE  \E p \in Procs : /\ pc'[p] # pc[p]
                                /\ snap[p].occupant = mem[p].target
                                /\ request' = "lost" => interloper
    <3>1. TransmitDirect \/ \E p \in Procs : Transmit(p)
      BY <2>2 DEF Next, CallerStep, Begin, ResolveUnreachable, RejectSelfSend, Defer,
         SubmitNow, SendNow, CancelSubmission, ExitDirect, Poll, StopPolling,
         WaitPoll, WaitTimeout, WaitCancel, MarkCancelled, LockedStep, LoadHeld,
         LoseHeld, RecheckHeld, KeepHolding, ReleaseHeld, Commit, RecordAnswer,
         LoadSubmitted, Observe, WorkerStep, BeginTick, Notify, SaveNotified,
         BeginStatus, StoreRoute, Crash, UserStep, UserPush, UserCancel, EnvStep,
         FocusMoves, OccupantChanges, ForeignTurnStarts, RequestedTurnStarts,
         TurnEnds, DeadlinePasses, WatchRunsOut, Damage, ghostVars
    <3>2. PICK p \in Procs : /\ Arrives(mem[p])
                             /\ \/ pc[p] = "submitting" /\ pc'[p] = "sent"
                                \/ p = Caller /\ pc[p] = "direct" /\ pc'[p] = "exit"
      <4>1. CASE TransmitDirect
        BY <2>2, <4>1, ProcsKnown, LeaveKeepsOthers DEF TransmitDirect
      <4>2. ASSUME NEW p \in Procs, Transmit(p)
            PROVE  Arrives(mem[p]) /\ pc[p] = "submitting" /\ pc'[p] = "sent"
        BY <2>2, <4>2 DEF Transmit, TypeOK
      <4>3. QED
        BY <3>1, <4>1, <4>2
    <3>3. prompts = 0 /\ request = "absent"
      BY <3>2 DEF IInv, PromptsWhileSubmitting, AddresseeSeen
    <3>4. /\ snap[p].occupant = mem[p].target
          /\ ~interloper => occupant = mem[p].target
      BY <3>2 DEF AddresseeSeen, Seen, SendingPCs
    <3>5. request' = "lost" => interloper
      BY <3>2, <3>3, <3>4 DEF Arrives
    <3>6. QED
      BY <3>2, <3>4, <3>5
  <2>3. QED
    BY <2>1, <2>2
<1>4. QED
  BY <1>1, <1>2, <1>3, InvariantHolds, PTL DEF Spec, AddresseeGetsIt

-----------------------------------------------------------------------------
(* The promise.                                                            *)

\* The stage of the promise, read off the record; and after a step.
LEMMA StageIs ==
  ASSUME rec.state \in States, NotSent(rec) => ~rec.terminal
  PROVE  /\ rec.state = "none" =>
               promiseStage = (IF pc[Caller] \in {"direct", "exit"} THEN "released"
                               ELSE IF pc[Caller] = "done" THEN "closed" ELSE "draft")
         /\ rec.state = "resolving" => promiseStage = "draft"
         /\ rec.state = "deferred" => promiseStage = "held"
         /\ rec.state = "awaiting_decision" => promiseStage = "awaiting"
         /\ Submitted(rec) /\ ~rec.terminal => promiseStage = "released"
         /\ rec.terminal => promiseStage = "closed"
<1>1. ASSUME rec.state = "none"
      PROVE  promiseStage = (IF pc[Caller] \in {"direct", "exit"} THEN "released"
                             ELSE IF pc[Caller] = "done" THEN "closed" ELSE "draft")
  <2>1. ~rec.terminal
    BY <1>1 DEF NotSent
  <2>2. QED
    BY <1>1, <2>1, Zenon DEF promiseStage
<1>2. ASSUME rec.state \in {"resolving", "deferred", "awaiting_decision"}
      PROVE  promiseStage = (IF rec.state = "resolving" THEN "draft"
                             ELSE IF rec.state = "deferred" THEN "held"
                             ELSE "awaiting")
  <2>1. ~rec.terminal
    BY <1>2 DEF NotSent, Held
  <2>2. QED
    BY <1>2, <2>1, Zenon DEF promiseStage
<1>3. ASSUME Submitted(rec), ~rec.terminal
      PROVE  promiseStage = "released"
  <2>1. rec.state \in {"submitted_working", "submitted_unknown"}
    BY <1>3 DEF Submitted
  <2>2. QED
    BY <1>3, <2>1, Zenon DEF promiseStage
<1>4. ASSUME rec.terminal
      PROVE  promiseStage = "closed"
  <2>1. rec.state \notin {"none", "resolving", "deferred", "awaiting_decision"}
    BY <1>4 DEF NotSent, Held
  <2>2. QED
    BY <1>4, <2>1, Zenon DEF promiseStage
<1>5. QED
  BY <1>1, <1>2, <1>3, <1>4

LEMMA StageNext ==
  ASSUME rec'.state \in States, NotSent(rec') => ~rec'.terminal
  PROVE  /\ rec'.state = "none" =>
               promiseStage' = (IF pc'[Caller] \in {"direct", "exit"} THEN "released"
                               ELSE IF pc'[Caller] = "done" THEN "closed" ELSE "draft")
         /\ rec'.state = "resolving" => promiseStage' = "draft"
         /\ rec'.state = "deferred" => promiseStage' = "held"
         /\ rec'.state = "awaiting_decision" => promiseStage' = "awaiting"
         /\ Submitted(rec') /\ ~rec'.terminal => promiseStage' = "released"
         /\ rec'.terminal => promiseStage' = "closed"
<1>1. ASSUME rec'.state = "none"
      PROVE  promiseStage' = (IF pc'[Caller] \in {"direct", "exit"} THEN "released"
                             ELSE IF pc'[Caller] = "done" THEN "closed" ELSE "draft")
  <2>1. ~rec'.terminal
    BY <1>1 DEF NotSent
  <2>2. QED
    BY <1>1, <2>1, Zenon DEF promiseStage
<1>2. ASSUME rec'.state \in {"resolving", "deferred", "awaiting_decision"}
      PROVE  promiseStage' = (IF rec'.state = "resolving" THEN "draft"
                             ELSE IF rec'.state = "deferred" THEN "held"
                             ELSE "awaiting")
  <2>1. ~rec'.terminal
    BY <1>2 DEF NotSent, Held
  <2>2. QED
    BY <1>2, <2>1, Zenon DEF promiseStage
<1>3. ASSUME Submitted(rec'), ~rec'.terminal
      PROVE  promiseStage' = "released"
  <2>1. rec'.state \in {"submitted_working", "submitted_unknown"}
    BY <1>3 DEF Submitted
  <2>2. QED
    BY <1>3, <2>1, Zenon DEF promiseStage
<1>4. ASSUME rec'.terminal
      PROVE  promiseStage' = "closed"
  <2>1. rec'.state \notin {"none", "resolving", "deferred", "awaiting_decision"}
    BY <1>4 DEF NotSent, Held
  <2>2. QED
    BY <1>4, <2>1, Zenon DEF promiseStage
<1>5. QED
  BY <1>1, <1>2, <1>3, <1>4

\* The record, its lock and its processes implement HeldDelivery: a held
\* message leaves the hold once, by a release the promise allows, and its
\* prompt arrives once, between the release and the close.
THEOREM KeepsPromiseHolds == Spec => KeepsPromise
<1>1. Init => Promise!Init
  <2> SUFFICES ASSUME Init PROVE Promise!Init
    OBVIOUS
  <2>1. rec = NoRecord /\ prompts = 0 /\ pc[Caller] = "start"
    BY ProcsKnown DEF Init
  <2>2. rec.state = "none" /\ rec.decision = FALSE /\ ~rec.terminal
    BY <2>1 DEF NoRecord
  <2>3. promiseStage = "draft"
    BY <2>1, <2>2, StageIs DEF States
  <2>4. QED
    BY <2>1, <2>2, <2>3 DEF Promise!Init
<1>2. TypeOK /\ IInv /\ Next /\ (TypeOK /\ IInv)' => [Promise!Next]_(Promise!promiseVars)
  <2> SUFFICES ASSUME TypeOK, IInv, Next, (TypeOK /\ IInv)'
               PROVE  [Promise!Next]_(Promise!promiseVars)
    OBVIOUS
  <2>1. RecordMove
    BY StepMoves
  <2>2. /\ rec.state \in States /\ rec'.state \in States
        /\ rec.decision \in BOOLEAN /\ rec'.decision \in BOOLEAN
        /\ NotSent(rec) => ~rec.terminal
        /\ NotSent(rec') => ~rec'.terminal
    BY DEF TypeOK, Records, IInv, StateConsistent, NotSent
  <2>3. CASE Untouched
    <3>1. rec' = rec /\ prompts' = prompts /\ (rec.state = "none" => pc'[Caller] = pc[Caller])
      BY <2>3 DEF Untouched
    <3>2. promiseStage' = promiseStage
      <4>1. CASE rec.state = "none"
        BY <2>2, <3>1, <4>1, StageIs, StageNext
      <4>2. CASE rec.state # "none"
        BY <2>2, <3>1, <4>2, StageIs, StageNext DEF States, Submitted,
           IInv, StateConsistent
      <4>3. QED
        BY <4>1, <4>2
    <3>3. QED
      BY <3>1, <3>2 DEF Promise!promiseVars
  <2>4. CASE WithoutRecord
    <3>1. /\ rec.state = "none" /\ rec' = rec
          /\ prompts' = prompts \/ (/\ pc[Caller] = "direct" /\ pc'[Caller] = "exit"
                                    /\ prompts = 0 /\ prompts' = 1)
      BY <2>4 DEF WithoutRecord
    <3>2. \/ pc[Caller] = "start" /\ pc'[Caller] = "resolve"
          \/ pc[Caller] = "resolve" /\ pc'[Caller] = "direct"
          \/ pc[Caller] = "resolve" /\ pc'[Caller] = "done"
          \/ pc[Caller] = "direct" /\ pc'[Caller] = "exit"
          \/ pc[Caller] = "direct" /\ pc'[Caller] = "done"
          \/ pc[Caller] = "exit" /\ pc'[Caller] = "done"
      BY <2>4 DEF WithoutRecord
    <3>3. /\ promiseStage = (IF pc[Caller] \in {"direct", "exit"} THEN "released"
                             ELSE IF pc[Caller] = "done" THEN "closed" ELSE "draft")
          /\ promiseStage' = (IF pc'[Caller] \in {"direct", "exit"} THEN "released"
                              ELSE IF pc'[Caller] = "done" THEN "closed" ELSE "draft")
      BY <2>2, <3>1, StageIs, StageNext
    <3>4. QED
      BY <2>2, <3>1, <3>2, <3>3
      DEF Promise!Next, Promise!Release, Promise!Withdraw, Promise!Arrive,
          Promise!Conclude, Promise!Undelivered, Promise!promiseVars
  <2>5. CASE Delivered
    <3>1. /\ rec' = rec /\ Submitted(rec) /\ ~rec.terminal
          /\ prompts = 0 /\ prompts' = 1
      BY <2>5 DEF Delivered, Submitted
    <3>2. promiseStage = "released" /\ promiseStage' = "released"
      BY <2>2, <3>1, StageIs, StageNext
    <3>3. QED
      BY <3>1, <3>2 DEF Promise!Next, Promise!Arrive
  <2>6. CASE Rewritten /\ StaysUnsent(rec, rec')
    <3>1. /\ prompts' = prompts
          /\ promiseStage \in {"draft", "held", "awaiting"}
          /\ promiseStage' \in {"draft", "held", "awaiting"}
          /\ promiseStage = "held" => promiseStage' # "draft"
          /\ promiseStage = "awaiting" => promiseStage' = "awaiting"
          /\ promiseStage' = "awaiting" => promiseStage # "draft"
      BY <2>2, <2>6, StageIs, StageNext DEF Rewritten, StaysUnsent, NotSent, Held
    <3>2. \/ rec'.decision = rec.decision
          \/ /\ promiseStage \in {"held", "awaiting"} /\ promiseStage' = promiseStage
             /\ rec'.decision
      BY <2>2, <2>6, StageIs, StageNext DEF Rewritten, StaysUnsent, Held
    <3>3. QED
      BY <2>2, <3>1, <3>2
      DEF Promise!Next, Promise!Hold, Promise!Expire, Promise!Push,
          Promise!promiseVars
  <2>7. CASE Rewritten /\ Withdrawn(rec, rec')
    <3>1. /\ prompts' = prompts
          /\ promiseStage \in {"draft", "held", "awaiting"}
          /\ promiseStage' = "closed"
      BY <2>2, <2>7, StageIs, StageNext DEF Rewritten, Withdrawn, NotSent, Held
    <3>2. QED
      BY <2>2, <3>1 DEF Promise!Next, Promise!Withdraw, Promise!Undelivered
  <2>8. CASE Rewritten /\ Released(rec, rec')
    <3>1. /\ prompts' = prompts
          /\ promiseStage \in {"draft", "held"} \/ (promiseStage = "awaiting" /\ rec.decision)
          /\ promiseStage' = "released"
      BY <2>2, <2>8, StageIs, StageNext DEF Rewritten, Released, Held, Submitted
    <3>2. QED
      BY <2>2, <3>1 DEF Promise!Next, Promise!Release
  <2>9. CASE Rewritten /\ Followed(rec, rec')
    <3>1. /\ prompts' = prompts /\ rec'.decision = rec.decision
          /\ promiseStage = "released"
          /\ promiseStage' \in {"released", "closed"}
      <4>1. prompts' = prompts /\ rec'.decision = rec.decision /\ promiseStage = "released"
        BY <2>2, <2>9, StageIs DEF Rewritten, Followed
      <4>2. rec'.terminal \/ Submitted(rec')
        BY <2>9 DEF Followed, Submitted
      <4>3. promiseStage' \in {"released", "closed"}
        BY <2>2, <4>2, StageNext
      <4>4. QED
        BY <4>1, <4>3
    <3>2. QED
      BY <3>1 DEF Promise!Next, Promise!Conclude, Promise!promiseVars
  <2>10. QED
    BY <2>1, <2>3, <2>4, <2>5, <2>6, <2>7, <2>8, <2>9 DEF RecordMove, Rewritten
<1>3. TypeOK /\ IInv /\ UNCHANGED vars => [Promise!Next]_(Promise!promiseVars)
  BY DEF vars, procVars, ghostVars, Promise!promiseVars, promiseStage
<1>4. QED
  BY <1>1, <1>2, <1>3, InvariantHolds, PTL DEF Spec, KeepsPromise, Promise!Spec

-----------------------------------------------------------------------------
(* 4. Evidence: what a settled request proves.                             *)

\* Where the submission has been committed and its outcome is being written.
FollowingPCs == {"submitting", "sent", "observing", "polling"}

\* What record r says of the requested turn is true, unless somebody has
\* stepped in since the submission looked at the recipient.
EvidenceOf(r) ==
    ~interloper =>
        /\ r.turnObserved => request \in {"running", "done"}
        /\ r.state = "submitted_settled" => request = "done"
        /\ r.waitSafe /\ r.baseline # "none" => turn # "foreign"

\* A recipient found idle is not taken up with another turn while the
\* delivery that found it so is on its way.
IdleWhenFound ==
    ~interloper =>
        \A p \in Procs :
            /\ pc[p] = "decide" /\ ~snap[p].working => turn # "foreign"
            /\ pc[p] = "baseline" /\ rec.waitSafe => turn # "foreign"

\* A baseline is read before the prompt leaves, and evidence is gathered
\* only afterwards.
BaselineFirst ==
    /\ rec.baseline = "none" => ~rec.turnObserved
    /\ \A p \in Procs : pc[p] \in FollowingPCs => rec.baseline # "none"

EvidenceSound ==
    /\ turn = "requested" <=> request = "running"
    /\ EvidenceOf(rec)
    /\ IdleWhenFound
    /\ BaselineFirst

\* s says no more of the requested turn than r.
SameEvidence(r, s) ==
    /\ s.turnObserved = r.turnObserved
    /\ s.waitSafe = r.waitSafe
    /\ s.baseline = r.baseline
    /\ s.state = "submitted_settled" => r.state = "submitted_settled"

\* p goes on without a new look at the recipient; the others and the
\* recipient's turns stay.
GoesOn(p) ==
    /\ pc'[p] \notin {"decide", "baseline"}
    /\ \A q \in Procs \ {p} : pc'[q] = pc[q] /\ snap'[q] = snap[q]
    /\ UNCHANGED <<turn, interloper, request>>

LEMMA CarriedOn ==
  ASSUME EvidenceSound, NEW p \in Procs, GoesOn(p), SameEvidence(rec, rec'),
         pc'[p] \in FollowingPCs => pc[p] \in FollowingPCs \/ rec.baseline # "none"
  PROVE  EvidenceSound'
<1>1. EvidenceOf(rec)'
  BY DEF EvidenceSound, EvidenceOf, GoesOn, SameEvidence
<1>2. IdleWhenFound'
  BY DEF EvidenceSound, IdleWhenFound, GoesOn, SameEvidence
<1>3. BaselineFirst'
  BY DEF EvidenceSound, BaselineFirst, GoesOn, SameEvidence
<1>4. QED
  BY <1>1, <1>2, <1>3 DEF EvidenceSound, GoesOn

\* Where a call ends nothing is followed any more.
LEMMA EndsOutside ==
  ASSUME NEW p, NEW r
  PROVE  /\ AfterDeliver(p, r) \notin FollowingPCs \cup {"decide", "baseline"}
         /\ AfterObserve(p, r) \notin FollowingPCs \cup {"decide", "baseline"}
BY DEF AfterDeliver, AfterObserve, FollowingPCs

\* A process that ends its call with the evidence as it was.
LEMMA LeavesEvidence ==
  ASSUME TypeOK, EvidenceSound, NEW p \in Procs, NEW l, NEW r,
         SaveAndLeave(p, l, r) \/ (Leave(p, l, r) /\ rec' = rec),
         l \notin FollowingPCs \cup {"decide", "baseline"},
         SameEvidence(rec, rec'), UNCHANGED <<turn, interloper, request>>
  PROVE  EvidenceSound'
<1>1. Leave(p, l, r)
  BY DEF SaveAndLeave
<1>2. OthersKept(p) /\ pc'[p] = l
  BY <1>1, LeaveKeepsOthers
<1>3. GoesOn(p)
  BY <1>2 DEF OthersKept, GoesOn
<1>4. QED
  BY <1>2, <1>3, CarriedOn

\* The helpers that keep the evidence of a record.
LEMMA EvidenceKeptBy ==
  ASSUME NEW r \in Records
  PROVE  /\ SameEvidence(r, r)
         /\ SameEvidence(r, Failed(r))
         /\ SameEvidence(r, Validated(r))
         /\ SameEvidence(r, Cancelled(r))
         /\ Held(r) => SameEvidence(r, Pushed(r))
         /\ \A a : SameEvidence(r, Answered(r, a))
         /\ \A w : SameEvidence(r, GaveUp(r, w))
         /\ SameEvidence(r, HeldRecord(r))
<1>1. SameEvidence(r, r)
  BY DEF SameEvidence
<1>2. SameEvidence(r, Failed(r))
  BY FailedFields DEF SameEvidence
<1>3. SameEvidence(r, Validated(r))
  BY <1>1, <1>2, ValidatedFields
<1>4. SameEvidence(r, Cancelled(r))
  BY <1>1, <1>2, CancelledFields
<1>5. ASSUME Held(r)
      PROVE  SameEvidence(r, Pushed(r))
  <2>1. SameEvidence(r, [r EXCEPT !.decision = TRUE])
    BY DEF Records, SameEvidence
  <2>2. QED
    BY <1>2, <1>5, <2>1, PushedFields
<1>6. ASSUME NEW a
      PROVE  SameEvidence(r, Answered(r, a))
  BY <1>2, AnsweredFields DEF SameEvidence
<1>7. ASSUME NEW w
      PROVE  SameEvidence(r, GaveUp(r, w))
  BY GaveUpFields DEF SameEvidence
<1>8. SameEvidence(r, HeldRecord(r))
  BY DEF HeldRecord, Records, SameEvidence
<1>9. QED
  BY <1>1, <1>2, <1>3, <1>4, <1>5, <1>6, <1>7, <1>8

\* What one look at the recipient adds to the evidence is true.
LEMMA ObservedEvidence ==
  ASSUME TypeOK, turn = "requested" <=> request = "running",
         NEW r \in Records, r.baseline # "none", EvidenceOf(r),
         r.state # "submitted_settled", NEW o \in Observed(r)
  PROVE  EvidenceOf(o) /\ o.baseline # "none"
<1>0. o.baseline # "none"
  BY ObservedFields
<1>1. CASE occupant # r.target
  <2>1. o = RecipientChanged(r)
    BY <1>1 DEF Observed
  <2>2. /\ o.turnObserved = r.turnObserved /\ o.waitSafe = r.waitSafe
        /\ o.state = "submitted_unknown"
    BY <2>1 DEF RecipientChanged, Records
  <2>3. QED
    BY <1>0, <2>2 DEF EvidenceOf
<1>2. CASE occupant = r.target
  <2>1. o \in Observations(r)
    BY <1>2 DEF Observed
  <2>2. CASE ~r.waitSafe /\ Working
    <3>1. o = [r EXCEPT !.state = "submitted_working", !.working = TRUE,
                        !.correlated = FALSE]
      BY <2>1, <2>2, Zenon DEF Observations
    <3>2. /\ o.turnObserved = r.turnObserved /\ o.waitSafe = r.waitSafe
          /\ o.state = "submitted_working"
      BY <3>1 DEF Records
    <3>3. QED
      BY <1>0, <2>2, <3>2 DEF EvidenceOf
  <2>3. CASE ~r.waitSafe /\ ~Working
    <3>1. PICK b \in {"ok", "error"} :
             o = [r EXCEPT !.state = "submitted_unknown", !.working = FALSE,
                           !.waitSafe = TRUE, !.baseline = b,
                           !.wait = Reopened(r.wait), !.correlated = FALSE]
      BY <2>1, <2>3, Zenon DEF Observations
    <3>2. o.turnObserved = r.turnObserved /\ o.state = "submitted_unknown"
      BY <3>1 DEF Records
    <3>3. turn = "idle"
      BY <2>3 DEF Working
    <3>4. QED
      BY <1>0, <3>2, <3>3 DEF EvidenceOf
  <2>4. CASE r.waitSafe /\ Working
    <3>1. o = [r EXCEPT !.state = "submitted_working", !.working = TRUE,
                        !.turnObserved = TRUE, !.wait = Reopened(r.wait),
                        !.correlated = FALSE]
      BY <2>1, <2>4, Zenon DEF Observations
    <3>2. o.waitSafe = r.waitSafe /\ o.state = "submitted_working"
      BY <3>1 DEF Records
    <3>3. ~interloper => turn = "requested"
      BY <2>4 DEF EvidenceOf, Working, TypeOK
    <3>4. QED
      BY <1>0, <3>2, <3>3 DEF EvidenceOf
  <2>5. CASE r.waitSafe /\ ~Working /\ r.turnObserved
    <3>1. PICK c \in BOOLEAN : o = Settled(r, c)
      BY <2>1, <2>5 DEF Observations
    <3>2. o.turnObserved = r.turnObserved /\ o.waitSafe = r.waitSafe
      BY <3>1 DEF Settled, Records
    <3>3. turn = "idle"
      BY <2>5 DEF Working
    <3>4. ~interloper => request = "done"
      BY <2>5, <3>3 DEF EvidenceOf
    <3>5. QED
      BY <1>0, <3>2, <3>3, <3>4 DEF EvidenceOf
  <2>6. CASE r.waitSafe /\ ~Working /\ ~r.turnObserved
    <3>1. o = [r EXCEPT !.state = "submitted_unknown", !.working = FALSE,
                        !.correlated = FALSE]
      BY <2>1, <2>6, Zenon DEF Observations
    <3>2. /\ o.turnObserved = r.turnObserved /\ o.waitSafe = r.waitSafe
          /\ o.state = "submitted_unknown"
      BY <3>1 DEF Records
    <3>3. QED
      BY <1>0, <2>6, <3>2 DEF EvidenceOf
  <2>7. QED
    BY <2>2, <2>3, <2>4, <2>5, <2>6
<1>3. QED
  BY <1>1, <1>2

\* A process writes down what it saw of a submitted request.
LEMMA ObservingEvidence ==
  ASSUME TypeOK, EvidenceSound, NEW p \in Procs, GoesOn(p),
         rec.baseline # "none", rec.state # "submitted_settled",
         rec' \in Observed(rec)
  PROVE  EvidenceSound'
<1>1. rec \in Records
  BY DEF TypeOK
<1>2. EvidenceOf(rec') /\ rec'.baseline # "none"
  BY <1>1, ObservedEvidence DEF EvidenceSound
<1>3. EvidenceOf(rec)'
  BY <1>2 DEF EvidenceOf, GoesOn
<1>4. ASSUME NEW q \in Procs, pc'[q] = "baseline", ~interloper', rec'.waitSafe
      PROVE  turn' # "foreign"
  BY <1>2, <1>4 DEF EvidenceOf, GoesOn
<1>5. IdleWhenFound'
  BY <1>4 DEF EvidenceSound, IdleWhenFound, GoesOn
<1>6. QED
  BY <1>2, <1>3, <1>5 DEF EvidenceSound, BaselineFirst, GoesOn

\* The caller's steps.
LEMMA CallerEvidence ==
  ASSUME TypeOK, IInv, AddresseeSeen, EvidenceSound, CallerStep
  PROVE  EvidenceSound'
<1>0. /\ Caller \in Procs /\ mem[Caller] \in Records /\ rec \in Records
      /\ snap \in [Procs -> Snapshots]
  BY ProcsKnown DEF TypeOK
<1> USE <1>0
<1>1. ASSUME pc[Caller] = "resolve"
      PROVE  /\ mem[Caller] = NewRecord /\ rec \in {NewRecord, NoRecord}
             /\ \A q \in Procs \ {Caller} : pc[q] = "idle"
  BY <1>1 DEF IInv, CopiesCurrent, StageOfProcesses, AloneWhilePrivate, CallerPrivate
<1>2. SameEvidence(NoRecord, NewRecord) /\ SameEvidence(NewRecord, NewRecord)
  BY DEF SameEvidence, NewRecord, NoRecord
<1>3. ASSUME NEW s, SameEvidence(NewRecord, s), s.state # "submitted_settled",
             pc[Caller] = "resolve"
      PROVE  SameEvidence(rec, s)
  BY <1>1, <1>2, <1>3 DEF SameEvidence
<1>4. CASE Begin
  <2>1. rec = NoRecord /\ (rec' = NoRecord \/ rec' = NewRecord)
    BY <1>4 DEF Begin, IInv, StageOfProcesses
  <2>2. SameEvidence(rec, rec')
    BY <1>2, <2>1, EvidenceKeptBy
  <2>3. GoesOn(Caller) /\ pc'[Caller] = "resolve"
    BY <1>4, KeepKeepsOthers DEF Begin, GoesOn, envVars, ghostVars
  <2>4. QED
    BY <2>2, <2>3, CarriedOn DEF FollowingPCs
<1>5. CASE ResolveUnreachable \/ RejectSelfSend \/ Defer
  <2>1. PICK l, r : /\ SaveAndLeave(Caller, l, r)
                    /\ l \notin FollowingPCs \cup {"decide", "baseline"}
                    /\ r = Failed(mem[Caller]) \/ r = HeldRecord(mem[Caller])
    BY <1>5 DEF ResolveUnreachable, RejectSelfSend, Defer, FollowingPCs
  <2>2. /\ pc[Caller] = "resolve" /\ rec' = r
        /\ UNCHANGED <<turn, interloper, request>>
    BY <1>5, <2>1 DEF ResolveUnreachable, RejectSelfSend, Defer, SaveAndLeave,
                      envVars, ghostVars
  <2>3. SameEvidence(rec, rec')
    <3>1. SameEvidence(NewRecord, r)
      BY <1>1, <2>1, <2>2, EvidenceKeptBy
    <3>2. r.state # "submitted_settled"
      BY <2>1, FailedFields, HeldRecordFields
    <3>3. QED
      BY <1>3, <2>2, <3>1, <3>2
  <2>4. QED
    BY <2>1, <2>2, <2>3, LeavesEvidence
<1>6. CASE SubmitNow
  <2>1. /\ pc[Caller] = "resolve" /\ snap'[Caller].working = Working
        /\ rec' = Capturing(mem[Caller], LookUp) /\ UNCHANGED <<turn, request>>
    BY <1>6 DEF SubmitNow, LookUp, ghostVars
  <2>2. pc'[Caller] = "baseline" /\ \A q \in Procs \ {Caller} : pc'[q] = "idle"
    BY <1>1, <1>6, <2>1, KeepKeepsOthers DEF SubmitNow
  <2>3. /\ ~rec'.turnObserved /\ rec'.baseline = "none" /\ rec'.state = "resolving"
        /\ rec'.waitSafe = ~Working
    BY <1>1, <2>1 DEF Capturing, NewRecord, NoRecord, LookUp
  <2>4. rec'.waitSafe => turn' # "foreign"
    BY <2>1, <2>3 DEF Working
  <2>5. QED
    BY <2>1, <2>2, <2>3, <2>4
    DEF EvidenceSound, EvidenceOf, IdleWhenFound, BaselineFirst, FollowingPCs
<1>7. CASE SendNow
  <2>1. pc[Caller] = "resolve" /\ rec' = rec /\ UNCHANGED <<turn, request>>
    BY <1>7 DEF SendNow, ghostVars
  <2>2. pc'[Caller] = "direct" /\ \A q \in Procs \ {Caller} : pc'[q] = "idle"
    BY <1>1, <1>7, <2>1, KeepKeepsOthers DEF SendNow
  <2>3. ~rec.turnObserved /\ rec.baseline = "none" /\ rec.state # "submitted_settled"
    BY <1>1, <2>1 DEF NewRecord, NoRecord
  <2>4. QED
    BY <2>1, <2>2, <2>3
    DEF EvidenceSound, EvidenceOf, IdleWhenFound, BaselineFirst, FollowingPCs
<1>8. CASE CancelSubmission
  <2>1. PICK r : SaveAndLeave(Caller, "returned", r)
                 /\ r = [Failed(mem[Caller]) EXCEPT !.wait = "cancelled"]
    BY <1>8 DEF CancelSubmission
  <2>2. pc[Caller] = "baseline" /\ UNCHANGED <<turn, interloper, request>>
    BY <1>8 DEF CancelSubmission, envVars, ghostVars
  <2>3. mem[Caller] = rec
    BY <2>2, RightsOf DEF SubmitPCs
  <2>4. SameEvidence(rec, r)
    <3>1. Failed(rec) \in Records /\ SameEvidence(rec, Failed(rec))
      BY RecordHelpers, EvidenceKeptBy
    <3>2. QED
      BY <2>1, <2>3, <3>1 DEF Records, SameEvidence
  <2>5. QED
    BY <2>1, <2>2, <2>4, LeavesEvidence DEF SaveAndLeave, FollowingPCs
<1>9. CASE TransmitDirect
  <2>1. /\ pc[Caller] = "direct" /\ pc'[Caller] = "exit" /\ OthersKept(Caller)
        /\ rec' = rec /\ UNCHANGED <<turn, interloper>>
    BY <1>9, LeaveKeepsOthers DEF TransmitDirect, envVars
  <2>2. prompts = 0 /\ request = "absent"
    BY <2>1 DEF IInv, PromptsWhileSubmitting, AddresseeSeen
  <2>3. request' \in {"absent", "queued", "lost"}
    BY <1>9, <2>2 DEF TransmitDirect, Arrives
  <2>4. QED
    BY <2>1, <2>2, <2>3
    DEF EvidenceSound, EvidenceOf, IdleWhenFound, BaselineFirst, FollowingPCs,
        OthersKept
<1>10. CASE ExitDirect
  BY <1>10, LeavesEvidence, EvidenceKeptBy
  DEF ExitDirect, FollowingPCs, envVars, ghostVars
<1>11. CASE Poll
  <2>1. /\ pc[Caller] = "polling" /\ rec' \in Observed(mem[Caller])
        /\ UNCHANGED <<turn, interloper, request>>
    BY <1>11 DEF Poll, SaveAndLeave, envVars, ghostVars
  <2>2. /\ mem[Caller] = rec /\ rec.baseline # "none"
        /\ rec.state # "submitted_settled"
    BY <2>1 DEF IInv, CopiesCurrent, StageOfProcesses, EvidenceSound, BaselineFirst,
                FollowingPCs
  <2>3. GoesOn(Caller)
    <3>1. PICK r : \/ SaveAndLeave(Caller, "returned", r)
                   \/ Keep(Caller, "polling", r) /\ snap' = snap
      BY <1>11 DEF Poll
    <3>2. QED
      BY <2>1, <3>1, LeaveKeepsOthers, KeepKeepsOthers
      DEF SaveAndLeave, OthersKept, GoesOn
  <2>4. QED
    BY <2>1, <2>2, <2>3, ObservingEvidence
<1>12. CASE StopPolling
  <2>1. pc[Caller] = "polling" /\ mem[Caller] = rec
        /\ UNCHANGED <<turn, interloper, request>>
    BY <1>12 DEF StopPolling, IInv, CopiesCurrent, envVars, ghostVars
  <2>2. PICK w : SaveAndLeave(Caller, "returned", GaveUp(rec, w))
    BY <1>12, <2>1 DEF StopPolling
  <2>3. SameEvidence(rec, rec')
    BY <2>2, EvidenceKeptBy DEF SaveAndLeave
  <2>4. QED
    BY <2>1, <2>2, <2>3, LeavesEvidence DEF FollowingPCs
<1>13. CASE WaitPoll
  <2>1. rec' = rec /\ GoesOn(Caller) /\ pc'[Caller] = "deliver"
    BY <1>13 DEF WaitPoll, GoesOn, TypeOK, envVars, ghostVars
  <2>2. QED
    BY <2>1, EvidenceKeptBy, CarriedOn DEF FollowingPCs
<1>14. CASE WaitTimeout \/ WaitCancel \/ MarkCancelled
  <2>1. SameEvidence(rec, [rec EXCEPT !.wait = "cancelled"])
    BY DEF Records, SameEvidence
  <2>2. PICK l, r : /\ SaveAndLeave(Caller, l, r)
                    /\ l \in {"returned", "mark"}
                    /\ \/ r = rec \/ r = GaveUp(rec, "timed_out")
                       \/ r = Cancelled(rec) \/ r = [rec EXCEPT !.wait = "cancelled"]
    BY <1>14 DEF WaitTimeout, WaitCancel, MarkCancelled
  <2>3. SameEvidence(rec, r) /\ rec' = r
    BY <2>1, <2>2, EvidenceKeptBy DEF SaveAndLeave
  <2>4. UNCHANGED <<turn, interloper, request>>
    BY <1>14 DEF WaitTimeout, WaitCancel, MarkCancelled, envVars, ghostVars
  <2>5. QED
    BY <2>2, <2>3, <2>4, LeavesEvidence DEF FollowingPCs
<1>15. QED
  BY <1>4, <1>5, <1>6, <1>7, <1>8, <1>9, <1>10, <1>11, <1>12, <1>13, <1>14
  DEF CallerStep

\* Steps under the record's lock.
LEMMA LockedEvidence ==
  ASSUME TypeOK, IInv, AddresseeSeen, EvidenceSound, NEW p \in Procs, LockedStep(p)
  PROVE  EvidenceSound'
<1>0. /\ Caller \in Procs /\ mem[p] \in Records /\ rec \in Records
      /\ snap[p] \in Snapshots /\ snap \in [Procs -> Snapshots]
  BY ProcsKnown DEF TypeOK
<1> USE <1>0
<1>1. pc[p] \in InsidePCs \cup SubmitPCs => mem[p] = rec
  BY RightsOf
<1>2. CASE LoadHeld(p)
  <2>1. UNCHANGED <<turn, interloper, request>>
    BY <1>2 DEF LoadHeld, envVars, ghostVars
  <2>2. CASE Keep(p, "recheck", Validated(rec)) /\ rec' = rec /\ snap' = snap
    <3>1. GoesOn(p) /\ pc'[p] = "recheck"
      BY <2>1, <2>2, KeepKeepsOthers DEF GoesOn
    <3>2. QED
      BY <2>2, <3>1, EvidenceKeptBy, CarriedOn DEF FollowingPCs
  <2>3. CASE SaveAndLeave(p, AfterDeliver(p, Validated(rec)), Validated(rec))
    <3>1. SameEvidence(rec, rec')
      BY <2>3, EvidenceKeptBy DEF SaveAndLeave
    <3>2. QED
      BY <2>1, <2>3, <3>1, EndsOutside, LeavesEvidence
  <2>4. QED
    BY <1>2, <2>2, <2>3 DEF LoadHeld
<1>3. CASE LoseHeld(p)
  <2>1. pc[p] = "recheck" /\ UNCHANGED <<turn, interloper, request>>
    BY <1>3 DEF LoseHeld, envVars, ghostVars
  <2>2. SaveAndLeave(p, AfterDeliver(p, Failed(rec)), Failed(rec))
    BY <1>1, <1>3, <2>1 DEF LoseHeld, InsidePCs
  <2>3. SameEvidence(rec, rec')
    BY <2>2, EvidenceKeptBy DEF SaveAndLeave
  <2>4. QED
    BY <2>1, <2>2, <2>3, EndsOutside, LeavesEvidence
<1>4. CASE RecheckHeld(p)
  <2>1. /\ pc[p] = "recheck" /\ rec' = rec /\ UNCHANGED <<turn, request>>
        /\ pc'[p] = "decide" /\ \A q \in Procs \ {p} : pc'[q] = pc[q]
        /\ snap'[p].working = Working
    BY <1>4 DEF RecheckHeld, LookUp, ghostVars, TypeOK
  <2>2. lock = p /\ ~CallerPrivate /\ Held(rec)
    BY <2>1, RightsOf DEF InsidePCs, IInv, StageOfProcesses
  <2>3. ~rec.turnObserved /\ rec.baseline = "none" /\ rec.state # "submitted_settled"
    BY <2>2 DEF EvidenceSound, BaselineFirst, IInv, StateConsistent, Held
  <2>4. \A q \in Procs \ {p} : pc'[q] \notin {"decide", "baseline"}
    BY <2>1, <2>2, WriterAlone DEF InsidePCs, SubmitPCs
  <2>5. ~snap'[p].working => turn' # "foreign"
    BY <2>1 DEF Working
  <2>6. QED
    BY <2>1, <2>3, <2>4, <2>5
    DEF EvidenceSound, EvidenceOf, IdleWhenFound, BaselineFirst, FollowingPCs
<1>5. CASE KeepHolding(p)
  <2>1. pc[p] = "decide" /\ UNCHANGED <<turn, interloper, request>>
    BY <1>5 DEF KeepHolding, envVars, ghostVars
  <2>2. PICK r : /\ SaveAndLeave(p, AfterDeliver(p, r), r)
                 /\ r = rec \/ r = [rec EXCEPT !.state = "awaiting_decision"]
    BY <1>1, <1>5, <2>1 DEF KeepHolding, InsidePCs
  <2>3. SameEvidence(rec, rec')
    BY <2>2 DEF SaveAndLeave, Records, SameEvidence
  <2>4. QED
    BY <2>1, <2>2, <2>3, EndsOutside, LeavesEvidence
<1>6. CASE ReleaseHeld(p)
  <2>1. /\ pc[p] = "decide" /\ pc'[p] = "baseline" /\ snap' = snap
        /\ \A q \in Procs \ {p} : pc'[q] = pc[q]
        /\ rec' = Capturing(mem[p], snap[p])
        /\ UNCHANGED <<turn, interloper, request>>
    BY <1>6, KeepKeepsOthers DEF ReleaseHeld, envVars, ghostVars
  <2>2. mem[p] = rec /\ lock = p /\ ~CallerPrivate /\ Held(rec)
    BY <2>1, RightsOf DEF InsidePCs, IInv, StageOfProcesses
  <2>3. /\ rec'.turnObserved = rec.turnObserved /\ rec'.waitSafe = ~snap[p].working
        /\ rec'.baseline = rec.baseline /\ rec'.state = rec.state
    BY <2>1, <2>2 DEF Capturing, Records
  <2>4. rec.baseline = "none" /\ rec.state # "submitted_settled"
    BY <2>2 DEF IInv, StateConsistent, Held
  <2>5. \A q \in Procs \ {p} : pc'[q] \notin {"decide", "baseline"}
    BY <2>1, <2>2, WriterAlone DEF InsidePCs, SubmitPCs
  <2>6. ~interloper /\ rec'.waitSafe => turn # "foreign"
    BY <2>1, <2>3 DEF EvidenceSound, IdleWhenFound
  <2>7. QED
    BY <2>1, <2>3, <2>4, <2>5, <2>6
    DEF EvidenceSound, EvidenceOf, IdleWhenFound, BaselineFirst, FollowingPCs
<1>7. CASE Commit(p)
  <2>1. /\ pc[p] = "baseline" /\ pc'[p] = "submitting" /\ snap' = snap
        /\ \A q \in Procs \ {p} : pc'[q] = pc[q]
        /\ UNCHANGED <<turn, interloper, request>>
    BY <1>7, KeepKeepsOthers DEF Commit, envVars, ghostVars
  <2>2. PICK b \in {"ok", "error"} : rec' = Committed(rec, b)
    BY <1>1, <1>7, <2>1 DEF Commit, SubmitPCs
  <2>3. /\ rec'.turnObserved = rec.turnObserved /\ rec'.waitSafe = rec.waitSafe
        /\ rec'.baseline # "none" /\ rec'.state = "submitted_unknown"
    BY <2>2, CommittedFields
  <2>4. ~interloper /\ rec.waitSafe => turn # "foreign"
    BY <2>1 DEF EvidenceSound, IdleWhenFound
  <2>5. EvidenceOf(rec)'
    BY <2>1, <2>3, <2>4 DEF EvidenceSound, EvidenceOf
  <2>6. IdleWhenFound'
    BY <2>1, <2>3 DEF EvidenceSound, IdleWhenFound
  <2>7. QED
    BY <2>1, <2>3, <2>5, <2>6 DEF EvidenceSound, BaselineFirst
<1>8. CASE Transmit(p)
  <2>1. /\ pc[p] = "submitting" /\ pc'[p] = "sent" /\ snap' = snap /\ rec' = rec
        /\ \A q \in Procs \ {p} : pc'[q] = pc[q]
        /\ UNCHANGED <<turn, interloper>>
    BY <1>8 DEF Transmit, TypeOK, envVars
  <2>2. prompts = 0 /\ request = "absent"
    BY <2>1 DEF IInv, PromptsWhileSubmitting, AddresseeSeen
  <2>3. request' \in {"absent", "queued", "lost"}
    BY <1>8, <2>2 DEF Transmit, Arrives
  <2>4. EvidenceOf(rec)'
    BY <2>1, <2>2, <2>3 DEF EvidenceSound, EvidenceOf
  <2>5. IdleWhenFound' /\ BaselineFirst'
    BY <2>1 DEF EvidenceSound, IdleWhenFound, BaselineFirst, FollowingPCs
  <2>6. QED
    BY <2>1, <2>2, <2>3, <2>4, <2>5 DEF EvidenceSound
<1>9. CASE RecordAnswer(p)
  <2>1. pc[p] = "sent" /\ UNCHANGED <<turn, interloper, request>>
    BY <1>9 DEF RecordAnswer, envVars, ghostVars
  <2>2. PICK r : /\ r = Answered(rec, answer[p])
                 /\ \/ SaveAndLeave(p, AfterDeliver(p, r), r)
                    \/ SaveAndLeave(p, "returned", r)
                    \/ /\ rec' = r /\ Keep(p, "polling", r)
                       /\ snap' = [snap EXCEPT ![p] = NoSnap]
    BY <1>1, <1>9, <2>1 DEF RecordAnswer, SubmitPCs
  <2>3. SameEvidence(rec, r)
    BY <2>2, EvidenceKeptBy
  <2>4. CASE rec' = r /\ Keep(p, "polling", r) /\ snap' = [snap EXCEPT ![p] = NoSnap]
    <3>1. GoesOn(p) /\ pc'[p] = "polling"
      BY <2>1, <2>4, KeepKeepsOthers DEF GoesOn
    <3>2. QED
      BY <2>1, <2>3, <2>4, <3>1, CarriedOn DEF FollowingPCs
  <2>5. CASE SaveAndLeave(p, AfterDeliver(p, r), r)
    BY <2>1, <2>3, <2>5, EndsOutside, LeavesEvidence DEF SaveAndLeave
  <2>6. CASE SaveAndLeave(p, "returned", r)
    BY <2>1, <2>3, <2>6, LeavesEvidence DEF SaveAndLeave, FollowingPCs
  <2>7. QED
    BY <2>2, <2>4, <2>5, <2>6
<1>10. CASE LoadSubmitted(p)
  <2>1. rec' = rec /\ UNCHANGED <<turn, interloper, request>>
    BY <1>10 DEF LoadSubmitted, SaveAndLeave, envVars, ghostVars
  <2>2. SameEvidence(rec, rec')
    BY <2>1, EvidenceKeptBy
  <2>3. CASE rec.baseline # "none" /\ Keep(p, "observing", rec) /\ snap' = snap
    <3>1. GoesOn(p)
      BY <2>1, <2>3, KeepKeepsOthers DEF GoesOn
    <3>2. QED
      BY <2>2, <2>3, <3>1, CarriedOn
  <2>4. ASSUME NEW l, SaveAndLeave(p, l, rec),
               l \in {AfterObserve(p, rec), "done", "idle"}
        PROVE  EvidenceSound'
    BY <2>1, <2>2, <2>4, EndsOutside, LeavesEvidence DEF FollowingPCs
  <2>5. \/ rec.baseline # "none" /\ Keep(p, "observing", rec) /\ snap' = snap
        \/ \E l \in {AfterObserve(p, rec), "done", "idle"} : SaveAndLeave(p, l, rec)
    BY <1>10 DEF LoadSubmitted
  <2>6. QED
    BY <2>3, <2>4, <2>5
<1>11. CASE Observe(p)
  <2>1. pc[p] = "observing" /\ UNCHANGED <<turn, interloper, request>>
    BY <1>11 DEF Observe, envVars, ghostVars
  <2>2. mem[p] = rec /\ rec.baseline # "none" /\ rec.state # "submitted_settled"
    BY <1>1, <2>1 DEF InsidePCs, IInv, StageOfProcesses, EvidenceSound,
                      BaselineFirst, FollowingPCs
  <2>3. PICK r : /\ r \in Observed(rec) \/ r = rec
                 /\ SaveAndLeave(p, AfterObserve(p, r), r)
    BY <1>11, <2>2 DEF Observe
  <2>4. CASE r = rec
    BY <2>1, <2>3, <2>4, EvidenceKeptBy, EndsOutside, LeavesEvidence
    DEF SaveAndLeave
  <2>5. CASE r \in Observed(rec)
    <3>1. GoesOn(p) /\ rec' = r
      BY <2>1, <2>3, EndsOutside, LeaveKeepsOthers
      DEF SaveAndLeave, OthersKept, GoesOn
    <3>2. QED
      BY <2>2, <2>5, <3>1, ObservingEvidence
  <2>6. QED
    BY <2>3, <2>4, <2>5
<1>12. QED
  BY <1>2, <1>3, <1>4, <1>5, <1>6, <1>7, <1>8, <1>9, <1>10, <1>11 DEF LockedStep

\* Everybody else, and the recipient.
LEMMA OthersEvidence ==
  ASSUME TypeOK, IInv, EvidenceSound,
         \/ \E w \in Workers : WorkerStep(w)
         \/ \E v \in Viewers : BeginStatus(v)
         \/ \E p \in Procs : StoreRoute(p) \/ Crash(p)
         \/ UserStep
         \/ EnvStep
  PROVE  EvidenceSound'
<1>0. Workers \subseteq Procs /\ Viewers \subseteq Procs /\ rec \in Records
  BY ProcsKnown DEF TypeOK
<1> USE <1>0
<1>1. SameEvidence(rec, rec)
  BY EvidenceKeptBy
<1>2. ASSUME NEW w \in Workers, BeginTick(w)
      PROVE  EvidenceSound'
  <2>1. /\ rec' = Validated(rec) /\ pc[w] = "idle"
        /\ UNCHANGED <<turn, interloper, request>>
    BY <1>2 DEF BeginTick, envVars, ghostVars
  <2>2. SameEvidence(rec, rec')
    BY <2>1, EvidenceKeptBy
  <2>3. \/ pc' = pc /\ snap' = snap
        \/ pc' = [pc EXCEPT ![w] = "deliver"] /\ snap' = snap
        \/ \E r : Leave(w, AfterDeliver(w, r), r)
    BY <1>2 DEF BeginTick, procVars
  <2>4. GoesOn(w) /\ pc'[w] \notin FollowingPCs
    BY <2>1, <2>3, LeaveKeepsOthers, EndsOutside
    DEF GoesOn, OthersKept, FollowingPCs, TypeOK
  <2>5. QED
    BY <2>2, <2>4, CarriedOn
<1>3. ASSUME NEW w \in Workers, Notify(w)
      PROVE  EvidenceSound'
  <2>1. rec' = rec /\ UNCHANGED <<turn, interloper, request>>
    BY <1>3 DEF Notify, envVars
  <2>2. \/ Keep(w, "notified", rec) /\ snap' = snap
        \/ Leave(w, "idle", rec)
    BY <1>3 DEF Notify
  <2>3. GoesOn(w) /\ pc'[w] \notin FollowingPCs
    BY <2>1, <2>2, LeaveKeepsOthers, KeepKeepsOthers
    DEF GoesOn, OthersKept, FollowingPCs
  <2>4. QED
    BY <1>1, <2>1, <2>3, CarriedOn
<1>4. ASSUME NEW w \in Workers, SaveNotified(w)
      PROVE  EvidenceSound'
  <2>1. PICK saved \in BOOLEAN :
           SaveAndLeave(w, "idle", [mem[w] EXCEPT !.notified = saved])
    BY <1>4 DEF SaveNotified
  <2>2. pc[w] = "notified" /\ UNCHANGED <<turn, interloper, request>>
    BY <1>4 DEF SaveNotified, envVars, ghostVars
  <2>3. mem[w] = rec
    BY <2>2, RightsOf DEF InsidePCs
  <2>4. SameEvidence(rec, rec')
    BY <2>1, <2>3 DEF SaveAndLeave, Records, SameEvidence
  <2>5. QED
    BY <2>1, <2>2, <2>4, LeavesEvidence DEF FollowingPCs
<1>5. ASSUME NEW v \in Viewers, BeginStatus(v)
      PROVE  EvidenceSound'
  <2>1. rec' = rec /\ GoesOn(v) /\ pc'[v] = "deliver"
    BY <1>5 DEF BeginStatus, GoesOn, TypeOK, envVars, ghostVars
  <2>2. QED
    BY <1>1, <2>1, CarriedOn DEF FollowingPCs
<1>6. ASSUME NEW p \in Procs, StoreRoute(p) \/ Crash(p)
      PROVE  EvidenceSound'
  <2>1. rec' = rec /\ UNCHANGED <<turn, interloper, request>>
    BY <1>6 DEF StoreRoute, Merged, Crash, envVars, ghostVars
  <2>2. \E l \in {"idle", "done"} : Leave(p, l, NoRecord)
    BY <1>6 DEF StoreRoute, Crash
  <2>3. QED
    BY <1>1, <2>1, <2>2, LeavesEvidence DEF FollowingPCs
<1>7. CASE UserPush \/ UserCancel \/ Damage
  <2>1. UNCHANGED <<pc, snap, turn, interloper, request>>
    BY <1>7 DEF UserPush, UserCancel, Damage, procVars, envVars, ghostVars
  <2>2. SameEvidence(rec, rec')
    <3>1. SameEvidence(rec, [rec EXCEPT !.wellFormed = FALSE])
      BY DEF Records, SameEvidence
    <3>2. QED
      BY <1>7, <3>1, EvidenceKeptBy DEF UserPush, UserCancel, Damage
  <2>3. QED
    BY <2>1, <2>2 DEF EvidenceSound, EvidenceOf, IdleWhenFound, BaselineFirst,
                      SameEvidence
<1>8. CASE FocusMoves \/ DeadlinePasses \/ WatchRunsOut
  <2>1. UNCHANGED <<rec, pc, snap, turn, interloper, request>>
    BY <1>8 DEF FocusMoves, DeadlinePasses, WatchRunsOut, procVars, ghostVars
  <2>2. QED
    BY <2>1 DEF EvidenceSound, EvidenceOf, IdleWhenFound, BaselineFirst
<1>9. CASE OccupantChanges \/ ForeignTurnStarts
  <2>1. UNCHANGED <<rec, pc, snap>> /\ interloper'
    BY <1>9 DEF OccupantChanges, ForeignTurnStarts, procVars
  <2>2. turn' # "requested" /\ request' # "running"
    BY <1>9 DEF OccupantChanges, ForeignTurnStarts, EvidenceSound, ghostVars
  <2>3. QED
    BY <2>1, <2>2 DEF EvidenceSound, EvidenceOf, IdleWhenFound, BaselineFirst
<1>10. CASE RequestedTurnStarts \/ TurnEnds
  <2>1. UNCHANGED <<rec, pc, snap, interloper>> /\ turn' # "foreign"
    BY <1>10 DEF RequestedTurnStarts, TurnEnds, procVars
  <2>2. /\ turn' = "requested" <=> request' = "running"
        /\ request \in {"running", "done"} => request' \in {"running", "done"}
        /\ request = "done" => request' = "done"
    BY <1>10 DEF RequestedTurnStarts, TurnEnds, EvidenceSound
  <2>3. QED
    BY <2>1, <2>2 DEF EvidenceSound, EvidenceOf, IdleWhenFound, BaselineFirst
<1>11. QED
  BY <1>2, <1>3, <1>4, <1>5, <1>6, <1>7, <1>8, <1>9, <1>10
  DEF WorkerStep, UserStep, EnvStep

\* If nobody else's turn began at the recipient since the submission looked
\* at it, a settled request is one whose own turn ran and ended.
THEOREM SettledAfterItsTurnHolds == Spec => []SettledAfterItsTurn
<1>1. Init => AddresseeSeen /\ EvidenceSound
  BY DEF Init, NoRecord, AddresseeSeen, Seen, SendingPCs, EvidenceSound, EvidenceOf,
         IdleWhenFound, BaselineFirst, FollowingPCs
<1>2. TypeOK /\ IInv /\ AddresseeSeen /\ EvidenceSound /\ [Next]_vars
        => (AddresseeSeen /\ EvidenceSound)'
  <2> SUFFICES ASSUME TypeOK, IInv, AddresseeSeen, EvidenceSound, [Next]_vars
               PROVE  (AddresseeSeen /\ EvidenceSound)'
    OBVIOUS
  <2>1. CASE UNCHANGED vars
    BY <2>1 DEF vars, procVars, envVars, ghostVars, AddresseeSeen, Seen,
                EvidenceSound, EvidenceOf, IdleWhenFound, BaselineFirst
  <2>2. CASE Next
    <3>1. AddresseeSeen'
      BY <2>2, CallerSees, LockedSees, OthersSee, NothingBefore
      DEF Next, AddresseeSeen
    <3>2. EvidenceSound'
      BY <2>2, CallerEvidence, LockedEvidence, OthersEvidence DEF Next
    <3>3. QED
      BY <3>1, <3>2
  <2>3. QED
    BY <2>1, <2>2
<1>3. EvidenceSound => SettledAfterItsTurn
  BY DEF EvidenceSound, EvidenceOf, SettledAfterItsTurn
<1>4. QED
  BY <1>1, <1>2, <1>3, InvariantHolds, PTL DEF Spec
=============================================================================
