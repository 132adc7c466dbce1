-------------------------- MODULE RequestLifecycle --------------------------
(***************************************************************************)
(* One request record on disk, the per-request lock that guards it, and    *)
(* every process that works on it: the command that created it (request    *)
(* or send), the delivery worker, request-status commands and the Held     *)
(* Messages popup.  A process may die between any two steps; the recipient *)
(* pane gains and loses focus, changes occupant and runs turns of its own. *)
(*                                                                         *)
(* A step holds what the code does between two points where somebody else  *)
(* can be noticed: another process (a lock acquired or released, a file    *)
(* saved), the recipient (resolve, prompt) or a crash (a save before a     *)
(* side effect).  Inside a locked section every save writes the process's  *)
(* own copy of the record, mem, as the code writes its dictionary.         *)
(***************************************************************************)
EXTENDS Naturals, FiniteSets

CONSTANTS
    Caller,       \* the request or send command that creates the record
    Workers,      \* delivery workers (agent_delivery.py worker)
    Viewers,      \* request-status commands
    Occupants,    \* identities that can be found at the recipient's address
    Sender,       \* the identity of the sending agent, or NoOne
    NoOne,        \* no process, no occupant
    Modes,        \* what Caller may be: "request" (waits) or "send"
    Moves,        \* the environment moves of this instance
    MaxCrashes    \* bound on the number of process deaths

Procs == {Caller} \cup Workers \cup Viewers

AllMoves == {"focus", "swap", "turns", "damage", "loss"}

ASSUME ProcessesDistinct ==
    /\ Caller \notin Workers \cup Viewers
    /\ Workers \cap Viewers = {}
    /\ NoOne \notin Procs

ASSUME OccupantsKnown ==
    /\ NoOne \notin Occupants
    /\ Sender \in Occupants \cup {NoOne}

ASSUME ScenarioKnown ==
    /\ Modes \subseteq {"request", "send"}
    /\ Moves \subseteq AllMoves
    /\ MaxCrashes \in Nat

VARIABLES
    rec,          \* the record in <request_id>.json
    lock,         \* owner of <request_id>.lock
    pc,           \* where each process is
    mem,          \* the copy of the record a process works on
    snap,         \* what a process last resolved about the recipient
    force,        \* the worker's force argument
    answer,       \* what transport.submit returned
    mode,         \* which command Caller is
    occupant,     \* who is at the recipient's address now
    focused,      \* the recipient pane has focus
    turn,         \* what the occupant is working on
    overdue,      \* the hold deadline has passed
    watchOver,    \* _watch_until has passed
    crashes,      \* process deaths so far
    prompts,      \* ghost: prompts that arrived somewhere
    request,      \* ghost: the requested turn at the recipient
    interloper,   \* ghost: somebody else's turn began after the last snapshot
    notices       \* ghost: decision notifications shown

procVars == <<pc, mem, snap, force, answer, mode>>
envVars == <<occupant, focused, turn, overdue, watchOver, interloper>>
ghostVars == <<prompts, request, notices>>
vars == <<rec, lock, procVars, envVars, crashes, ghostVars>>

-----------------------------------------------------------------------------
(* The record.                                                             *)

States == {"none", "resolving", "deferred", "awaiting_decision",
           "submitted_working", "submitted_unknown", "submitted_settled",
           "submission_failed"}

Records == [state : States,
            terminal : BOOLEAN,
            submitted : {"null", "no", "yes"},
            decision : BOOLEAN,        \* _defer.decision is "push"
            notified : BOOLEAN,        \* defer.notified is set
            wellFormed : BOOLEAN,      \* _defer and defer can be used
            target : Occupants \cup {NoOne},   \* _target_identity
            working : BOOLEAN,         \* recipient_status is "working"
            waitSafe : BOOLEAN,
            turnObserved : BOOLEAN,    \* requested_turn_observed
            baseline : {"none", "ok", "error"},
            correlated : BOOLEAN,      \* response.correlated
            watched : BOOLEAN,         \* _watch_until is present
            wait : {"open", "timed_out", "cancelled"}]

\* "none" is the file that does not exist, "resolving" the state None of a
\* new record.
NoRecord == [state |-> "none", terminal |-> FALSE, submitted |-> "null",
             decision |-> FALSE, notified |-> FALSE, wellFormed |-> TRUE,
             target |-> NoOne, working |-> FALSE, waitSafe |-> FALSE,
             turnObserved |-> FALSE, baseline |-> "none",
             correlated |-> FALSE, watched |-> FALSE, wait |-> "open"]

NewRecord == [NoRecord EXCEPT !.state = "resolving"]

Snapshots == [occupant : Occupants \cup {NoOne},
              working : BOOLEAN,
              focused : BOOLEAN]

NoSnap == [occupant |-> NoOne, working |-> FALSE, focused |-> FALSE]

Held(r) == r.state \in {"deferred", "awaiting_decision"}

\* _finish_without_target: closed, and nothing was delivered.
Failed(r) == [r EXCEPT !.state = "submission_failed",
                       !.terminal = TRUE,
                       !.submitted = "no"]

\* A held record whose _defer or defer is unusable fails instead of being
\* delivered.
Validated(r) == IF Held(r) /\ ~r.wellFormed THEN Failed(r) ELSE r

RecipientChanged(r) == [r EXCEPT !.state = "submitted_unknown",
                                 !.terminal = TRUE,
                                 !.correlated = FALSE]

Settled(r, reliable) == [r EXCEPT !.state = "submitted_settled",
                                  !.terminal = TRUE,
                                  !.working = FALSE,
                                  !.wait = IF @ = "timed_out" THEN "open" ELSE @,
                                  !.correlated = reliable]

\* The worker's queue: held records, and submitted ones still watched.
Pending(r) == ~r.terminal /\ (Held(r) \/ (r.watched /\ ~watchOver))

Working == turn # "idle"

-----------------------------------------------------------------------------
(* Process bookkeeping.                                                    *)

\* The caller's unlocked part: it created the record and nobody else looks
\* at it before the message is held or the command returned.
CallerPrivate ==
    \/ pc[Caller] \in {"start", "resolve", "direct", "exit", "polling"}
    \/ pc[Caller] \in {"baseline", "submitting", "sent"} /\ lock # Caller

\* Mutant: a tick that moves a message to awaiting_decision tells nobody.
AfterDeliverSilent(p, r) ==
    CASE p \in Workers -> IF ~Held(r) /\ ~r.terminal /\ r.watched /\ ~watchOver
                          THEN "observe" ELSE "idle"
      [] p = Caller    -> IF Held(r) THEN "waiting" ELSE "observe"
      [] OTHER         -> IF Held(r) THEN "returned" ELSE "observe"

\* Where p goes once deliver_deferred returned r: the worker notifies or
\* observes, a refresh goes on to observe unless the message is still held.
AfterDeliver(p, r) ==
    CASE p \in Workers -> IF r.state = "awaiting_decision" THEN "notify"
                          ELSE IF ~r.terminal /\ r.watched /\ ~watchOver
                               THEN "observe" ELSE "idle"
      [] p = Caller    -> IF Held(r) THEN "waiting" ELSE "observe"
      [] OTHER         -> IF Held(r) THEN "returned" ELSE "observe"

AfterObserve(p, r) ==
    CASE p \in Workers -> "idle"
      [] p = Caller    -> IF r.terminal THEN "returned" ELSE "waiting"
      [] OTHER         -> "returned"

\* p ends a call with record r in hand and goes to l; the copy is kept only
\* by a command that is about to store its route and report.
Leave(p, l, r) ==
    /\ pc' = [pc EXCEPT ![p] = l]
    /\ mem' = [mem EXCEPT ![p] = IF l = "returned" THEN r ELSE NoRecord]
    /\ snap' = [snap EXCEPT ![p] = NoSnap]
    /\ force' = [force EXCEPT ![p] = FALSE]
    /\ answer' = [answer EXCEPT ![p] = "none"]
    /\ UNCHANGED mode

\* p goes on to l with record r in hand.
Keep(p, l, r) ==
    /\ pc' = [pc EXCEPT ![p] = l]
    /\ mem' = [mem EXCEPT ![p] = r]
    /\ UNCHANGED mode

Release(p) == lock' = IF lock = p THEN NoOne ELSE lock

\* p saves r and drops the lock it may hold.
SaveAndLeave(p, l, r) ==
    /\ rec' = r
    /\ Release(p)
    /\ Leave(p, l, r)

LookUp == [occupant |-> occupant, working |-> Working, focused |-> focused]
-----------------------------------------------------------------------------
(* The caller: run() and enqueue().                                        *)

Begin ==
    /\ pc[Caller] = "start"
    /\ rec' = IF mode = "request" THEN NewRecord ELSE rec
    /\ Keep(Caller, "resolve", NewRecord)
    /\ UNCHANGED <<lock, snap, force, answer, envVars, crashes, ghostVars>>

HeldRecord(r) == [r EXCEPT !.state = "deferred",
                           !.submitted = "no",
                           !.target = occupant,
                           !.working = Working]

\* Mutant: the turn that is already running is not remembered.
CapturingUnsafe(r, s) == [r EXCEPT !.target = s.occupant,
                                   !.working = s.working,
                                   !.waitSafe = TRUE]

\* _submit's first save: the record still reads as it did (held, or new).
Capturing(r, s) == [r EXCEPT !.target = s.occupant,
                             !.working = s.working,
                             !.waitSafe = ~s.working]

\* The first look at the recipient.  A new snapshot starts a new window in
\* which an interloper's turn would be a surprise.
ResolveUnreachable ==
    /\ pc[Caller] = "resolve"
    /\ "loss" \in Moves
    /\ SaveAndLeave(Caller, "returned", Failed(mem[Caller]))
    /\ UNCHANGED <<envVars, crashes, ghostVars>>

RejectSelfSend ==
    /\ pc[Caller] = "resolve"
    /\ occupant = Sender
    /\ SaveAndLeave(Caller, IF mode = "send" THEN "done" ELSE "returned",
                    Failed(mem[Caller]))
    /\ UNCHANGED <<envVars, crashes, ghostVars>>

Defer ==
    /\ pc[Caller] = "resolve"
    /\ occupant # Sender
    /\ focused
    /\ SaveAndLeave(Caller, IF mode = "send" THEN "returned" ELSE "waiting",
                    HeldRecord(mem[Caller]))
    /\ UNCHANGED <<envVars, crashes, ghostVars>>

\* request: straight into _submit, without the record's lock.
SubmitNow ==
    /\ pc[Caller] = "resolve"
    /\ mode = "request"
    /\ occupant # Sender
    /\ ~focused
    /\ snap' = [snap EXCEPT ![Caller] = LookUp]
    /\ rec' = Capturing(mem[Caller], LookUp)
    /\ Keep(Caller, "baseline", rec')
    /\ interloper' = FALSE
    /\ UNCHANGED <<lock, force, answer, occupant, focused, turn, overdue,
                   watchOver, crashes, ghostVars>>

\* send: the prompt goes out with no record of it.
SendNow ==
    /\ pc[Caller] = "resolve"
    /\ mode = "send"
    /\ occupant # Sender
    /\ ~focused
    /\ snap' = [snap EXCEPT ![Caller] = LookUp]
    /\ Keep(Caller, "direct", [mem[Caller] EXCEPT !.target = occupant])
    /\ interloper' = FALSE
    /\ UNCHANGED <<rec, lock, force, answer, occupant, focused, turn, overdue,
                   watchOver, crashes, ghostVars>>

-----------------------------------------------------------------------------
(* Delivering a held message: deliver_deferred and _submit.                *)

\* Mutant: an entry that awaits a decision is never looked at for a push.
BeginTickDeaf(w) ==
    /\ pc[w] = "idle"
    /\ lock = NoOne
    /\ Pending(rec)
    /\ LET v == Validated(rec) IN
       /\ rec' = v
       /\ IF v.terminal
          THEN UNCHANGED procVars
          ELSE IF v.state = "deferred"
          THEN /\ pc' = [pc EXCEPT ![w] = "deliver"]
               /\ UNCHANGED <<mem, snap, force, answer, mode>>
          ELSE Leave(w, AfterDeliver(w, v), v)
    /\ UNCHANGED <<lock, envVars, crashes, ghostVars>>

\* worker_tick on one queue entry: the entry is validated under the lock and
\* the push decision of that moment becomes the force argument.
BeginTick(w) ==
    /\ pc[w] = "idle"
    /\ lock = NoOne
    /\ Pending(rec)
    /\ LET v == Validated(rec) IN
       /\ rec' = v
       /\ IF v.terminal
          THEN UNCHANGED procVars
          ELSE IF v.decision \/ v.state = "deferred"
          THEN /\ pc' = [pc EXCEPT ![w] = "deliver"]
               /\ force' = [force EXCEPT ![w] = v.decision]
               /\ UNCHANGED <<mem, snap, answer, mode>>
          ELSE Leave(w, AfterDeliver(w, v), v)
    /\ UNCHANGED <<lock, envVars, crashes, ghostVars>>

\* request-status: refresh() on a record that is not terminal.
BeginStatus(v) ==
    /\ pc[v] = "idle"
    /\ ~CallerPrivate
    /\ rec.state # "none"
    /\ ~rec.terminal
    /\ pc' = [pc EXCEPT ![v] = "deliver"]
    /\ UNCHANGED <<rec, lock, mem, snap, force, answer, mode, envVars, crashes,
                   ghostVars>>

\* One round of the caller's wait for its held message: refresh().
WaitPoll ==
    /\ pc[Caller] = "waiting"
    /\ pc' = [pc EXCEPT ![Caller] = "deliver"]
    /\ UNCHANGED <<rec, lock, mem, snap, force, answer, mode, envVars, crashes,
                   ghostVars>>

\* deliver_deferred takes the lock, loads and validates; a record that is no
\* longer held is returned as it is.
LoadHeld(p) ==
    /\ pc[p] = "deliver"
    /\ lock = NoOne
    /\ LET v == Validated(rec) IN
       IF Held(v)
       THEN /\ lock' = p
            /\ Keep(p, "recheck", v)
            /\ UNCHANGED <<rec, snap, force, answer>>
       ELSE SaveAndLeave(p, AfterDeliver(p, v), v)
    /\ UNCHANGED <<envVars, crashes, ghostVars>>

\* The occupant can no longer be found, or is somebody else: the held
\* message fails undelivered.
LoseHeld(p) ==
    /\ pc[p] = "recheck"
    /\ \/ "loss" \in Moves
       \/ occupant # mem[p].target
    /\ SaveAndLeave(p, AfterDeliver(p, Failed(mem[p])), Failed(mem[p]))
    /\ UNCHANGED <<envVars, crashes, ghostVars>>

\* Mutant: the occupant is not compared with the one the message was held for.
RecheckHeldAnybody(p) ==
    /\ pc[p] = "recheck"
    /\ snap' = [snap EXCEPT ![p] = LookUp]
    /\ pc' = [pc EXCEPT ![p] = "decide"]
    /\ interloper' = FALSE
    /\ UNCHANGED <<rec, lock, mem, force, answer, mode, occupant, focused, turn,
                   overdue, watchOver, crashes, ghostVars>>

RecheckHeld(p) ==
    /\ pc[p] = "recheck"
    /\ occupant = mem[p].target
    /\ snap' = [snap EXCEPT ![p] = LookUp]
    /\ pc' = [pc EXCEPT ![p] = "decide"]
    /\ interloper' = FALSE
    /\ UNCHANGED <<rec, lock, mem, force, answer, mode, occupant, focused, turn,
                   overdue, watchOver, crashes, ghostVars>>

PushGranted(p) == force[p] \/ mem[p].decision

\* Mutant: the deadline is never compared with the clock.
KeepHoldingForever(p) ==
    /\ pc[p] = "decide"
    /\ ~PushGranted(p)
    /\ mem[p].state = "awaiting_decision" \/ snap[p].focused
    /\ SaveAndLeave(p, AfterDeliver(p, mem[p]), mem[p])
    /\ UNCHANGED <<envVars, crashes, ghostVars>>

\* Not to be delivered now: waiting for a decision, or still focused, and
\* then waiting for a decision once the deadline has passed.
KeepHolding(p) ==
    /\ pc[p] = "decide"
    /\ ~PushGranted(p)
    /\ mem[p].state = "awaiting_decision" \/ snap[p].focused
    /\ LET kept == IF overdue
                   THEN [mem[p] EXCEPT !.state = "awaiting_decision"]
                   ELSE mem[p]
       IN  SaveAndLeave(p, AfterDeliver(p, kept), kept)
    /\ UNCHANGED <<envVars, crashes, ghostVars>>

\* Mutant: a message that awaits a decision goes out once focus has left.
MayDeliverUnfocused(p) == PushGranted(p) \/ ~snap[p].focused

MayDeliver(p) ==
    \/ PushGranted(p)
    \/ mem[p].state = "deferred" /\ ~snap[p].focused

ReleaseHeld(p) ==
    /\ pc[p] = "decide"
    /\ MayDeliver(p)
    /\ rec' = Capturing(mem[p], snap[p])
    /\ Keep(p, "baseline", rec')
    /\ UNCHANGED <<lock, snap, force, answer, envVars, crashes, ghostVars>>

\* Mutant: the hold is given up only after the transport has answered.
CommittedLate(r, b) == [r EXCEPT !.watched = Held(r), !.baseline = b]

\* The record says "possibly submitted" before the prompt leaves, and is no
\* longer held.
Committed(r, b) == [r EXCEPT !.state = "submitted_unknown",
                             !.submitted = "null",
                             !.decision = FALSE,
                             !.notified = FALSE,
                             !.wellFormed = TRUE,
                             !.watched = Held(r),
                             !.baseline = b]

Commit(p) ==
    /\ pc[p] = "baseline"
    /\ \E b \in {"ok", "error"} : rec' = Committed(mem[p], b)
    /\ Keep(p, "submitting", rec')
    /\ UNCHANGED <<lock, snap, force, answer, envVars, crashes, ghostVars>>

\* Only run() passes _submit a cancellation check.
CancelSubmission ==
    /\ pc[Caller] = "baseline"
    /\ lock # Caller
    /\ SaveAndLeave(Caller, "returned",
                    [Failed(mem[Caller]) EXCEPT !.wait = "cancelled"])
    /\ UNCHANGED <<envVars, crashes, ghostVars>>

\* A prompt reaches whoever is at the address at that moment.
Arrives(r) ==
    /\ prompts' = prompts + 1
    /\ request' = IF occupant # r.target THEN "lost"
                  ELSE IF request = "absent" THEN "queued" ELSE request

\* transport.submit: accepted, definitely refused, or unknown because the
\* command timed out or was interrupted after it may have run.
Transmit(p) ==
    /\ pc[p] = "submitting"
    /\ \/ answer' = [answer EXCEPT ![p] = "accepted"] /\ Arrives(mem[p])
       \/ answer' = [answer EXCEPT ![p] = "unknown"] /\ Arrives(mem[p])
       \/ /\ \E a \in {"refused", "unknown"} :
                answer' = [answer EXCEPT ![p] = a]
          /\ UNCHANGED <<prompts, request>>
    /\ pc' = [pc EXCEPT ![p] = "sent"]
    /\ UNCHANGED <<rec, lock, mem, snap, force, mode, envVars, crashes, notices>>

\* Mutant: an interrupted submission is reported as a refused one.
AnsweredPessimist(r, a) ==
    IF a # "accepted" THEN Failed(r)
    ELSE [r EXCEPT !.submitted = "yes",
                   !.state = IF r.working THEN "submitted_working"
                             ELSE "submitted_unknown"]

\* Mutant: the transport's word is stored where null, no or yes is expected.
AnsweredRaw(r, a) ==
    IF a = "refused" THEN Failed(r)
    ELSE [r EXCEPT !.submitted = a,
                   !.state = IF r.working THEN "submitted_working"
                             ELSE "submitted_unknown"]

Answered(r, a) ==
    IF a = "refused" THEN Failed(r)
    ELSE [r EXCEPT !.submitted = IF a = "accepted" THEN "yes" ELSE "null",
                   !.state = IF r.working THEN "submitted_working"
                             ELSE "submitted_unknown"]

\* The answer is saved; the run() path goes on to poll, the others release
\* the record.
RecordAnswer(p) ==
    /\ pc[p] = "sent"
    /\ LET r == Answered(mem[p], answer[p]) IN
       IF lock = p THEN SaveAndLeave(p, AfterDeliver(p, r), r)
       ELSE IF r.terminal THEN SaveAndLeave(p, "returned", r)
       ELSE /\ rec' = r
            /\ Keep(p, "polling", r)
            /\ snap' = [snap EXCEPT ![p] = NoSnap]
            /\ answer' = [answer EXCEPT ![p] = "none"]
            /\ UNCHANGED <<lock, force>>
    /\ UNCHANGED <<envVars, crashes, ghostVars>>

\* send's immediate prompt: the command's exit is the only trace of it.
TransmitDirect ==
    /\ pc[Caller] = "direct"
    /\ Arrives(mem[Caller]) \/ UNCHANGED <<prompts, request>>
    /\ Leave(Caller, "exit", NoRecord)
    /\ UNCHANGED <<rec, lock, envVars, crashes, notices>>

ExitDirect ==
    /\ pc[Caller] = "exit"
    /\ Leave(Caller, "done", NoRecord)
    /\ UNCHANGED <<rec, lock, envVars, crashes, ghostVars>>

-----------------------------------------------------------------------------
(* Observing a submitted request: refresh() and run()'s poll.              *)

\* A timed-out wait is forgotten once something newer was seen.
Reopened(w) == IF w = "timed_out" THEN "open" ELSE w

\* What one look at the recipient makes of the record.  An idle recipient
\* ends the turn that was running before the submission (a fresh baseline is
\* read), then working starts the requested turn and idle settles it.
Observations(r) ==
    CASE ~r.waitSafe /\ Working ->
            {[r EXCEPT !.state = "submitted_working", !.working = TRUE,
                       !.correlated = FALSE]}
      [] ~r.waitSafe /\ ~Working ->
            {[r EXCEPT !.state = "submitted_unknown", !.working = FALSE,
                       !.waitSafe = TRUE, !.baseline = b,
                       !.wait = Reopened(@), !.correlated = FALSE]
             : b \in {"ok", "error"}}
      [] r.waitSafe /\ Working ->
            {[r EXCEPT !.state = "submitted_working", !.working = TRUE,
                       !.turnObserved = TRUE, !.wait = Reopened(@),
                       !.correlated = FALSE]}
      [] r.waitSafe /\ ~Working /\ r.turnObserved ->
            {Settled(r, c) : c \in IF r.baseline = "ok" THEN BOOLEAN ELSE {FALSE}}
      [] OTHER ->
            {[r EXCEPT !.state = "submitted_unknown", !.working = FALSE,
                       !.correlated = FALSE]}

\* refresh() after deliver_deferred: the lock is taken again, a closed record
\* is returned, one without a baseline (its creator died early) is an error.
LoadSubmitted(p) ==
    /\ pc[p] = "observe"
    /\ lock = NoOne
    /\ IF rec.terminal
       THEN SaveAndLeave(p, AfterObserve(p, rec), rec)
       ELSE IF rec.baseline = "none"
       THEN SaveAndLeave(p, IF p = Caller THEN "done" ELSE "idle", rec)
       ELSE /\ lock' = p
            /\ Keep(p, "observing", rec)
            /\ UNCHANGED <<rec, snap, force, answer>>
    /\ UNCHANGED <<envVars, crashes, ghostVars>>

\* The resolution failed (the record is saved as it was), found somebody
\* else, or the same occupant.
Observed(r) ==
    IF occupant # r.target THEN {RecipientChanged(r)} ELSE Observations(r)

Observe(p) ==
    /\ pc[p] = "observing"
    /\ \E r \in Observed(mem[p]) \cup (IF "loss" \in Moves THEN {mem[p]} ELSE {}) :
          SaveAndLeave(p, AfterObserve(p, r), r)
    /\ UNCHANGED <<envVars, crashes, ghostVars>>

\* run() polls with no lock; a failed resolution changes nothing.
Poll ==
    /\ pc[Caller] = "polling"
    /\ \E r \in Observed(mem[Caller]) :
          IF r.terminal
          THEN SaveAndLeave(Caller, "returned", r)
          ELSE /\ rec' = r
               /\ Keep(Caller, "polling", r)
               /\ UNCHANGED <<lock, snap, force, answer>>
    /\ UNCHANGED <<envVars, crashes, ghostVars>>

GaveUp(r, w) == [r EXCEPT !.wait = w,
                          !.correlated = FALSE,
                          !.state = IF r.working THEN "submitted_working"
                                    ELSE "submitted_unknown"]

\* run() stops waiting: its deadline passed, or it was cancelled.
StopPolling ==
    /\ pc[Caller] = "polling"
    /\ \E w \in {"timed_out", "cancelled"} :
          SaveAndLeave(Caller, "returned", GaveUp(mem[Caller], w))
    /\ UNCHANGED <<envVars, crashes, ghostVars>>

-----------------------------------------------------------------------------
(* The caller's wait for its held message: _wait_deferred.                 *)

WaitTimeout ==
    /\ pc[Caller] = "waiting"
    /\ lock = NoOne
    /\ LET r == IF Held(rec) \/ rec.terminal THEN rec
                ELSE GaveUp(rec, "timed_out")
       IN  SaveAndLeave(Caller, "returned", r)
    /\ UNCHANGED <<envVars, crashes, ghostVars>>

Cancelled(r) == IF Held(Validated(r)) THEN Failed(r) ELSE Validated(r)

\* A cancelled wait withdraws the message if it is still held ...
WaitCancel ==
    /\ pc[Caller] = "waiting"
    /\ lock = NoOne
    /\ SaveAndLeave(Caller, IF Cancelled(rec).terminal THEN "returned" ELSE "mark",
                    Cancelled(rec))
    /\ UNCHANGED <<envVars, crashes, ghostVars>>

\* ... and otherwise only says that nobody waits for it any more.
MarkCancelled ==
    /\ pc[Caller] = "mark"
    /\ lock = NoOne
    /\ LET r == IF rec.terminal THEN rec ELSE [rec EXCEPT !.wait = "cancelled"]
       IN  SaveAndLeave(Caller, "returned", r)
    /\ UNCHANGED <<envVars, crashes, ghostVars>>

-----------------------------------------------------------------------------
(* Notification, the user's decision, and route bookkeeping.               *)

\* Mutant: the notification is shown first and the record locked afterwards.
NotifyUnlocked(w) ==
    /\ pc[w] = "notify"
    /\ notices' = notices + 1
    /\ Leave(w, "idle", NoRecord)
    /\ rec' = IF rec.state = "awaiting_decision" /\ lock = NoOne
              THEN [rec EXCEPT !.notified = TRUE] ELSE rec
    /\ UNCHANGED <<lock, envVars, crashes, prompts, request>>

\* The lock is kept while the notification is shown, so that nothing is
\* shown for a request that is being submitted.
Notify(w) ==
    /\ pc[w] = "notify"
    /\ lock = NoOne
    /\ IF rec.state = "awaiting_decision" /\ ~rec.notified
       THEN /\ notices' = notices + 1
            /\ lock' = w
            /\ Keep(w, "notified", rec)
            /\ UNCHANGED <<snap, force, answer>>
       ELSE Leave(w, "idle", rec) /\ UNCHANGED <<lock, notices>>
    /\ UNCHANGED <<rec, envVars, crashes, prompts, request>>

\* In a damaged entry there may be no defer to write into.
SaveNotified(w) ==
    /\ pc[w] = "notified"
    /\ \E saved \in IF mem[w].wellFormed THEN {TRUE} ELSE BOOLEAN :
          SaveAndLeave(w, "idle", [mem[w] EXCEPT !.notified = saved])
    /\ UNCHANGED <<envVars, crashes, ghostVars>>

Pushed(r) == IF Held(Validated(r)) THEN [r EXCEPT !.decision = TRUE]
             ELSE Validated(r)

\* The popup: the record is locked, loaded and saved in one go.
UserPush ==
    /\ Held(rec)
    /\ lock = NoOne
    /\ rec' = Pushed(rec)
    /\ UNCHANGED <<lock, procVars, envVars, crashes, ghostVars>>

UserCancel ==
    /\ Held(rec)
    /\ lock = NoOne
    /\ rec' = Cancelled(rec)
    /\ UNCHANGED <<lock, procVars, envVars, crashes, ghostVars>>

\* Mutant: the command stores the whole record it holds.
MergedWhole(latest, payload) == payload

\* Only routing and reporting metadata of the payload, which the model leaves
\* out, is written into the latest record, never an older lifecycle state.
Merged(latest, payload) == latest

StoreRoute(p) ==
    /\ pc[p] = "returned"
    /\ lock = NoOne
    /\ rec' = Merged(rec, mem[p])
    /\ Leave(p, IF p = Caller THEN "done" ELSE "idle", NoRecord)
    /\ UNCHANGED <<lock, envVars, crashes, ghostVars>>

\* The process dies; the kernel releases its lock, and a new worker or
\* command may take its place.
Crash(p) ==
    /\ crashes < MaxCrashes
    /\ pc[p] \notin {"idle", "start", "done"}
    /\ crashes' = crashes + 1
    /\ Release(p)
    /\ Leave(p, IF p = Caller THEN "done" ELSE "idle", NoRecord)
    /\ UNCHANGED <<rec, envVars, ghostVars>>

-----------------------------------------------------------------------------
(* The recipient, its pane, the clock, and the file system: external.      *)

FocusMoves ==
    /\ "focus" \in Moves
    /\ focused' = ~focused
    /\ UNCHANGED <<rec, lock, procVars, occupant, turn, overdue, watchOver,
                   interloper, crashes, ghostVars>>

OccupantChanges ==
    /\ "swap" \in Moves
    /\ occupant' \in Occupants \ {occupant}
    /\ turn' \in {"idle", "foreign"}
    /\ interloper' = TRUE
    /\ request' = IF request \in {"queued", "running"} THEN "lost" ELSE request
    /\ UNCHANGED <<rec, lock, procVars, focused, overdue, watchOver, crashes,
                   prompts, notices>>

ForeignTurnStarts ==
    /\ "turns" \in Moves
    /\ turn = "idle"
    /\ turn' = "foreign"
    /\ interloper' = TRUE
    /\ UNCHANGED <<rec, lock, procVars, occupant, focused, overdue, watchOver,
                   crashes, ghostVars>>

RequestedTurnStarts ==
    /\ turn = "idle"
    /\ request = "queued"
    /\ turn' = "requested"
    /\ request' = "running"
    /\ UNCHANGED <<rec, lock, procVars, occupant, focused, overdue, watchOver,
                   interloper, crashes, prompts, notices>>

TurnEnds ==
    /\ turn # "idle"
    /\ turn' = "idle"
    /\ request' = IF turn = "requested" THEN "done" ELSE request
    /\ UNCHANGED <<rec, lock, procVars, occupant, focused, overdue, watchOver,
                   interloper, crashes, prompts, notices>>

DeadlinePasses ==
    /\ Held(rec)
    /\ ~overdue
    /\ overdue' = TRUE
    /\ UNCHANGED <<rec, lock, procVars, occupant, focused, turn, watchOver,
                   interloper, crashes, ghostVars>>

WatchRunsOut ==
    /\ rec.watched
    /\ ~rec.terminal
    /\ ~watchOver
    /\ watchOver' = TRUE
    /\ UNCHANGED <<rec, lock, procVars, occupant, focused, turn, overdue,
                   interloper, crashes, ghostVars>>

\* The held entry's file is edited or left over from another version.
Damage ==
    /\ "damage" \in Moves
    /\ Held(rec)
    /\ rec.wellFormed
    /\ lock = NoOne
    /\ rec' = [rec EXCEPT !.wellFormed = FALSE]
    /\ UNCHANGED <<lock, procVars, envVars, crashes, ghostVars>>
-----------------------------------------------------------------------------
Init ==
    /\ rec = NoRecord
    /\ lock = NoOne
    /\ pc = [p \in Procs |-> IF p = Caller THEN "start" ELSE "idle"]
    /\ mem = [p \in Procs |-> NoRecord]
    /\ snap = [p \in Procs |-> NoSnap]
    /\ force = [p \in Procs |-> FALSE]
    /\ answer = [p \in Procs |-> "none"]
    /\ mode \in Modes
    /\ occupant \in Occupants
    /\ focused \in BOOLEAN
    /\ turn \in IF "turns" \in Moves THEN {"idle", "foreign"} ELSE {"idle"}
    /\ overdue = FALSE
    /\ watchOver = FALSE
    /\ interloper = FALSE
    /\ crashes = 0
    /\ prompts = 0
    /\ request = "absent"
    /\ notices = 0

CallerStep ==
    \/ Begin \/ ResolveUnreachable \/ RejectSelfSend \/ Defer
    \/ SubmitNow \/ SendNow \/ CancelSubmission
    \/ TransmitDirect \/ ExitDirect
    \/ Poll \/ StopPolling
    \/ WaitPoll \/ WaitTimeout \/ WaitCancel \/ MarkCancelled

\* deliver_deferred and refresh, the same for every process that runs them.
LockedStep(p) ==
    \/ LoadHeld(p) \/ LoseHeld(p) \/ RecheckHeld(p)
    \/ KeepHolding(p) \/ ReleaseHeld(p)
    \/ Commit(p) \/ Transmit(p) \/ RecordAnswer(p)
    \/ LoadSubmitted(p) \/ Observe(p)

WorkerStep(w) == BeginTick(w) \/ Notify(w) \/ SaveNotified(w)

UserStep == UserPush \/ UserCancel

EnvStep ==
    \/ FocusMoves \/ OccupantChanges \/ ForeignTurnStarts
    \/ RequestedTurnStarts \/ TurnEnds
    \/ DeadlinePasses \/ WatchRunsOut \/ Damage

Next ==
    \/ CallerStep
    \/ \E p \in Procs : LockedStep(p)
    \/ \E w \in Workers : WorkerStep(w)
    \/ \E v \in Viewers : BeginStatus(v)
    \/ \E p \in Procs : StoreRoute(p)
    \/ \E p \in Procs : Crash(p)
    \/ UserStep
    \/ EnvStep

Spec == Init /\ [][Next]_vars

\* flock grants the lock to every waiter in the end (strong fairness: the
\* lock comes and goes), a live process goes on (weak fairness), and time
\* passes.  Nothing is assumed of the user, of focus, of the recipient, of
\* the caller's patience, or of request-status commands before they begin.
Fairness ==
    /\ \A w \in Workers : SF_vars(BeginTick(w)) /\ SF_vars(Notify(w))
                          /\ WF_vars(SaveNotified(w))
    /\ \A p \in Procs :
          /\ SF_vars(LoadHeld(p)) /\ SF_vars(LoadSubmitted(p))
          /\ WF_vars(LoseHeld(p)) /\ WF_vars(RecheckHeld(p))
          /\ WF_vars(KeepHolding(p) \/ ReleaseHeld(p))
          /\ WF_vars(Commit(p)) /\ WF_vars(Transmit(p))
          /\ WF_vars(RecordAnswer(p)) /\ WF_vars(Observe(p))
    /\ WF_vars(DeadlinePasses)

FairSpec == Spec /\ Fairness

-----------------------------------------------------------------------------
(* Properties.                                                             *)

PCs == {"idle", "start", "resolve", "direct", "exit", "waiting", "polling", "mark",
        "deliver", "recheck", "decide", "baseline", "submitting", "sent",
        "observe", "observing", "notify", "notified", "returned", "done"}

\* Every variable has its type.
TypeOK ==
    /\ rec \in Records
    /\ lock \in Procs \cup {NoOne}
    /\ pc \in [Procs -> PCs]
    /\ mem \in [Procs -> Records]
    /\ snap \in [Procs -> Snapshots]
    /\ force \in [Procs -> BOOLEAN]
    /\ answer \in [Procs -> {"none", "accepted", "refused", "unknown"}]
    /\ mode \in {"request", "send"}
    /\ occupant \in Occupants
    /\ focused \in BOOLEAN
    /\ turn \in {"idle", "foreign", "requested"}
    /\ overdue \in BOOLEAN
    /\ watchOver \in BOOLEAN
    /\ interloper \in BOOLEAN
    /\ crashes \in Nat
    /\ prompts \in Nat
    /\ request \in {"absent", "queued", "running", "done", "lost"}
    /\ notices \in Nat

\* However many processes deliver, refresh, push and die, the prompt of one
\* request leaves at most once ("submits once").
AtMostOnePrompt == prompts <= 1

\* What the record claims about delivery is true at every moment, crashes
\* included: "submitted: false" was never sent, "submitted: true" was.
SubmittedIsTruthful ==
    /\ rec.submitted = "no" => prompts = 0
    /\ rec.submitted = "yes" => prompts = 1

\* A process inside the record's lock works on the record as it is on disk:
\* no save of its copy can undo what another process saved.
NoLostUpdate == \A p \in Procs : lock = p => mem[p] = rec

\* A message that waits for a decision leaves that state only when a user
\* pushed it, or undelivered.
DecisionRespected ==
    [][rec.state = "awaiting_decision" /\ rec'.state # "awaiting_decision"
       => \/ rec'.state = "submission_failed"
          \/ rec'.state = "submitted_unknown" /\ rec.decision]_vars

\* A terminal result stays as it is, whoever still holds an older copy.
TerminalIsFinal == [][rec.terminal => rec' = rec]_vars

\* Once a request has an addressee, no recheck, refresh or poll gives it
\* another: a replaced occupant never inherits the message.
AddresseeFixed == [][rec.target # NoOne => rec'.target = rec.target]_vars

\* A message is sent to the agent it was addressed to first: its addressee
\* never changes, whoever sends it has seen the addressee in place, and
\* somebody else has the prompt only if the recipient was replaced, or took
\* up another turn, after that look.
AddresseeGetsIt ==
    [][/\ rec.target # NoOne => rec'.target = rec.target
       /\ prompts' # prompts =>
            \E p \in Procs : /\ pc'[p] # pc[p]
                             /\ snap[p].occupant = mem[p].target
                             /\ request' = "lost" => interloper]_vars

\* Evidence is never taken back: an observed requested turn and a passed
\* boundary survive every later save of a submitted request.
EvidenceKept ==
    [][rec.baseline # "none" =>
         /\ rec.turnObserved => rec'.turnObserved
         /\ rec.waitSafe => rec'.waitSafe]_vars

\* If nobody else's turn began at the recipient since the submission looked
\* at it, a settled request is one whose own turn ran and ended; the turn
\* that was already running is never taken for it.
SettledAfterItsTurn ==
    rec.state = "submitted_settled" /\ ~interloper => request = "done"

\* A decision notification is shown only while the message awaits a decision
\* and nobody is submitting it.
NoticeOnlyWhileAwaiting ==
    [][notices' # notices =>
         /\ rec.state = "awaiting_decision"
         /\ \A p \in Procs : pc[p] \notin {"baseline", "submitting", "sent"}]_vars

-----------------------------------------------------------------------------
(* The promise, and what this module does to it.                           *)

promiseStage ==
    CASE rec.state = "none" ->
            IF pc[Caller] \in {"direct", "exit"} THEN "released"
            ELSE IF pc[Caller] = "done" THEN "closed" ELSE "draft"
      [] rec.terminal -> "closed"
      [] rec.state = "resolving" -> "draft"
      [] rec.state = "deferred" -> "held"
      [] rec.state = "awaiting_decision" -> "awaiting"
      [] OTHER -> "released"

Promise == INSTANCE HeldDelivery WITH stage <- promiseStage,
                                      pushed <- rec.decision,
                                      prompts <- prompts

\* The record, its lock and its processes implement the promise.
KeepsPromise == Promise!Spec

-----------------------------------------------------------------------------
(* Liveness, while a worker is there to be scheduled.                      *)

\* A hold never lasts for ever: the message is delivered, closed, or put to
\* the user for a decision.
HoldEnds == rec.state = "deferred" ~> rec.state # "deferred"

\* A push is honoured: the message does not stay in the hold.
PushHonoured == (Held(rec) /\ rec.decision) ~> ~Held(rec)

\* A user who must decide is told, or no longer has to.
DecisionAnnounced ==
    rec.state = "awaiting_decision" ~>
        (rec.notified \/ rec.state # "awaiting_decision")

-----------------------------------------------------------------------------
(* What the guide says and the code does not keep.                         *)

\* docs/skill-guide.md: "After the timeout, held messages never auto-push,
\* even when focus later leaves."
NeverAutoPushedAfterTimeout ==
    [][\A p \in Procs :
         overdue /\ pc[p] = "decide" /\ ~rec.decision => pc'[p] # "baseline"]_vars

\* docs/skill-guide.md: "response.correlated: fresh requested cycle observed".
CorrelatedMeansRequestedTurn ==
    rec.state = "submitted_settled" /\ rec.correlated => request = "done"
=============================================================================
