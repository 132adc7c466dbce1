--------------------------- MODULE DeliveryWorker ---------------------------
(***************************************************************************)
(* Who looks after the queue of held and watched requests: the singleton   *)
(* worker lock (delivery-worker.lock), the commands that probe it and      *)
(* spawn a worker (ensure_worker), the worker's loop with its idle exit    *)
(* (run_worker) and the plugin's startup reconcile.  What happens inside   *)
(* one request's record is RequestLifecycle's subject; here a request is   *)
(* pending (held, or submitted and still watched) or it is not.            *)
(***************************************************************************)
EXTENDS Naturals, FiniteSets

CONSTANTS
    Clients,      \* send/request commands, popup decisions, startup reconciles
    Workers,      \* process slots a worker can be spawned into
    Requests,     \* request ids
    NoOne,        \* nobody owns the lock
    MaxNudges,    \* bound on popup decisions and reconciles
    MaxFaults     \* bound on deaths and failed spawns

ASSUME ActorsDistinct ==
    /\ Clients \cap Workers = {}
    /\ NoOne \notin Clients \cup Workers

ASSUME BoundsKnown == MaxNudges \in Nat /\ MaxFaults \in Nat

VARIABLES
    queue,        \* the ids whose record is pending
    fresh,        \* the ids nobody has used yet
    owner,        \* who holds delivery-worker.lock
    pc,           \* where each process is
    rounds,       \* ensure_worker calls a client still makes
    mine,         \* the request a client cares for
    nudges,       \* popup decisions and reconciles so far
    faults        \* deaths and failed spawns so far

vars == <<queue, fresh, owner, pc, rounds, mine, nudges, faults>>

Procs == Clients \cup Workers

-----------------------------------------------------------------------------
(* Clients.                                                                *)

\* A request or send is held: the record is saved first, then ensure_worker
\* runs as on_deferred, and once more when the command is about to report.
Hold(c) ==
    /\ pc[c] = "idle"
    /\ \E r \in fresh :
          /\ fresh' = fresh \ {r}
          /\ queue' = queue \cup {r}
          /\ mine' = [mine EXCEPT ![c] = {r}]
    /\ pc' = [pc EXCEPT ![c] = "probe"]
    /\ rounds' = [rounds EXCEPT ![c] = 2]
    /\ UNCHANGED <<owner, nudges, faults>>

\* decide("push") on a request that is still held, and the reconcile that the
\* plugin runs at startup when anything is pending: one ensure_worker.
Nudge(c) ==
    /\ pc[c] = "idle"
    /\ queue # {}
    /\ nudges < MaxNudges
    /\ nudges' = nudges + 1
    /\ pc' = [pc EXCEPT ![c] = "probe"]
    /\ rounds' = [rounds EXCEPT ![c] = 1]
    /\ UNCHANGED <<queue, fresh, owner, mine, faults>>

\* After one ensure_worker: once more if the request is still held.
Again(c) == rounds[c] = 2 /\ mine[c] \cap queue # {}

AfterRound(c) == IF Again(c) THEN "probe" ELSE "idle"

\* Mutant: the rounds are counted up.
RoundDoneMiscounted(c) ==
    /\ rounds' = [rounds EXCEPT ![c] = IF Again(c) THEN @ + 1 ELSE 0]
    /\ mine' = [mine EXCEPT ![c] = IF Again(c) THEN @ ELSE {}]

RoundDone(c) ==
    /\ rounds' = [rounds EXCEPT ![c] = IF Again(c) THEN 1 ELSE 0]
    /\ mine' = [mine EXCEPT ![c] = IF Again(c) THEN @ ELSE {}]

\* ensure_worker: the lock is busy, so somebody else is at it.
ProbeBusy(c) ==
    /\ pc[c] = "probe"
    /\ owner # NoOne
    /\ pc' = [pc EXCEPT ![c] = AfterRound(c)]
    /\ RoundDone(c)
    /\ UNCHANGED <<queue, fresh, owner, nudges, faults>>

\* ensure_worker: the lock was free; the probe holds it for a moment ...
ProbeFree(c) ==
    /\ pc[c] = "probe"
    /\ owner = NoOne
    /\ owner' = c
    /\ pc' = [pc EXCEPT ![c] = "probed"]
    /\ UNCHANGED <<queue, fresh, rounds, mine, nudges, faults>>

\* ... and drops it before the worker is spawned.
ProbeEnds(c) ==
    /\ pc[c] = "probed"
    /\ owner' = NoOne
    /\ pc' = [pc EXCEPT ![c] = "spawn"]
    /\ UNCHANGED <<queue, fresh, rounds, mine, nudges, faults>>

SpawnWorker(c) ==
    /\ pc[c] = "spawn"
    /\ \E w \in Workers :
          /\ pc[w] = "none"
          /\ pc' = [pc EXCEPT ![w] = "starting", ![c] = AfterRound(c)]
    /\ RoundDone(c)
    /\ UNCHANGED <<queue, fresh, owner, nudges, faults>>

\* Popen raises: the command reports an error, and its record stays held.
SpawnFails(c) ==
    /\ pc[c] = "spawn"
    /\ faults < MaxFaults
    /\ faults' = faults + 1
    /\ pc' = [pc EXCEPT ![c] = "idle"]
    /\ rounds' = [rounds EXCEPT ![c] = 0]
    /\ mine' = [mine EXCEPT ![c] = {}]
    /\ UNCHANGED <<queue, fresh, owner, nudges>>

-----------------------------------------------------------------------------
(* The worker: run_worker around worker_tick.                              *)

\* Mutant: a busy lock does not stop a worker from working the queue.
TakeLockAnyway(w) ==
    /\ pc[w] = "starting"
    /\ owner' = w
    /\ pc' = [pc EXCEPT ![w] = "ticking"]
    /\ UNCHANGED <<queue, fresh, rounds, mine, nudges, faults>>

TakeLock(w) ==
    /\ pc[w] = "starting"
    /\ IF owner = NoOne
       THEN owner' = w /\ pc' = [pc EXCEPT ![w] = "ticking"]
       ELSE owner' = owner /\ pc' = [pc EXCEPT ![w] = "none"]
    /\ UNCHANGED <<queue, fresh, rounds, mine, nudges, faults>>

\* One pass over the queue: some requests leave it, others stay.
Tick(w) ==
    /\ pc[w] = "ticking"
    /\ queue' \in SUBSET queue
    /\ pc' = [pc EXCEPT ![w] = "checking"]
    /\ UNCHANGED <<fresh, owner, rounds, mine, nudges, faults>>

\* The end of worker_tick reads the queue again: sleep and go on, or stop.
CheckQueue(w) ==
    /\ pc[w] = "checking"
    /\ pc' = [pc EXCEPT ![w] = IF queue = {} THEN "releasing" ELSE "ticking"]
    /\ UNCHANGED <<queue, fresh, owner, rounds, mine, nudges, faults>>

DropLock(w) ==
    /\ pc[w] = "releasing"
    /\ owner' = NoOne
    /\ pc' = [pc EXCEPT ![w] = "rechecking"]
    /\ UNCHANGED <<queue, fresh, rounds, mine, nudges, faults>>

\* Mutant: the worker exits as soon as it has released the lock.
RecheckNever(w) ==
    /\ pc[w] = "rechecking"
    /\ pc' = [pc EXCEPT ![w] = "none"]
    /\ UNCHANGED <<queue, fresh, owner, rounds, mine, nudges, faults>>

\* A sender may have found the lock busy just before the idle check, so the
\* queue is read once more after the release.
Recheck(w) ==
    /\ pc[w] = "rechecking"
    /\ pc' = [pc EXCEPT ![w] = IF queue = {} THEN "none" ELSE "starting"]
    /\ UNCHANGED <<queue, fresh, owner, rounds, mine, nudges, faults>>

-----------------------------------------------------------------------------
\* Somebody else closes a request: the popup, request-status, a waiting
\* command, or the end of its watch.
ClosedElsewhere ==
    /\ \E r \in queue : queue' = queue \ {r}
    /\ UNCHANGED <<fresh, owner, pc, rounds, mine, nudges, faults>>

\* A process is killed; the kernel releases the lock it holds.
Die(p) ==
    /\ pc[p] \notin {"idle", "none"}
    /\ faults < MaxFaults
    /\ faults' = faults + 1
    /\ owner' = IF owner = p THEN NoOne ELSE owner
    /\ pc' = [pc EXCEPT ![p] = IF p \in Clients THEN "idle" ELSE "none"]
    /\ rounds' = [rounds EXCEPT ![p] = 0]
    /\ mine' = [mine EXCEPT ![p] = {}]
    /\ UNCHANGED <<queue, fresh, nudges>>

Init ==
    /\ queue = {}
    /\ fresh = Requests
    /\ owner = NoOne
    /\ pc = [p \in Procs |-> IF p \in Clients THEN "idle" ELSE "none"]
    /\ rounds = [p \in Procs |-> 0]
    /\ mine = [p \in Procs |-> {}]
    /\ nudges = 0
    /\ faults = 0

ClientStep(c) ==
    \/ Hold(c) \/ Nudge(c)
    \/ ProbeBusy(c) \/ ProbeFree(c) \/ ProbeEnds(c)
    \/ SpawnWorker(c) \/ SpawnFails(c)

WorkerStep(w) ==
    \/ TakeLock(w) \/ Tick(w) \/ CheckQueue(w) \/ DropLock(w) \/ Recheck(w)

Next ==
    \/ \E c \in Clients : ClientStep(c)
    \/ \E w \in Workers : WorkerStep(w)
    \/ ClosedElsewhere
    \/ \E p \in Procs : Die(p)

Spec == Init /\ [][Next]_vars

\* A process that is alive and can go on does so.
ProcessFairness ==
    /\ \A c \in Clients :
          /\ WF_vars(ProbeBusy(c) \/ ProbeFree(c))
          /\ WF_vars(ProbeEnds(c))
          /\ WF_vars(SpawnWorker(c))
    /\ \A w \in Workers : WF_vars(WorkerStep(w))

FairSpec == Spec /\ ProcessFairness

-----------------------------------------------------------------------------
ClientPCs == {"idle", "probe", "probed", "spawn"}

WorkerPCs == {"none", "starting", "ticking", "checking", "releasing",
              "rechecking"}

LockPCs == {"ticking", "checking", "releasing", "probed"}

TypeOK ==
    /\ queue \subseteq Requests
    /\ fresh \subseteq Requests
    /\ owner \in Procs \cup {NoOne}
    /\ pc \in [Procs -> ClientPCs \cup WorkerPCs]
    /\ \A c \in Clients : pc[c] \in ClientPCs
    /\ \A w \in Workers : pc[w] \in WorkerPCs
    /\ rounds \in [Procs -> 0..2]
    /\ mine \in [Procs -> SUBSET Requests]
    /\ nudges \in Nat
    /\ faults \in Nat

\* Two workers never work the queue at the same time: only the holder of the
\* worker lock ticks, and a dead or finished holder leaves it free.
OneTicker == \A p \in Procs : pc[p] \in LockPCs <=> owner = p

\* The processes that will still look at the queue, or spawn one that will.
Responsible(p) == pc[p] \notin {"idle", "none"}

Stranded == queue # {} /\ \A p \in Procs : ~Responsible(p)

\* Only a death or a failed spawn leaves a pending request with nobody to
\* look after it: not a probe that finds the lock busy, not a spawned worker
\* that meets a probe, not a worker that goes idle.
OnlyFaultsStrand == [][~Stranded /\ Stranded' => faults' = faults + 1]_vars

\* Whenever somebody is there to look after the queue, every pending request
\* meets a working worker or leaves the queue, unless another fault comes in
\* between.  A request that a fault stranded is covered from the next nudge.
Served ==
    \A r \in Requests, f \in 0..MaxFaults :
        r \in queue /\ faults = f /\ (\E p \in Procs : Responsible(p))
        ~> (r \notin queue \/ faults # f \/ \E w \in Workers : pc[w] = "ticking")
=============================================================================
