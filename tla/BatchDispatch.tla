---------------------------- MODULE BatchDispatch ----------------------------
(***************************************************************************)
(* One `batch` command: agent_batch_dispatch.dispatch_batch with the       *)
(* resolver and the sender batch_command gives it.  The main thread        *)
(* resolves the items one after the other, refuses the duplicates and      *)
(* starts the worker threads; these take items from one queue and hand     *)
(* each to the single-request sender; the main thread joins them and fills *)
(* in what nobody answered.  Meanwhile the caller may set the cancel       *)
(* event, and agents may change what identifies them.                      *)
(***************************************************************************)
EXTENDS Naturals, FiniteSets

CONSTANTS
    N,            \* number of items in the batch
    Agents,       \* agents that can be addressed
    Sessions,     \* the agents whose provider reports a session id
    Routes,       \* route tokens
    Labels,       \* HOST/LABEL addresses
    Reach,        \* the agent each route or label stands for
    Workers,      \* worker threads (max_workers of them)
    MaxMoves,     \* bound on the changes of one agent's identity
    Nobody        \* no address, no identity, no answer, no item

ASSUME BatchAssumption ==
    /\ N \in Nat \ {0}
    /\ MaxMoves \in Nat
    /\ Sessions \subseteq Agents
    /\ Reach \in [Routes \cup Labels -> Agents]
    /\ Routes \cap Labels = {}
    /\ IsFiniteSet(Workers) /\ Workers # {}

ASSUME NobodyIsNoIdentity ==
    /\ Nobody \notin Routes \cup Labels
    /\ \A a \in Agents, m \in 0 .. MaxMoves : <<a, m>> # Nobody
    /\ Nobody \notin 1 .. N
    /\ Nobody \notin {"delivered", "failed", "cancelled"}

Items == 1 .. N

VARIABLES
    input,        \* what each item asks for
    resolving,    \* whether dispatch_batch was given a resolver
    cancel,       \* cancel_event
    move,         \* how often an agent's identity has changed
    phase,        \* the main thread: "prepare", "run", "done"
    at,           \* the item the main thread is at
    identity,     \* the identity each prepared item was counted under
    queue,        \* pending: the items no worker has taken, lowest first
    result,       \* result_slots
    pc,           \* where each worker is
    item,         \* the item each worker has taken
    begun,        \* the items that were handed to the sender
    answer        \* what the sender answered for each item

vars == <<input, resolving, cancel, move, phase, at, identity, queue, result,
          pc, item, begun, answer>>

\* RESULT_STATUSES: "delivered" stands for the three delivered ones, and a
\* timeout is a failure here.
Statuses == {"delivered", "failed", "cancelled"}
Shapes == [to : Routes \cup Labels \cup {Nobody}, ok : BOOLEAN]

-----------------------------------------------------------------------------
(* The world around the batch.                                             *)

\* The caller sets the cancel event.
Cancel ==
    /\ ~cancel /\ phase # "done"
    /\ cancel' = TRUE
    /\ UNCHANGED <<input, resolving, move, phase, at, identity, queue, result,
                   pc, item, begun, answer>>

\* AgentRecord.identity is the session id where there is one.  Without one it
\* contains the label and the revision, so a rename or a restart changes it.
Move(a) ==
    /\ a \notin Sessions
    /\ phase = "prepare" /\ move[a] < MaxMoves
    /\ move' = [move EXCEPT ![a] = @ + 1]
    /\ UNCHANGED <<input, resolving, cancel, phase, at, identity, queue,
                   result, pc, item, begun, answer>>

-----------------------------------------------------------------------------
(* _prepare_requests.                                                      *)

\* Mutant: an agent is told by its pane alone.
PaneOnly(a) == a

\* AgentRecord.identity, as the resolver sees it now.
CurrentIdentity(a) == <<a, move[a]>>

\* duplicate_routes: counted over all items, malformed ones too, and used
\* only where there is no resolver to tell targets apart.
DuplicateRoute(i) ==
    \E j \in Items \ {i} : input[i].to \in Routes /\ input[j].to = input[i].to

Refused(i) ==
    \/ input[i].to = Nobody
    \/ ~input[i].ok
    \/ ~resolving /\ DuplicateRoute(i)

PrepareAt(i) ==
    /\ phase = "prepare" /\ at = i
    /\ at' = i + 1
    /\ UNCHANGED <<input, resolving, cancel, move, phase, queue, pc, item,
                   begun, answer>>

\* The item is malformed, or (without a resolver) repeats a route.
Refuse(i) ==
    /\ PrepareAt(i)
    /\ Refused(i)
    /\ result' = [result EXCEPT ![i] = "failed"]
    /\ UNCHANGED identity

\* The item is kept under its resolved identity.  Without a resolver, and once
\* the batch is cancelled, it is kept under the address it came with.
Keep(i) ==
    /\ PrepareAt(i)
    /\ ~Refused(i)
    /\ resolving \/ cancel \/ input[i].to \in Routes
    /\ identity' = [identity EXCEPT ![i] =
          IF resolving /\ ~cancel THEN CurrentIdentity(Reach[input[i].to])
                                  ELSE input[i].to]
    /\ UNCHANGED result

\* resolve_request raised, or there is none for an address.
ResolutionFails(i) ==
    /\ PrepareAt(i)
    /\ ~Refused(i) /\ ~cancel
    /\ resolving \/ input[i].to \in Labels
    /\ result' = [result EXCEPT ![i] = "failed"]
    /\ UNCHANGED identity

Prepared == {i \in Items : identity[i] # Nobody}

\* Mutant: targets are told apart by the address they were given.
RepeatedByAddress(i) ==
    \E j \in Prepared \ {i} : input[j].to = input[i].to

\* identities[identity] > 1
Repeated(i) == \E j \in Prepared \ {i} : identity[j] = identity[i]

\* Everything is counted: the repeated targets all fail, the others are queued
\* in input order (once: nothing is put back), and no more workers start than there are items for.
Start ==
    /\ phase = "prepare" /\ at = N + 1
    /\ LET ready == {i \in Prepared : ~Repeated(i)}
       IN  /\ result' = [i \in Items |->
                IF i \in Prepared \ ready THEN "failed" ELSE result[i]]
           /\ queue' = ready
           /\ \E started \in SUBSET Workers :
                 /\ IF Cardinality(ready) < Cardinality(Workers)
                    THEN Cardinality(started) = Cardinality(ready)
                    ELSE started = Workers
                 /\ pc' = [w \in Workers |->
                       IF w \in started THEN "look" ELSE "gone"]
    /\ phase' = "run"
    /\ UNCHANGED <<input, resolving, cancel, move, at, identity, item, begun,
                   answer>>

-----------------------------------------------------------------------------
(* worker.                                                                 *)

MainKept == UNCHANGED <<input, resolving, cancel, move, phase, at, identity>>

\* The loop condition.
Look(w) ==
    /\ pc[w] = "look"
    /\ pc' = [pc EXCEPT ![w] = IF cancel THEN "gone" ELSE "take"]
    /\ UNCHANGED <<queue, result, item, begun, answer>>
    /\ MainKept

Earliest(i) == i \in queue /\ \A j \in queue : i <= j

\* The worker takes the first of the queue.
TakeItem(w) ==
    /\ pc[w] = "take"
    /\ \E i \in queue :
          /\ Earliest(i)
          /\ item' = [item EXCEPT ![w] = i]
          /\ queue' = queue \ {i}
    /\ pc' = [pc EXCEPT ![w] = "check"]
    /\ UNCHANGED <<result, begun, answer>>
    /\ MainKept

\* get_nowait raises Empty.
NothingLeft(w) ==
    /\ pc[w] = "take" /\ queue = {}
    /\ pc' = [pc EXCEPT ![w] = "gone"]
    /\ UNCHANGED <<queue, result, item, begun, answer>>
    /\ MainKept

\* The second look at the event; the item it took is answered by nobody.
Check(w) ==
    /\ pc[w] = "check"
    /\ pc' = [pc EXCEPT ![w] = IF cancel THEN "gone" ELSE "send"]
    /\ UNCHANGED <<queue, result, item, begun, answer>>
    /\ MainKept

\* send_one is called.
Send(w) ==
    /\ pc[w] = "send"
    /\ pc' = [pc EXCEPT ![w] = "wait"]
    /\ begun' = begun \cup {item[w]}
    /\ UNCHANGED <<queue, result, item, answer>>
    /\ MainKept

Answered(w, status, next) ==
    /\ pc[w] = "wait"
    /\ pc' = [pc EXCEPT ![w] = next]
    /\ answer' = [answer EXCEPT ![item[w]] = status]
    /\ UNCHANGED <<queue, item, begun>>
    /\ MainKept

\* Mutant: the answer is filed under the number of the answers so far.
AnswerInTurn(w) ==
    \E status \in Statuses :
       LET turn == Cardinality({i \in Items : result[i] # Nobody}) + 1
       IN  /\ Answered(w, status, "look")
           /\ result' = [result EXCEPT ![turn] = status]

\* Mutant: an exception ends the worker.
AnswerOrDie(w) ==
    \E status \in Statuses :
       /\ Answered(w, status, IF status = "failed" THEN "gone" ELSE "look")
       /\ result' = [result EXCEPT ![item[w]] = status]

\* send_one returned or raised: an invalid outcome and any other exception are
\* failures, and so (here) is TimeoutError; CancelledError is what it says.
Answer(w) ==
    \E status \in Statuses :
       /\ Answered(w, status, "look")
       /\ result' = [result EXCEPT ![item[w]] = status]

-----------------------------------------------------------------------------
\* All threads are joined; what nobody answered was cancelled.
Report ==
    /\ phase = "run"
    /\ \A w \in Workers : pc[w] = "gone"
    /\ phase' = "done"
    /\ result' = [i \in Items |->
          IF result[i] = Nobody THEN "cancelled" ELSE result[i]]
    /\ UNCHANGED <<input, resolving, cancel, move, at, identity, queue, pc,
                   item, begun, answer>>

Init ==
    /\ input \in [Items -> {s \in Shapes : s.to = Nobody => ~s.ok}]
    /\ resolving \in BOOLEAN
    /\ cancel = FALSE
    /\ move = [a \in Agents |-> 0]
    /\ phase = "prepare" /\ at = 1
    /\ identity = [i \in Items |-> Nobody]
    /\ queue = {}
    /\ result = [i \in Items |-> Nobody]
    /\ pc = [w \in Workers |-> "off"]
    /\ item = [w \in Workers |-> Nobody]
    /\ begun = {}
    /\ answer = [i \in Items |-> Nobody]

Step(w) == Look(w) \/ TakeItem(w) \/ NothingLeft(w) \/ Check(w) \/ Send(w) \/ Answer(w)

Main ==
    \/ \E i \in Items : Refuse(i) \/ Keep(i) \/ ResolutionFails(i)
    \/ Start
    \/ Report

Next ==
    \/ Cancel
    \/ \E a \in Agents : Move(a)
    \/ Main
    \/ \E w \in Workers : Step(w)

Spec == Init /\ [][Next]_vars

\* The main thread and every worker run on; send_one ends because every
\* command under it has a timeout.
FairSpec == Spec /\ WF_vars(Main) /\ \A w \in Workers : WF_vars(Step(w))

-----------------------------------------------------------------------------
(* Properties.                                                             *)

Identities ==
    (Agents \X (0 .. MaxMoves)) \cup Routes \cup Labels

\* Every variable has its type.
TypeOK ==
    /\ input \in [Items -> Shapes] /\ resolving \in BOOLEAN
    /\ cancel \in BOOLEAN
    /\ move \in [Agents -> 0 .. MaxMoves]
    /\ phase \in {"prepare", "run", "done"} /\ at \in 1 .. N + 1
    /\ identity \in [Items -> Identities \cup {Nobody}]
    /\ queue \subseteq Items
    /\ result \in [Items -> Statuses \cup {Nobody}]
    /\ answer \in [Items -> Statuses \cup {Nobody}]
    /\ pc \in [Workers ->
          {"off", "look", "take", "check", "send", "wait", "gone"}]
    /\ item \in [Workers -> Items \cup {Nobody}]
    /\ begun \subseteq Items

\* The agents the two items were meant for are one.
SameAgent(i, j) == Reach[input[i].to] = Reach[input[j].to]

\* An agent with a session id gets at most one prompt of a batch, by whatever
\* routes and addresses the items name it and even if the batch is cancelled
\* while half of the items are resolved.
OnePromptPerSession ==
    resolving =>
       \A i \in begun : \A j \in begun \ {i} :
          SameAgent(i, j) => Reach[input[i].to] \notin Sessions

\* The report tells of every item that reached the sender what the sender said,
\* and of no other item that it was delivered or may have been; only a batch
\* that was cancelled has items nobody took.
ReportIsTrue ==
    phase = "done" =>
       \A i \in Items :
          IF i \in begun THEN result[i] = answer[i] /\ answer[i] # Nobody
          ELSE result[i] = "failed" \/ (result[i] = "cancelled" /\ cancel)

\* A batch ends with its report, and unless it is cancelled every item that is
\* ready and no duplicate has reached the sender by then, whatever the answers
\* to the items before it.
ItemsServed ==
    <>(phase = "done" /\ (cancel \/ begun = {i \in Prepared : ~Repeated(i)}))

=============================================================================
