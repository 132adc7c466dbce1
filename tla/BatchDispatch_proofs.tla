------------------------- MODULE BatchDispatch_proofs -------------------------
(***************************************************************************)
(* Proofs about BatchDispatch: the type invariant, that an agent with a    *)
(* session id is prompted at most once per batch, and that the report says *)
(* of every item what became of it.  The inductive invariant says who      *)
(* accounts for an item at each moment (the queue, the one worker that     *)
(* took it, or its result slot) and that a batch in which some target was  *)
(* left unresolved never gets as far as taking an item.                    *)
(***************************************************************************)
EXTENDS BatchDispatch, FiniteSetTheorems, TLAPS

Busy == {"check", "send", "wait"}

\* A session's identity never moves.
Steady == \A s \in Sessions : move[s] = 0

\* Items are prepared in order; each is either kept or failed.
Ordered ==
    /\ phase = "prepare" => \A i \in Items :
          IF i < at THEN \/ identity[i] # Nobody /\ result[i] = Nobody
                         \/ identity[i] = Nobody /\ result[i] = "failed"
          ELSE identity[i] = Nobody /\ result[i] = Nobody
    /\ phase # "prepare" => at = N + 1
    /\ \A i \in Items : identity[i] # Nobody => input[i].to \in Routes \cup Labels

\* Some prepared item names a session and is not counted under it.
HalfResolved ==
    /\ resolving
    /\ \E i \in Prepared :
          /\ Reach[input[i].to] \in Sessions
          /\ identity[i] # <<Reach[input[i].to], 0>>

\* That takes a cancel, and then nobody sends.
Halted ==
    HalfResolved => /\ cancel
                    /\ begun = {}
                    /\ \A w \in Workers : pc[w] \in {"off", "look", "gone"}

\* Before the start there are no workers, after the report there are none left.
Phases ==
    /\ phase = "prepare" => /\ queue = {} /\ begun = {}
                            /\ \A w \in Workers : pc[w] = "off"
    /\ phase # "prepare" => \A w \in Workers : pc[w] # "off"
    /\ phase = "done" => \A w \in Workers : pc[w] = "gone"

\* What a worker may touch is a prepared item whose target nobody repeats.
Unique ==
    /\ \A i \in queue \cup begun : i \in Prepared /\ ~Repeated(i)
    /\ \A w \in Workers : pc[w] \in Busy =>
          item[w] \in Prepared /\ ~Repeated(item[w])

\* An item is with the queue, with one worker, or past.
Apart ==
    /\ queue \cap begun = {}
    /\ \A w \in Workers : pc[w] \in Busy =>
          /\ item[w] \in Items \ queue
          /\ item[w] \in begun <=> pc[w] = "wait"
          /\ \A v \in Workers \ {w} : pc[v] \in Busy => item[v] # item[w]

\* Somebody accounts for every item.
Accounted ==
    /\ phase = "run" => \A i \in Items :
          \/ /\ i \in begun
             /\ \/ \E w \in Workers : pc[w] = "wait" /\ item[w] = i
                \/ result[i] = answer[i] /\ answer[i] # Nobody
          \/ /\ i \notin begun
             /\ \/ result[i] = "failed"
                \/ /\ result[i] = Nobody
                   /\ \/ cancel
                      \/ i \in queue
                      \/ \E w \in Workers : pc[w] \in Busy /\ item[w] = i
    /\ phase = "run" /\ queue # {} =>
          cancel \/ \E w \in Workers : pc[w] # "gone"

IInv ==
    /\ TypeOK
    /\ Steady
    /\ Ordered
    /\ Halted
    /\ Phases
    /\ Unique
    /\ Apart
    /\ Accounted
    /\ ReportIsTrue

-----------------------------------------------------------------------------
LEMMA InitIInv == Init => IInv
<1>. SUFFICES ASSUME Init PROVE IInv OBVIOUS
<1>. USE BatchAssumption, NobodyIsNoIdentity DEF Init
<1>1. TypeOK
  <2>1. input \in [Items -> Shapes] /\ resolving \in BOOLEAN /\ cancel \in BOOLEAN
    OBVIOUS
  <2>2. move \in [Agents -> 0 .. MaxMoves]
    OBVIOUS
  <2>3. at \in 1 .. N + 1
    OBVIOUS
  <2>4. QED BY <2>1, <2>2, <2>3 DEF TypeOK
<1>2. Steady /\ Ordered
  BY DEF Steady, Ordered, Items
<1>3. Halted
  BY DEF Halted, HalfResolved, Prepared
<1>4. Phases /\ Unique /\ Apart
  BY DEF Phases, Unique, Apart, Busy
<1>5. Accounted /\ ReportIsTrue
  BY DEF Accounted, ReportIsTrue
<1>. QED BY <1>1, <1>2, <1>3, <1>4, <1>5 DEF IInv

-----------------------------------------------------------------------------
(* The steps.                                                              *)

LEMMA StutterKeeps == IInv /\ UNCHANGED vars => IInv'
BY DEF IInv, vars, TypeOK, Steady, Ordered, Halted, HalfResolved, Prepared,
       Repeated, Phases, Unique, Apart, Accounted, ReportIsTrue

LEMMA CancelKeeps == IInv /\ Cancel => IInv'
<1>. SUFFICES ASSUME IInv, Cancel PROVE IInv' OBVIOUS
<1>. USE DEF IInv, Cancel
<1>1. TypeOK' /\ Steady' /\ Ordered' BY DEF TypeOK, Steady, Ordered
<1>2. Halted' BY DEF Halted, HalfResolved, Prepared
<1>3. Phases' /\ Apart' BY DEF Phases, Apart
<1>4. Unique' BY DEF Unique, Prepared, Repeated
<1>5. Accounted' /\ ReportIsTrue' BY DEF Accounted, ReportIsTrue
<1>. QED BY <1>1, <1>2, <1>3, <1>4, <1>5

LEMMA MoveKeeps == ASSUME NEW s \in Agents, IInv, Move(s) PROVE IInv'
<1>. USE DEF IInv, Move
<1>1. TypeOK' BY BatchAssumption DEF TypeOK
<1>2. Steady' BY BatchAssumption DEF Steady, TypeOK
<1>3. Ordered' BY DEF Ordered
<1>4. Halted' BY DEF Halted, HalfResolved, Prepared
<1>5. Phases' /\ Apart' BY DEF Phases, Apart
<1>6. Unique' BY DEF Unique, Prepared, Repeated
<1>7. Accounted' /\ ReportIsTrue' BY DEF Accounted, ReportIsTrue
<1>. QED BY <1>1, <1>2, <1>3, <1>4, <1>5, <1>6, <1>7

LEMMA RefuseKeeps == ASSUME NEW i \in Items, IInv, Refuse(i) PROVE IInv'
<1>. USE BatchAssumption DEF IInv, Refuse, PrepareAt
<1>1. TypeOK' BY DEF TypeOK, Items, Statuses
<1>2. Steady' BY DEF Steady
<1>3. Ordered' BY DEF Ordered, Items, TypeOK
<1>4. Halted' BY DEF Halted, HalfResolved, Prepared
<1>5. Phases' /\ Apart' /\ Unique' BY DEF Phases, Apart, Unique, Busy
<1>6. Accounted' /\ ReportIsTrue' BY DEF Accounted, ReportIsTrue
<1>. QED BY <1>1, <1>2, <1>3, <1>4, <1>5, <1>6

LEMMA FailureKeeps == ASSUME NEW i \in Items, IInv, ResolutionFails(i) PROVE IInv'
<1>. USE BatchAssumption DEF IInv, ResolutionFails, PrepareAt
<1>1. TypeOK' BY DEF TypeOK, Items, Statuses
<1>2. Steady' BY DEF Steady
<1>3. Ordered' BY DEF Ordered, Items, TypeOK
<1>4. Halted' BY DEF Halted, HalfResolved, Prepared
<1>5. Phases' /\ Apart' /\ Unique' BY DEF Phases, Apart, Unique, Busy
<1>6. Accounted' /\ ReportIsTrue' BY DEF Accounted, ReportIsTrue
<1>. QED BY <1>1, <1>2, <1>3, <1>4, <1>5, <1>6

\* A kept item asks for an agent that exists.
LEMMA KeptIsAddressed ==
  ASSUME NEW i \in Items, IInv, ~Refused(i)
  PROVE  input[i].to \in Routes \cup Labels /\ Reach[input[i].to] \in Agents
BY BatchAssumption DEF IInv, TypeOK, Refused, Shapes

LEMMA KeepKeeps == ASSUME NEW i \in Items, IInv, Keep(i) PROVE IInv'
<1>. USE BatchAssumption DEF IInv, Keep, PrepareAt
<1>a. input[i].to \in Routes \cup Labels /\ Reach[input[i].to] \in Agents
  BY KeptIsAddressed
<1>. DEFINE id == IF resolving /\ ~cancel THEN CurrentIdentity(Reach[input[i].to])
                                          ELSE input[i].to
<1>b. id \in Identities /\ id # Nobody
  BY <1>a, NobodyIsNoIdentity DEF CurrentIdentity, Identities, TypeOK
<1>c. identity' = [identity EXCEPT ![i] = id] /\ UNCHANGED result
  OBVIOUS
<1>. HIDE DEF id
<1>1. TypeOK' BY <1>b, <1>c DEF TypeOK, Items
<1>2. Steady' BY DEF Steady
<1>3. Ordered' BY <1>a, <1>b, <1>c DEF Ordered, Items, TypeOK
<1>4. Halted'
  <2>1. phase = "prepare" /\ begun' = {} /\ \A w \in Workers : pc'[w] = "off"
    BY DEF Phases
  <2>2. HalfResolved' => cancel'
    <3>. SUFFICES ASSUME HalfResolved', ~cancel PROVE FALSE OBVIOUS
    <3>1. PICK j \in Prepared' : Reach[input[j].to] \in Sessions
                                /\ identity'[j] # <<Reach[input[j].to], 0>>
      BY DEF HalfResolved
    <3>2. j # i
      <4>. SUFFICES ASSUME j = i PROVE FALSE OBVIOUS
      <4>1. identity'[i] = CurrentIdentity(Reach[input[i].to])
        BY <1>c, <3>1 DEF id, HalfResolved, TypeOK
      <4>2. QED BY <3>1, <4>1 DEF CurrentIdentity, Steady
    <3>3. j \in Prepared /\ identity'[j] = identity[j]
      BY <1>c, <3>1, <3>2 DEF Prepared, TypeOK
    <3>4. QED BY <3>1, <3>3 DEF Halted, HalfResolved
  <2>3. QED BY <2>1, <2>2 DEF Halted
<1>5. Phases' /\ Apart' /\ Unique' BY DEF Phases, Apart, Unique, Busy
<1>6. Accounted' /\ ReportIsTrue' BY DEF Accounted, ReportIsTrue
<1>. QED BY <1>1, <1>2, <1>3, <1>4, <1>5, <1>6

LEMMA ReportKeeps == IInv /\ Report => IInv'
<1>. SUFFICES ASSUME IInv, Report PROVE IInv' OBVIOUS
<1>. USE BatchAssumption DEF IInv, Report
<1>1. TypeOK' BY DEF TypeOK, Statuses
<1>2. Steady' /\ Ordered' BY DEF Steady, Ordered
<1>3. Halted' BY DEF Halted, HalfResolved, Prepared
<1>4. Phases' /\ Apart' BY DEF Phases, Apart
<1>5. Unique' BY DEF Unique, Prepared, Repeated
<1>6. Accounted' BY DEF Accounted
<1>7. ReportIsTrue'
  <2>1. \A i \in Items : i \in begun => result[i] = answer[i] /\ answer[i] # Nobody
    BY DEF Accounted
  <2>2. queue # {} => cancel
    BY DEF Accounted
  <2>3. \A i \in Items : i \notin begun =>
           result[i] = "failed" \/ (result[i] = Nobody /\ cancel)
    BY <2>2 DEF Accounted, Busy
  <2>4. "failed" # Nobody
    BY NobodyIsNoIdentity
  <2>5. QED BY <2>1, <2>3, <2>4 DEF ReportIsTrue
<1>. QED BY <1>1, <1>2, <1>3, <1>4, <1>5, <1>6, <1>7

LEMMA StartKeeps == IInv /\ Start => IInv'
<1>. SUFFICES ASSUME IInv, Start PROVE IInv' OBVIOUS
<1>. USE BatchAssumption DEF IInv
<1>. DEFINE ready == {i \in Prepared : ~Repeated(i)}
<1>1. /\ phase = "prepare" /\ at = N + 1 /\ phase' = "run" /\ queue' = ready
      /\ result' = [i \in Items |-> IF i \in Prepared \ ready THEN "failed" ELSE result[i]]
      /\ UNCHANGED <<input, resolving, cancel, move, at, identity, item, begun,
                     answer>>
  BY DEF Start
<1>2. PICK started \in SUBSET Workers :
         /\ IF Cardinality(ready) < Cardinality(Workers)
            THEN Cardinality(started) = Cardinality(ready)
            ELSE started = Workers
         /\ pc' = [w \in Workers |-> IF w \in started THEN "look" ELSE "gone"]
  BY DEF Start
<1>3. \A w \in Workers : pc'[w] \in {"look", "gone"}
  BY <1>2
<1>4. ready \subseteq Items /\ IsFiniteSet(ready)
  <2>1. IsFiniteSet(Items) BY FS_Interval DEF Items
  <2>2. ready \subseteq Items BY DEF Prepared
  <2>3. QED BY <2>1, <2>2, FS_Subset
<1>5. ready # {} => \E w \in Workers : pc'[w] = "look"
  <2>. SUFFICES ASSUME ready # {}, started = {} PROVE FALSE
    BY <1>2
  <2>1. Cardinality(started) = 0 BY FS_EmptySet
  <2>2. Cardinality(ready) = 0
    BY <1>2, <2>1
  <2>3. QED BY <1>4, <2>2, FS_EmptySet
<1>. HIDE DEF ready
<1>6. TypeOK' BY <1>1, <1>2, <1>4 DEF TypeOK, Statuses
<1>7. Steady' /\ Ordered' BY <1>1 DEF Steady, Ordered
<1>8. Halted' BY <1>1, <1>3 DEF Halted, HalfResolved, Prepared
<1>9. Phases' /\ Apart' BY <1>1, <1>3 DEF Phases, Apart, Busy
<1>10. Unique' BY <1>1, <1>3 DEF Unique, Prepared, Repeated, Phases, Busy, ready
<1>11. Accounted'
  <2>1. \A i \in Items : i \notin begun' /\ (result'[i] = "failed" \/ (result'[i] = Nobody /\ i \in queue'))
    BY <1>1 DEF Ordered, Phases, ready, Prepared, Items
  <2>2. QED BY <1>1, <1>5, <2>1 DEF Accounted
<1>12. ReportIsTrue' BY <1>1 DEF ReportIsTrue
<1>. QED BY <1>6, <1>7, <1>8, <1>9, <1>10, <1>11, <1>12

-----------------------------------------------------------------------------
(* The steps of a worker.                                                  *)

\* A worker runs only after the start and before the report.
LEMMA WorkerRuns ==
  ASSUME IInv, NEW w \in Workers, pc[w] \in {"look", "take"} \cup Busy
  PROVE  phase = "run"
BY DEF IInv, TypeOK, Phases, Busy

LEMMA LookKeeps == ASSUME NEW w \in Workers, IInv, Look(w) PROVE IInv'
<1>. USE DEF IInv, Look, MainKept
<1>1. TypeOK' BY DEF TypeOK
<1>2. Steady' /\ Ordered' BY DEF Steady, Ordered
<1>3. Halted' BY DEF Halted, HalfResolved, Prepared
<1>4. Phases' BY DEF Phases, TypeOK
<1>5. Unique' BY DEF Unique, Prepared, Repeated, Busy, TypeOK
<1>6. Apart' BY DEF Apart, Busy, TypeOK
<1>7. Accounted' BY DEF Accounted, Busy, TypeOK
<1>8. ReportIsTrue' BY DEF ReportIsTrue
<1>. QED BY <1>1, <1>2, <1>3, <1>4, <1>5, <1>6, <1>7, <1>8

LEMMA NothingLeftKeeps == ASSUME NEW w \in Workers, IInv, NothingLeft(w) PROVE IInv'
<1>. USE DEF IInv, NothingLeft, MainKept
<1>1. TypeOK' BY DEF TypeOK
<1>2. Steady' /\ Ordered' BY DEF Steady, Ordered
<1>3. Halted' BY DEF Halted, HalfResolved, Prepared
<1>4. Phases' BY DEF Phases, TypeOK
<1>5. Unique' BY DEF Unique, Prepared, Repeated, Busy, TypeOK
<1>6. Apart' BY DEF Apart, Busy, TypeOK
<1>7. Accounted' BY DEF Accounted, Busy, TypeOK
<1>8. ReportIsTrue' BY DEF ReportIsTrue
<1>. QED BY <1>1, <1>2, <1>3, <1>4, <1>5, <1>6, <1>7, <1>8

LEMMA TakeItemKeeps == ASSUME NEW w \in Workers, IInv, TakeItem(w) PROVE IInv'
<1>. USE DEF IInv, MainKept
<1>1. PICK i \in queue : item' = [item EXCEPT ![w] = i] /\ queue' = queue \ {i}
  BY DEF TakeItem
<1>2. /\ pc[w] = "take" /\ pc' = [pc EXCEPT ![w] = "check"]
      /\ UNCHANGED <<result, begun, answer, input, resolving, cancel,
                     move, phase, at, identity>>
  BY DEF TakeItem
<1>3. i \in Items
  BY DEF TypeOK
<1>4. TypeOK' BY <1>1, <1>2, <1>3 DEF TypeOK
<1>5. Steady' /\ Ordered' BY <1>2 DEF Steady, Ordered
<1>6. Halted' BY <1>2 DEF Halted, HalfResolved, Prepared
<1>7. Phases' BY <1>2 DEF Phases, TypeOK
<1>8. Unique' BY <1>1, <1>2 DEF Unique, Prepared, Repeated, Busy, TypeOK
<1>9. Apart' BY <1>1, <1>2, <1>3 DEF Apart, Busy, TypeOK
<1>10. Accounted'
  <2>1. phase = "run" /\ pc'[w] = "check" /\ item'[w] = i
    BY <1>1, <1>2, WorkerRuns DEF TypeOK
  <2>2. \A v \in Workers \ {w} : pc'[v] = pc[v] /\ item'[v] = item[v]
    BY <1>1, <1>2 DEF TypeOK
  <2>3. QED BY <1>1, <1>2, <2>1, <2>2 DEF Accounted, Busy
<1>11. ReportIsTrue' BY <1>2 DEF ReportIsTrue
<1>. QED BY <1>4, <1>5, <1>6, <1>7, <1>8, <1>9, <1>10, <1>11

LEMMA CheckKeeps == ASSUME NEW w \in Workers, IInv, Check(w) PROVE IInv'
<1>. USE DEF IInv, Check, MainKept
<1>1. TypeOK' BY DEF TypeOK
<1>2. Steady' /\ Ordered' BY DEF Steady, Ordered
<1>3. Halted' BY DEF Halted, HalfResolved, Prepared
<1>4. Phases' BY DEF Phases, TypeOK
<1>5. Unique' BY DEF Unique, Prepared, Repeated, Busy, TypeOK
<1>6. Apart' BY DEF Apart, Busy, TypeOK
<1>7. Accounted'
  <2>1. \A v \in Workers \ {w} : pc'[v] = pc[v] BY DEF TypeOK
  <2>2. ~cancel => pc'[w] = "send" BY DEF TypeOK
  <2>3. QED BY <2>1, <2>2 DEF Accounted, Busy
<1>8. ReportIsTrue' BY DEF ReportIsTrue
<1>. QED BY <1>1, <1>2, <1>3, <1>4, <1>5, <1>6, <1>7, <1>8

LEMMA SendKeeps == ASSUME NEW w \in Workers, IInv, Send(w) PROVE IInv'
<1>. USE DEF IInv, Send, MainKept
<1>0. item[w] \in Items /\ phase = "run" /\ item[w] \notin begun /\ item[w] \notin queue
  BY WorkerRuns DEF Apart, Busy
<1>1. TypeOK' BY <1>0 DEF TypeOK
<1>2. Steady' /\ Ordered' BY DEF Steady, Ordered
<1>3. Halted' BY DEF Halted, HalfResolved, Prepared
<1>4. Phases' BY <1>0 DEF Phases, TypeOK
<1>5. Unique' BY DEF Unique, Prepared, Repeated, Busy, TypeOK
<1>6. Apart'
  <2>1. \A v \in Workers \ {w} : pc'[v] = pc[v] /\ item'[v] = item[v] BY DEF TypeOK
  <2>2. pc'[w] = "wait" /\ item'[w] = item[w] BY DEF TypeOK
  <2>3. QED BY <1>0, <2>1, <2>2 DEF Apart, Busy
<1>7. Accounted'
  <2>1. \A v \in Workers \ {w} : pc'[v] = pc[v] BY DEF TypeOK
  <2>2. pc'[w] = "wait" /\ item' = item BY DEF TypeOK
  <2>3. \A i \in Items : i \in begun => i \in begun' BY DEF TypeOK
  <2>4. QED BY <1>0, <2>1, <2>2, <2>3 DEF Accounted, Busy
<1>8. ReportIsTrue' BY <1>0 DEF ReportIsTrue
<1>. QED BY <1>1, <1>2, <1>3, <1>4, <1>5, <1>6, <1>7, <1>8

LEMMA AnswerKeeps == ASSUME NEW w \in Workers, IInv, Answer(w) PROVE IInv'
<1>. USE DEF IInv, MainKept
<1>1. PICK status \in Statuses :
         /\ Answered(w, status, "look")
         /\ result' = [result EXCEPT ![item[w]] = status]
  BY DEF Answer
<1>2. /\ pc[w] = "wait" /\ pc' = [pc EXCEPT ![w] = "look"]
      /\ answer' = [answer EXCEPT ![item[w]] = status]
      /\ UNCHANGED <<queue, item, begun, input, resolving, cancel, move,
                     phase, at, identity>>
  BY <1>1 DEF Answered
<1>3. item[w] \in Items /\ item[w] \in begun /\ phase = "run"
  BY <1>2, WorkerRuns DEF Apart, Busy
<1>4. TypeOK' BY <1>1, <1>2, <1>3 DEF TypeOK
<1>5. Steady' /\ Ordered' BY <1>2, <1>3 DEF Steady, Ordered
<1>6. Halted' BY <1>2 DEF Halted, HalfResolved, Prepared
<1>7. Phases' BY <1>2, <1>3 DEF Phases, TypeOK
<1>8. Unique' BY <1>2 DEF Unique, Prepared, Repeated, Busy, TypeOK
<1>9. Apart' BY <1>2 DEF Apart, Busy, TypeOK
<1>10. Accounted'
  <2>1. \A v \in Workers \ {w} : pc'[v] = pc[v] BY <1>2 DEF TypeOK
  <2>2. pc'[w] = "look" BY <1>2 DEF TypeOK
  <2>3. \A i \in Items \ {item[w]} : result'[i] = result[i] /\ answer'[i] = answer[i]
    BY <1>1, <1>2, <1>3 DEF TypeOK
  <2>4. result'[item[w]] = status /\ answer'[item[w]] = status /\ status # Nobody
    BY <1>1, <1>2, <1>3, NobodyIsNoIdentity DEF TypeOK, Statuses
  <2>5. QED BY <1>2, <1>3, <2>1, <2>2, <2>3, <2>4 DEF Accounted, Busy
<1>11. ReportIsTrue' BY <1>2, <1>3 DEF ReportIsTrue
<1>. QED BY <1>4, <1>5, <1>6, <1>7, <1>8, <1>9, <1>10, <1>11

LEMMA NextKeeps == IInv /\ [Next]_vars => IInv'
<1>. SUFFICES ASSUME IInv, [Next]_vars PROVE IInv' OBVIOUS
<1>1. CASE Cancel BY <1>1, CancelKeeps
<1>2. CASE \E s \in Agents : Move(s) BY <1>2, MoveKeeps
<1>3. CASE \E i \in Items : Refuse(i) BY <1>3, RefuseKeeps
<1>4. CASE \E i \in Items : Keep(i) BY <1>4, KeepKeeps
<1>5. CASE \E i \in Items : ResolutionFails(i) BY <1>5, FailureKeeps
<1>6. CASE Start BY <1>6, StartKeeps
<1>7. CASE Report BY <1>7, ReportKeeps
<1>8. CASE \E w \in Workers : Step(w)
  BY <1>8, LookKeeps, TakeItemKeeps, NothingLeftKeeps, CheckKeeps, SendKeeps,
     AnswerKeeps DEF Step
<1>9. CASE UNCHANGED vars BY <1>9, StutterKeeps
<1>. QED BY <1>1, <1>2, <1>3, <1>4, <1>5, <1>6, <1>7, <1>8, <1>9 DEF Next, Main

-----------------------------------------------------------------------------
\* The inductive invariant holds of every batch.
THEOREM InvariantHolds == Spec => []IInv
<1>1. Init => IInv BY InitIInv
<1>2. IInv /\ [Next]_vars => IInv' BY NextKeeps
<1>. QED BY <1>1, <1>2, PTL DEF Spec

\* Every variable keeps its type.
THEOREM TypeCorrect == Spec => []TypeOK
<1>1. IInv => TypeOK BY DEF IInv
<1>. QED BY <1>1, InvariantHolds, PTL

\* The report is true of every item, for any number of items and workers.
THEOREM ReportIsTrueHolds == Spec => []ReportIsTrue
<1>1. IInv => ReportIsTrue BY DEF IInv
<1>. QED BY <1>1, InvariantHolds, PTL

\* Two items for one session are never both handed to the sender: unless the
\* batch was halted both were counted under the session's only identity.
THEOREM OnePromptPerSessionHolds == Spec => []OnePromptPerSession
<1>1. IInv => OnePromptPerSession
  <2>. SUFFICES ASSUME IInv, resolving, NEW i \in begun, NEW j \in begun \ {i},
                       SameAgent(i, j), Reach[input[i].to] \in Sessions
                PROVE  FALSE
    BY DEF OnePromptPerSession
  <2>1. i \in Prepared /\ j \in Prepared /\ ~Repeated(i)
    BY DEF IInv, Unique
  <2>2. ~HalfResolved
    BY DEF IInv, Halted
  <2>3. identity[i] = <<Reach[input[i].to], 0>> /\ identity[j] = <<Reach[input[j].to], 0>>
    BY <2>1, <2>2 DEF HalfResolved, SameAgent
  <2>4. identity[i] = identity[j]
    BY <2>3 DEF SameAgent
  <2>5. QED BY <2>1, <2>4 DEF Repeated
<1>. QED BY <1>1, InvariantHolds, PTL
=============================================================================
