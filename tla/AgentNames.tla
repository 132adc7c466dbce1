------------------------------ MODULE AgentNames ------------------------------
(***************************************************************************)
(* Who gives an agent its name.  agent_labels.py runs as a process of its  *)
(* own for the startup (reconcile) and for every event of the Herdr server *)
(* (detected, released, status changed): it names unnamed agents from a    *)
(* palette and reports the name as the pane's display.  agent_spawn.py     *)
(* makes a pane, starts an agent in it under a free name, and takes the    *)
(* pane down again if that fails.  They share only the server, which keeps *)
(* names unique; meanwhile agents come and go and the user names some      *)
(* himself.  Any command may fail, with or without having had its effect.  *)
(***************************************************************************)
EXTENDS Integers, Sequences

CONSTANTS
    Panes,        \* the panes agents come to by themselves
    New,          \* the pane that spawn makes
    Palette,      \* ALIASES
    Stride,       \* CANDIDATE_STRIDE, coprime with the number of names
    First,        \* where the candidates of a pane start, by its seed
    Manual,       \* names only the user gives
    NoName,
    Wanted,       \* the labels spawn may be asked for (NoName for any)
    Labelers,     \* as many processes of agent_labels.py as run at once
    MaxMoves      \* bound on what agents and the user do

AllPanes == Panes \cup {New}
N == Len(Palette)
Aliases == {Palette[i] : i \in 1 .. N}
Names == Aliases \cup Manual

ASSUME NamesAssumption ==
    /\ New \notin Panes
    /\ NoName \notin Names /\ Aliases \cap Manual = {}
    /\ Wanted \subseteq Names \cup {NoName}
    /\ N \in Nat \ {0} /\ \A i, j \in 1 .. N : Palette[i] = Palette[j] => i = j
    /\ First \in [AllPanes -> [BOOLEAN -> 0 .. N - 1]]
    /\ Stride \in Nat
    /\ \A d \in 1 .. N : N % d = 0 /\ Stride % d = 0 => d = 1
    /\ MaxMoves \in Nat

VARIABLES
    agent,        \* "no", "yes", "left": whether an agent is in the pane
    name,         \* the name of the pane's agent
    display,      \* the alias the pane is shown with
    session,      \* whether the agent's session id is known
    given,        \* the name the user gave the agent that is there
    due,          \* events whose handler has not started
    starting,     \* the startup command has not run
    todo,         \* the panes each labeler still has to look at
    work,         \* what it is at: the pane, its seed and the candidate
    spawn,        \* where spawn is
    label,        \* --label, or NoName
    taken,        \* the names spawn has seen taken
    try,          \* which candidate spawn tries
    chosen,       \* the name spawn has started its agent with
    exists,       \* whether the new pane exists
    told,         \* whether spawn knows what to close
    unclosed,     \* whether closing it has failed
    trouble,      \* what kept a labeler from its work: "", "failed", "exhausted"
    churn,        \* some agent has left, changed its seed or given up its name
    moves

labVars == <<todo, work>>
spawnVars == <<spawn, label, taken, try, chosen, exists, told, unclosed>>
agentVars == <<agent, session, given>>
vars == <<agent, name, display, session, given, due, starting, todo, work,
          spawn, label, taken, try, chosen, exists, told, unclosed,
          trouble, churn, moves>>

InUse == {name[p] : p \in AllPanes} \ {NoName}

\* candidates(): start somewhere, and walk the palette in strides.
Candidate(p, s, k) == Palette[((First[p][s] + k * Stride) % N) + 1]

-----------------------------------------------------------------------------
(* Agents, the user, and the events the server reports of them.            *)

Moves == moves < MaxMoves /\ moves' = moves + 1

AgentComes(p) ==
    /\ Moves /\ agent[p] # "yes"
    /\ agent' = [agent EXCEPT ![p] = "yes"]
    /\ session' = [session EXCEPT ![p] = FALSE]
    /\ trouble' = [trouble EXCEPT ![p] = ""]
    /\ due' = due \cup {<<"label", p>>}
    /\ UNCHANGED <<name, display, given, starting, churn>>
    /\ UNCHANGED labVars /\ UNCHANGED spawnVars

\* The name goes with the agent; the display stays until it is cleared.
AgentLeaves(p) ==
    /\ Moves /\ agent[p] = "yes"
    /\ agent' = [agent EXCEPT ![p] = "left"]
    /\ name' = [name EXCEPT ![p] = NoName]
    /\ given' = [given EXCEPT ![p] = NoName]
    /\ due' = due \cup {<<"clear", p>>}
    /\ churn' = TRUE
    /\ UNCHANGED <<display, session, starting, trouble>>
    /\ UNCHANGED labVars /\ UNCHANGED spawnVars

UserRenames(p, n) ==
    /\ Moves /\ agent[p] = "yes" /\ n \notin InUse
    /\ name' = [name EXCEPT ![p] = n]
    /\ given' = [given EXCEPT ![p] = n]
    /\ churn' = (churn \/ name[p] # NoName)
    /\ UNCHANGED <<agent, display, session, due, starting, trouble>>
    /\ UNCHANGED labVars /\ UNCHANGED spawnVars

\* pane.agent_status_changed, or the user's "Assign Agent Label"; the agent's
\* session may have become known.
StatusChanges(p) ==
    /\ Moves /\ agent[p] = "yes"
    /\ due' = due \cup {<<"label", p>>}
    /\ session' \in {session, [session EXCEPT ![p] = TRUE]}
    /\ churn' = (churn \/ session' # session)
    /\ UNCHANGED <<agent, name, display, given, starting, trouble>>
    /\ UNCHANGED labVars /\ UNCHANGED spawnVars

-----------------------------------------------------------------------------
(* agent_labels.py.                                                        *)

\* A labeler's work on a pane; seed tells whether its seed has the session id,
\* next which candidate is at its turn.
Works == [at : {"idle", "rename", "again", "report", "clear"}, pane : AllPanes,
          seed : BOOLEAN, next : 0 .. N - 1]
Idle == [at |-> "idle", pane |-> New, seed |-> FALSE, next |-> 0]

Free(l) == work[l] = Idle /\ todo[l] = {}
Goes(l, where) == work' = [work EXCEPT ![l].at = where]

\* handle_event: a handler starts.
Handle(l, p) ==
    /\ Free(l)
    /\ \/ /\ <<"label", p>> \in due /\ due' = due \ {<<"label", p>>}
          /\ todo' = [todo EXCEPT ![l] = {p}] /\ UNCHANGED work
       \/ /\ <<"clear", p>> \in due /\ due' = due \ {<<"clear", p>>}
          /\ work' = [work EXCEPT ![l] = [Idle EXCEPT !.at = "clear", !.pane = p]]
          /\ UNCHANGED todo
    /\ UNCHANGED <<name, display, starting, trouble, churn, moves>>
    /\ UNCHANGED agentVars /\ UNCHANGED spawnVars

LabelerRests == UNCHANGED <<due, churn, moves>> /\ UNCHANGED agentVars /\ UNCHANGED spawnVars

\* Mutant: whether the agent has a name does not matter.
Present(p) == agent[p] = "yes"

\* The agents assign_label is for.
Unnamed(p) == agent[p] = "yes" /\ name[p] = NoName

\* reconcile_labels: all that are unnamed now are looked at one by one.
Reconcile(l) ==
    /\ Free(l) /\ starting
    /\ starting' = FALSE
    /\ LET unnamed == {p \in AllPanes : Unnamed(p)}
       IN  \/ todo' = [todo EXCEPT ![l] = unnamed] /\ UNCHANGED trouble
           \/ /\ trouble' = [p \in AllPanes |-> IF p \in unnamed THEN "failed" ELSE trouble[p]]
              /\ UNCHANGED todo
    /\ UNCHANGED <<name, display, work>> /\ LabelerRests

\* assign_label asks for the agent, and begins unless it has a name.
Fetch(l, p) ==
    /\ work[l] = Idle /\ p \in todo[l]
    /\ todo' = [todo EXCEPT ![l] = @ \ {p}]
    /\ \/ /\ Unnamed(p)
          /\ work' = [work EXCEPT ![l] =
                 [at |-> "rename", pane |-> p, seed |-> session[p], next |-> 0]]
          /\ UNCHANGED trouble
       \/ ~Unnamed(p) /\ UNCHANGED <<work, trouble>>
       \/ trouble' = [trouble EXCEPT ![p] = "failed"] /\ UNCHANGED work
    /\ UNCHANGED <<name, display, starting>> /\ LabelerRests

Stops(l, why) ==
    /\ work' = [work EXCEPT ![l] = Idle]
    /\ trouble' = IF why = "" THEN trouble ELSE [trouble EXCEPT ![work[l].pane] = why]

\* The candidate at its turn.
Tries(l) == Candidate(work[l].pane, work[l].seed, work[l].next)

Named(p, n) ==
    /\ agent[p] = "yes" /\ n \notin InUse \ {name[p]}
    /\ name' = [name EXCEPT ![p] = n]

\* agent rename.  A name that is in use is turned down (the agent's own maybe
\* not); the name the agent has by now is of no interest to the server.
Rename(l) ==
    /\ work[l].at = "rename"
    /\ \/ Named(work[l].pane, Tries(l)) /\ Goes(l, "report") /\ UNCHANGED trouble
       \/ Tries(l) \in InUse /\ Goes(l, "again") /\ UNCHANGED <<name, trouble>>
       \/ Stops(l, "failed") /\ (Named(work[l].pane, Tries(l)) \/ UNCHANGED name)
    /\ UNCHANGED <<display, starting, todo>> /\ LabelerRests

\* Mutant: one candidate is enough.
TurnedDownOnce(l, why) == Stops(l, "exhausted")

\* Mutant: the last candidate is not the last.
TurnedDownTooFar(l, why) ==
    /\ work' = [work EXCEPT ![l].at = "rename", ![l].next = @ + 1]
    /\ UNCHANGED trouble

\* The next candidate, if there is one.
TurnedDown(l, why) ==
    \/ /\ work[l].next + 1 < N
       /\ work' = [work EXCEPT ![l].at = "rename", ![l].next = @ + 1]
       /\ trouble' = IF why = "" THEN trouble ELSE [trouble EXCEPT ![work[l].pane] = why]
    \/ work[l].next + 1 = N /\ Stops(l, IF why = "" THEN "exhausted" ELSE why)

\* Mutant: a name that is taken is taken by another agent.
AgainUnchecked(l) ==
    /\ work[l].at = "again" /\ TurnedDown(l, "")
    /\ UNCHANGED <<name, display, starting, todo>> /\ LabelerRests

\* After agent_name_taken another process may have named this very agent; if
\* the agent cannot be read the labeler goes on all the same.
Again(l) ==
    /\ work[l].at = "again"
    /\ \/ name[work[l].pane] # NoName /\ Stops(l, "")
       \/ name[work[l].pane] = NoName /\ TurnedDown(l, "")
       \/ TurnedDown(l, "failed")
    /\ UNCHANGED <<name, display, starting, todo>> /\ LabelerRests

\* report_agent_label_metadata.
Report(l) ==
    /\ work[l].at = "report"
    /\ \/ /\ work[l].pane # New \/ exists
          /\ display' = [display EXCEPT ![work[l].pane] = Tries(l)]
          /\ Stops(l, "")
       \/ UNCHANGED display /\ Stops(l, "failed")
    /\ UNCHANGED <<name, starting, todo>> /\ LabelerRests

\* clear_agent_label_metadata, for a released agent.
Clear(l) ==
    /\ work[l].at = "clear"
    /\ display' \in {display, [display EXCEPT ![work[l].pane] = NoName]}
    /\ Stops(l, "")
    /\ UNCHANGED <<name, starting, todo>> /\ LabelerRests

-----------------------------------------------------------------------------
(* agent_spawn.py.                                                         *)

\* Spawn's own variables are gone when it ends.
SpawnEnds(how, n) ==
    spawn' = how /\ chosen' = n /\ label' = NoName /\ taken' = {} /\ try' = 0

SpawnRests == UNCHANGED <<starting, moves>> /\ UNCHANGED labVars

\* The pane is made; or not; or it is and nobody learns of it; or it is, and
\* only what holds it (the tab, the workspace) is known.
SpawnCreates(n) ==
    /\ spawn = "off"
    /\ \/ /\ spawn' = "list" /\ label' = n /\ exists' = TRUE /\ told' = TRUE
          /\ UNCHANGED <<taken, try, chosen>>
       \/ SpawnEnds("error", NoName) /\ exists' \in BOOLEAN /\ told' = FALSE
       \/ /\ spawn' = "close" /\ exists' = TRUE /\ told' \in BOOLEAN
          /\ UNCHANGED <<label, taken, try, chosen>>
    /\ UNCHANGED unclosed
    /\ UNCHANGED <<name, display, due, trouble, churn>> /\ UNCHANGED agentVars
    /\ SpawnRests

\* discover() meets an agent with an invalid revision: the ValueError is no
\* SpawnError, and spawn ends without cleanup().
SpawnRaises == SpawnEnds("raised", NoName)

\* discover(): the names that are taken.
SpawnLists ==
    /\ spawn = "list"
    /\ \/ spawn' = "start" /\ taken' = InUse /\ UNCHANGED <<label, try, chosen>>
       \/ spawn' = "close" /\ UNCHANGED <<label, taken, try, chosen>>
       \/ SpawnRaises
    /\ UNCHANGED <<exists, told, unclosed>>
    /\ UNCHANGED <<name, display, due, trouble, churn>> /\ UNCHANGED agentVars
    /\ SpawnRests

\* The candidates that are not known to be taken, from the k-th on.
Left(k) == {i \in k .. N - 1 : Candidate(New, FALSE, i) \notin taken}

\* One "agent start": the server starts the agent under a free name, and the
\* agent is detected.  A name that is taken sends the loop on, unless it was
\* asked for; a start that fails or times out may have worked all the same.
SpawnStarts ==
    /\ spawn = "start"
    /\ \E k \in IF label = NoName THEN {i \in Left(try) : \A j \in Left(try) : i <= j} ELSE {0} :
          LET n == IF label = NoName THEN Candidate(New, FALSE, k) ELSE label
              starts == /\ n \notin InUse
                        /\ agent' = [agent EXCEPT ![New] = "yes"]
                        /\ name' = [name EXCEPT ![New] = n]
                        /\ due' = due \cup {<<"label", New>>}
              stays == UNCHANGED <<agent, name, due>>
          IN  \/ /\ starts
                 /\ spawn' = "report" /\ chosen' = n
                 /\ UNCHANGED <<try, trouble>>
              \/ /\ n \in InUse /\ stays
                 /\ spawn' = IF label = NoName THEN "start" ELSE "close"
                 /\ try' = k + 1
                 /\ UNCHANGED <<chosen, trouble>>
              \/ /\ spawn' = "close"
                 /\ starts \/ stays
                 /\ trouble' = [trouble EXCEPT ![New] = "failed"]
                 /\ UNCHANGED <<try, chosen>>
    /\ UNCHANGED <<session, given, label, taken, exists, told, unclosed>>
    /\ UNCHANGED <<display, churn>>
    /\ SpawnRests

\* No name is left over.
SpawnFindsNone ==
    /\ spawn = "start" /\ label = NoName /\ Left(try) = {}
    /\ spawn' = "close"
    /\ UNCHANGED <<label, taken, try, chosen, exists, told, unclosed>>
    /\ UNCHANGED <<name, display, due, trouble, churn>> /\ UNCHANGED agentVars
    /\ SpawnRests

\* _report_metadata, for a name of the palette; nothing hangs on it.
SpawnReports ==
    /\ spawn = "report" /\ spawn' = "relist"
    /\ \/ chosen \notin Aliases /\ UNCHANGED <<display, trouble>>
       \/ /\ chosen \in Aliases
          /\ display' = [display EXCEPT ![New] = chosen]
          /\ UNCHANGED trouble
       \/ /\ chosen \in Aliases
          /\ trouble' = [trouble EXCEPT ![New] = "failed"]
          /\ UNCHANGED display
    /\ UNCHANGED <<label, taken, try, chosen, exists, told, unclosed>>
    /\ UNCHANGED <<name, due, churn>> /\ UNCHANGED agentVars
    /\ SpawnRests

\* The second discover(): the agent must be there under its name.
SpawnRelists ==
    /\ spawn = "relist"
    /\ \/ agent[New] = "yes" /\ name[New] = chosen /\ SpawnEnds("ok", chosen)
       \/ spawn' = "close" /\ UNCHANGED <<label, taken, try, chosen>>
       \/ SpawnRaises
    /\ UNCHANGED <<exists, told, unclosed>>
    /\ UNCHANGED <<name, display, due, trouble, churn>> /\ UNCHANGED agentVars
    /\ SpawnRests

\* cleanup().
SpawnCloses ==
    /\ spawn = "close" /\ SpawnEnds("error", NoName)
    /\ \/ /\ told /\ exists' = FALSE
          /\ unclosed' \in BOOLEAN
          /\ agent' = [agent EXCEPT ![New] = "no"]
          /\ name' = [name EXCEPT ![New] = NoName]
          /\ given' = [given EXCEPT ![New] = NoName]
          /\ display' = [display EXCEPT ![New] = NoName]
          /\ churn' = TRUE
       \/ /\ unclosed' = TRUE
          /\ UNCHANGED <<exists, agent, name, given, display, churn>>
    /\ UNCHANGED <<session, told, due, trouble>>
    /\ SpawnRests

-----------------------------------------------------------------------------
Init ==
    /\ agent \in {f \in [AllPanes -> {"no", "yes"}] : f[New] = "no"}
    /\ name = [p \in AllPanes |-> NoName]
    /\ display = name /\ given = name
    /\ session = [p \in AllPanes |-> FALSE]
    /\ due = {} /\ starting = TRUE
    /\ todo = [l \in Labelers |-> {}]
    /\ work = [l \in Labelers |-> Idle]
    /\ spawn = "off" /\ label = NoName /\ taken = {} /\ try = 0 /\ chosen = NoName
    /\ exists = FALSE /\ told = FALSE /\ unclosed = FALSE
    /\ trouble = [p \in AllPanes |-> ""]
    /\ churn = FALSE /\ moves = 0

LabelerStep(l) ==
    \/ \E p \in AllPanes : Handle(l, p) \/ Fetch(l, p)
    \/ Reconcile(l) \/ Rename(l) \/ Again(l) \/ Report(l) \/ Clear(l)

SpawnStep ==
    \/ \E n \in Wanted : SpawnCreates(n)
    \/ SpawnLists \/ SpawnStarts \/ SpawnFindsNone
    \/ SpawnReports \/ SpawnRelists \/ SpawnCloses

World ==
    \/ \E p \in Panes : AgentComes(p)
    \/ \E p \in AllPanes : \/ AgentLeaves(p) \/ StatusChanges(p)
                           \/ \E n \in Manual : UserRenames(p, n)

Next == World \/ SpawnStep \/ \E l \in Labelers : LabelerStep(l)

Spec == Init /\ [][Next]_vars

-----------------------------------------------------------------------------
(* Properties.                                                             *)

\* Every variable has its type, and no two agents have one name.
TypeOK ==
    /\ agent \in [AllPanes -> {"no", "yes", "left"}]
    /\ name \in [AllPanes -> Names \cup {NoName}]
    /\ \A p, x \in AllPanes : name[p] = name[x] /\ name[p] # NoName => p = x
    /\ \A p \in AllPanes : name[p] # NoName => agent[p] = "yes"
    /\ display \in [AllPanes -> Names \cup {NoName}]
    /\ session \in [AllPanes -> BOOLEAN]
    /\ given \in [AllPanes -> Manual \cup {NoName}]
    /\ due \subseteq {"label", "clear"} \X AllPanes
    /\ todo \in [Labelers -> SUBSET AllPanes]
    /\ work \in [Labelers -> Works]
    /\ spawn \in {"off", "list", "start", "report", "relist", "close",
                 "ok", "error", "raised"}
    /\ label \in Names \cup {NoName} /\ chosen \in Names \cup {NoName}
    /\ taken \subseteq Names /\ try \in 0 .. N
    /\ {starting, exists, told, unclosed, churn} \subseteq BOOLEAN
    /\ trouble \in [AllPanes -> {"", "failed", "exhausted"}]
    /\ moves \in 0 .. MaxMoves

Quiet ==
    /\ due = {} /\ ~starting /\ \A l \in Labelers : Free(l)
    /\ spawn \in {"off", "ok", "error", "raised"}

\* An agent is not left without a name: when the handlers are through, an
\* unnamed agent is one a command has failed for, or one for whom every name
\* was taken in its turn while names were moving between other agents.
AgentsGetNamed ==
    Quiet => \A p \in AllPanes : agent[p] = "yes" /\ name[p] = NoName =>
                \/ trouble[p] = "failed"
                \/ /\ trouble[p] = "exhausted"
                   /\ churn \/ \E x \in AllPanes : trouble[x] = "failed"

\* No agent that had a name has lost it, and for none that has one a command
\* has failed: no name has come free again.
Steady == ~churn /\ \A p \in AllPanes : trouble[p] = "failed" => name[p] = NoName

\* However many handlers, and spawn, work for a pane at once, and in whatever
\* order their commands arrive: it ends being shown with the name its agent
\* has.  (They try the same names in the same order, so the second is turned
\* down by the name the first has given; a name that comes free in between,
\* in this pane or another, and the second takes it.)
ShownAsNamed ==
    Quiet /\ Steady => \A p \in AllPanes : name[p] \in Aliases => display[p] = name[p]

\* A successful spawn leaves an agent under the name it reports, which no
\* handler changes behind its back; one that fails with an error of its own
\* leaves nothing that it knows of, or says that closing it has failed.
SpawnReportIsTrue ==
    /\ spawn = "ok" => /\ agent[New] # "no"
                       /\ agent[New] = "yes" /\ given[New] = NoName => name[New] = chosen
    /\ spawn = "error" /\ told => ~exists \/ unclosed
=============================================================================
