----------------------------- MODULE AgentRead -----------------------------
(***************************************************************************)
(* Reading an agent's screen by way of a route and a cursor: read_command  *)
(* resolves a route token among the agents that are there now, reads the   *)
(* screen by name or pane in a second call, and gives what is new since    *)
(* the cursor of the read before.  Meanwhile agents are replaced, named,   *)
(* forgotten, resumed elsewhere, start new sessions, and write.            *)
(*                                                                         *)
(* Text is a sequence of glyphs, numbered as they are first written.  A    *)
(* hash is the value it is taken of.  The workspace of an agent, and its   *)
(* terminal with the working directory, are those of its pane, where Herdr *)
(* tells them at all.  Nor need Herdr tell a revision (0 stands for none); *)
(* one that it tells is assumed to be new to the pane whenever it moves,   *)
(* and to move whenever the agent is replaced.  All agents are of a kind.  *)
(***************************************************************************)
EXTENDS Naturals, Sequences, FiniteSets, FiniteSetsExt

CONSTANTS
    Panes,
    Names,
    Nobody,       \* no name, no agent, no token, no cursor
    Reports,      \* what Herdr may tell of an agent's place
    Lines,        \* glyphs on a screen (--lines)
    TailLen,      \* CURSOR_TAIL_BYTES
    MinOverlap,   \* MIN_PARTIAL_OVERLAP_BYTES
    MaxGlyphs,    \* --max-bytes
    MaxChanges,   \* bound on what happens to the agents
    MaxWrites     \* bound on what they write after the first screen

ASSUME PanesAreNotNames == Nobody \notin Panes \cup Names /\ Panes \cap Names = {}
ASSUME SizesPositive ==
    /\ {Lines, TailLen, MinOverlap, MaxGlyphs} \subseteq Nat \ {0}
    /\ MinOverlap <= TailLen
ASSUME ReportsOfPlaces == Reports \subseteq SUBSET {"workspace", "terminal"}
ASSUME BoundsAreNumbers == {MaxChanges, MaxWrites} \subseteq Nat

VARIABLES
    agent,        \* the agent in each pane, as Herdr lists it
    text,         \* the recent text of each pane
    changes,      \* how often an agent was changed; numbers lives and sessions
    writes,       \* the last glyph
    plain,        \* ghost: so far text was only added, or redrawn at the end
    route,        \* the token the reader holds
    cursor,       \* the cursor the reader holds
    found,        \* what the route was resolved to, before the screen is read
    said          \* the answer of the last read

worldVars == <<agent, text, changes, writes, plain>>
readerVars == <<route, cursor, found, said>>
vars == <<worldVars, readerVars>>

-----------------------------------------------------------------------------
(* Agents.  life is a ghost: it tells processes apart.                     *)

Agents == [pane : Panes, told : Reports,
           name : Names \cup {Nobody}, alias : Names \cup {Nobody},
           session : Nat, revision : Nat, life : Nat]

Here == {agent[p] : p \in Panes} \ {Nobody}

\* agent_label: a registered name, or an alias that outlived one.
Label(a) == IF a.name # Nobody THEN a.name ELSE a.alias

\* AgentRecord.target: what herdr is told to read or to prompt.
TargetOf(a) == IF a.name # Nobody THEN a.name ELSE a.pane

\* Mutant: an agent is who its target says.
IdentityByTarget(a) == <<"target", TargetOf(a)>>

\* AgentRecord.identity
Identity(a) ==
    IF a.session # 0 THEN <<"session", a.session>>
    ELSE <<a.pane, "terminal" \in a.told, TargetOf(a), a.revision>>

LabelKind(a) ==
    IF Label(a) = Nobody THEN "unlabeled"
    ELSE IF a.name # Nobody THEN "registered" ELSE "display"

-----------------------------------------------------------------------------
(* Routes.                                                                 *)

\* encode_agent_route.  Tokens of version 1 hold the occupant alone; made is
\* a ghost, the agent the token was made for.
Route(a, v) ==
    [version |-> v, occupant |-> Identity(a), kind |-> LabelKind(a),
     label |-> Label(a), pane |-> a.pane, told |-> a.told, target |-> TargetOf(a),
     revision |-> a.revision, bound |-> a.session # 0, made |-> a]

\* _continuity_payload: whether enough is told, of the agent x or of the one the
\* token x was made for, to recognise another in its place, or the same again.
BasicReady(x) == "workspace" \in x.told
StrictReady(x) == {"workspace", "terminal"} \subseteq x.told /\ x.revision > 0

\* _matches_basic_continuity
BasicallyContinues(r, a) == BasicReady(r) /\ BasicReady(a) /\ a.pane = r.pane

\* Mutant: all fields agree, told or not.
StrictlyContinuesUnready(r, a) ==
    /\ ~r.bound
    /\ LabelKind(a) = r.kind /\ Label(a) = r.label
    /\ a.pane = r.pane /\ a.told = r.told /\ TargetOf(a) = r.target
    /\ a.revision = r.revision

\* _matches_strict_continuity
StrictlyContinues(r, a) ==
    /\ StrictReady(r) /\ ~r.bound /\ StrictReady(a)
    /\ LabelKind(a) = r.kind /\ Label(a) = r.label
    /\ a.pane = r.pane /\ TargetOf(a) = r.target
    /\ a.revision = r.revision

\* Those of the agents as that a route may lead to when the occupant it was
\* made for is not among them.
Successors(r, as) ==
    IF r.kind = "registered"
    THEN LET named == {a \in as : LabelKind(a) = "registered" /\ Label(a) = r.label}
         IN {a \in named : BasicallyContinues(r, a) /\ Cardinality(named) = 1}
    ELSE {a \in as : StrictlyContinues(r, a)}

\* resolve_agent_route: the set of its answers, empty for route_expired and
\* route_ambiguous.
Resolved(r, as) ==
    LET exact == {a \in as : Identity(a) = r.occupant}
        heirs == IF exact # {} THEN exact
                 ELSE IF r.version = 1 THEN {}
                 ELSE Successors(r, as)
    IN {a \in heirs : Cardinality(heirs) = 1}

-----------------------------------------------------------------------------
(* Cursors.                                                                *)

Last(s, n) == IF Len(s) <= n THEN s ELSE SubSeq(s, Len(s) - n + 1, Len(s))
From(s, n) == SubSeq(s, n + 1, Len(s))

EndsWith(s, t) == Len(t) <= Len(s) /\ Last(s, Len(t)) = t

\* Mutant: the whole screen goes into the cursor.
TailWhole(s) == s

\* What a cursor keeps of a screen besides its hash.
KeptTail(s) == Last(s, TailLen)

\* _encode_cursor.  of is a ghost: the agent whose screen was read in truth,
\* or Nobody when that was not the one that was resolved.
Cursor(screen, stream, of) ==
    [stream |-> stream, hash |-> screen, tail |-> KeptTail(screen), of |-> of]

\* bytes.rfind(t, 0, upto): where t stands last in the first upto glyphs.
Found(s, t, upto) == {i \in 0..upto : /\ i + Len(t) <= upto
                                      /\ SubSeq(s, i + 1, i + Len(t)) = t}

\* _find_exact_snapshot_end: the end of the earlier screen in s, or {}.
ExactEnd(s, c) ==
    LET search[upto \in 0..Len(s)] ==
            LET places == Found(s, c.tail, upto) IN
            IF places = {} THEN {}
            ELSE LET end == Max(places) + Len(c.tail) IN
                 IF end >= Len(c.hash) /\ Last(SubSeq(s, 1, end), Len(c.hash)) = c.hash
                 THEN {end}
                 ELSE search[Max(places)]
    IN IF c.hash = <<>> THEN {0} ELSE search[Len(s)]

\* Mutant: a tail at the end of the screen means that nothing is new.
OverlapEndTrusting(s, c) ==
    LET places == Found(s, c.tail, Len(s)) IN
    IF Len(c.tail) < MinOverlap \/ places = {} THEN {}
    ELSE {Max(places) + Len(c.tail)}

\* _tail_overlap_delta: where the new text begins, or {}.
OverlapEnd(s, c) ==
    LET places == Found(s, c.tail, Len(s))
        overlaps == {n \in MinOverlap..Len(c.tail) :
                        n <= Len(s) /\ Last(c.tail, n) = SubSeq(s, 1, n)}
        ends == IF places # {} THEN {Max(places) + Len(c.tail)}
                ELSE {n \in overlaps : \A m \in overlaps : m <= n}
    IN IF Len(c.tail) < MinOverlap THEN {} ELSE ends \ {Len(s)}

\* Where the new text begins in s for the holder of cursor c: the set is
\* empty when the whole screen is given.
NewFrom(s, stream, c) ==
    IF c = Nobody \/ c.stream # stream THEN {}
    ELSE IF c.hash = s THEN {Len(s)}
    ELSE IF ExactEnd(s, c) # {} THEN ExactEnd(s, c)
    ELSE OverlapEnd(s, c)

\* compact_output
Answer(s, stream, c) ==
    LET start == NewFrom(s, stream, c)
        candidate == IF start = {} THEN s ELSE From(s, Max(start))
    IN [output |-> Last(candidate, MaxGlyphs),
        truncated |-> Len(candidate) > MaxGlyphs,
        delta |-> start # {}]

-----------------------------------------------------------------------------
(* The reader: read_command in its two calls to Herdr.                     *)

\* An agent is addressed by label: exactly one must carry it.
Address(n) ==
    /\ found = Nobody
    /\ LET labeled == {a \in Here : Label(a) = n} IN
       /\ Cardinality(labeled) = 1
       /\ \E a \in labeled : found' = a /\ route' = Route(a, 2)
    /\ said' = Nobody
    /\ UNCHANGED <<worldVars, cursor>>

\* A route is resolved.  The token it is refreshed to is in the verbose
\* answer only: the reader may go on with the old one.
Resolve ==
    /\ found = Nobody
    /\ route # Nobody
    /\ \E a \in Resolved(route, Here) :
          /\ found' = a
          /\ route' \in {route, Route(a, 2)}
    /\ said' = Nobody
    /\ UNCHANGED <<worldVars, cursor>>

\* herdr agent read TARGET reads whoever answers to the name, or is in the
\* pane, by now.
Read ==
    /\ found # Nobody
    /\ found' = Nobody
    /\ LET now == {a \in Here : TargetOf(found) \in {a.name, a.pane}} IN
       IF now = {} THEN UNCHANGED <<cursor, said>>
       ELSE \E a \in now :
          LET s == text[a.pane]
              stream == Identity(found)
          IN /\ said' = Answer(s, stream, cursor)
             /\ cursor' = Cursor(s, stream, IF a.life = found.life THEN found ELSE Nobody)
    /\ UNCHANGED <<worldVars, route>>

\* A reader may start anew without its cursor.
DropCursor ==
    /\ found = Nobody /\ cursor # Nobody
    /\ cursor' = Nobody /\ said' = Nobody
    /\ UNCHANGED <<worldVars, route, found>>

-----------------------------------------------------------------------------
(* Herdr and the agents.                                                   *)

Change(p, a) ==
    /\ changes < MaxChanges
    /\ changes' = changes + 1
    /\ agent' = [agent EXCEPT ![p] = a]
    /\ UNCHANGED <<writes, plain, readerVars>>

\* The revision Herdr tells from now on: none, or a new one.
Revisions == {0, changes + 2}

\* The agent leaves and another one comes in the same pane.  Text and alias
\* outlive the first.  The new one may resume a session.
Replace(p) ==
    \E s \in {0} \cup {a.session : a \in Here}, r \in Revisions :
        /\ agent[p] # Nobody
        /\ Change(p, [agent[p] EXCEPT !.name = Nobody, !.session = s,
                                      !.revision = r, !.life = changes + 2])
        /\ UNCHANGED text

Leave(p) ==
    /\ agent[p] # Nobody
    /\ Change(p, Nobody)
    /\ text' = [text EXCEPT ![p] = <<>>]

\* Herdr keeps registered names unique.
Name(p, n) ==
    /\ agent[p] # Nobody
    /\ \A a \in Here : a.name # n
    /\ Change(p, [agent[p] EXCEPT !.name = n, !.alias = n])
    /\ UNCHANGED text

\* The registered name is lost and the alias is still shown.
Forget(p) ==
    /\ agent[p] # Nobody /\ agent[p].name # Nobody
    /\ Change(p, [agent[p] EXCEPT !.name = Nobody])
    /\ UNCHANGED text

\* A session is reported for the first time, or a new one is begun.
Session(p) ==
    /\ agent[p] # Nobody
    /\ Change(p, [agent[p] EXCEPT !.session = changes + 2])
    /\ UNCHANGED text

\* The revision moves, or is told no more, although the agent is the same.
Revise(p) ==
    /\ agent[p] # Nobody
    /\ \E r \in Revisions : Change(p, [agent[p] EXCEPT !.revision = r])
    /\ UNCHANGED text

Write(p, t) ==
    /\ writes < Lines + MaxWrites
    /\ agent[p] # Nobody
    /\ writes' = writes + 1
    /\ text' = [text EXCEPT ![p] = Last(t, Lines)]
    /\ UNCHANGED <<agent, changes, readerVars>>

WriteMore(p) == Write(p, Append(text[p], writes + 1)) /\ UNCHANGED plain

RedrawEnd(p) ==
    /\ text[p] # <<>>
    /\ Write(p, [text[p] EXCEPT ![Len(text[p])] = writes + 1])
    /\ UNCHANGED plain

\* Something is redrawn above the end, or text appears a second time.
RedrawAbove(p) ==
    /\ \E i \in 1..Len(text[p]) - 1 : Write(p, [text[p] EXCEPT ![i] = writes + 1])
    /\ plain' = FALSE

Repeat(p) ==
    /\ \E i \in 1..Len(text[p]) : Write(p, Append(text[p], text[p][i]))
    /\ plain' = FALSE

-----------------------------------------------------------------------------
FirstAgents(p) == {[pane |-> p, told |-> t, name |-> n, alias |-> n, session |-> s,
                    revision |-> r, life |-> 1] :
                   t \in Reports, n \in Names \cup {Nobody}, s \in {0, 1}, r \in {0, 1}}

\* One agent with a full screen, and a token of it that an older release may
\* have made.
Init ==
    /\ \E p \in Panes : \E a \in FirstAgents(p) :
          /\ agent = [q \in Panes |-> IF q = p THEN a ELSE Nobody]
          /\ route \in {Route(a, 1), Route(a, 2)}
          /\ text = [q \in Panes |-> IF q = p THEN [i \in 1..Lines |-> i] ELSE <<>>]
    /\ changes = 0
    /\ writes = Lines
    /\ plain = TRUE
    /\ cursor = Nobody
    /\ found = Nobody
    /\ said = Nobody

\* An agent starts in an empty pane.
Start(p) ==
    /\ agent[p] = Nobody
    /\ \E s \in {0} \cup {a.session : a \in Here}, t \in Reports, r \in Revisions :
          Change(p, [pane |-> p, told |-> t, name |-> Nobody, alias |-> Nobody,
                     session |-> s, revision |-> r, life |-> changes + 2])
    /\ UNCHANGED text

Next ==
    \/ \E n \in Names : Address(n)
    \/ Resolve \/ Read \/ DropCursor
    \/ \E p \in Panes :
          \/ Start(p) \/ Replace(p) \/ Leave(p) \/ Forget(p) \/ Session(p) \/ Revise(p)
          \/ \E n \in Names : Name(p, n)
          \/ WriteMore(p) \/ RedrawEnd(p) \/ RedrawAbove(p) \/ Repeat(p)

Spec == Init /\ [][Next]_vars

-----------------------------------------------------------------------------
(* Properties.                                                             *)

Answers == [output : Seq(Nat), truncated : BOOLEAN, delta : BOOLEAN]

\* Every variable has its type; a cursor keeps no more than the end of a screen.
TypeOK ==
    /\ \A p \in Panes : agent[p] = Nobody \/ (agent[p] \in Agents /\ agent[p].pane = p)
    /\ text \in [Panes -> Seq(Nat)]
    /\ {changes, writes} \subseteq Nat
    /\ plain \in BOOLEAN
    /\ route.version \in {1, 2} /\ route.made \in Agents
    /\ cursor # Nobody => /\ Len(cursor.hash) <= Lines
                          /\ Len(cursor.tail) <= TailLen
                          /\ EndsWith(cursor.hash, cursor.tail)
    /\ found # Nobody => found \in Agents
    /\ said # Nobody => said \in Answers /\ Len(said.output) <= MaxGlyphs

\* b continues a: the same session, or, as long as none is known, the process.
SameAgent(a, b) ==
    IF a.session # 0 THEN b.session = a.session ELSE b.life = a.life

\* No session and no revision is known of the agent.
Untold(a) == a.session = 0 /\ a.revision = 0

\* The token leads to the agent it was made for, in whatever pane it is now, or
\* to one that was given the same registered name in the same pane; an older
\* token only to the first.
LeadsHome(r, a) ==
    \/ SameAgent(r.made, a)
    \/ r.version = 2 /\ r.made.name = a.name /\ a.name # Nobody /\ r.made.pane = a.pane

\* A route leads to no other agent than it should ("does not silently reuse a
\* stale pane occupant", docs/ssh-and-routing.md:75), save when Herdr told neither
\* session nor revision of the one it was made for and tells neither of the
\* other, which sits in the same pane and is addressed in the same way: there
\* the code does reuse it.
RouteKeepsItsAgent ==
    [][Resolve => \/ LeadsHome(route, found')
                  \/ Untold(route.made) /\ Identity(found') = Identity(route.made)]_vars

\* The earlier screen and the answer put together end as the screen does, by
\* as much as the overlap that is asked for; an empty delta means that the
\* earlier screen is still there in full; and when text was only added or
\* redrawn at its end, nothing on the screen is missing.  The two screens are
\* one agent's, unless it was replaced between the two calls of a read, or
\* neither session nor revision was told of it.
AnswerCompletesScreen ==
    [][Read /\ said' # Nobody /\ ~said'.truncated =>
        LET screen == cursor'.hash
            new == said'.output
        IN IF ~said'.delta THEN new = screen
           ELSE LET known == cursor.hash \o new
                    agreed == Len(new) + Min({MinOverlap, Len(cursor.hash)})
                IN /\ Nobody \notin {cursor.of, cursor'.of} /\ ~Untold(cursor.of) =>
                         SameAgent(cursor.of, cursor'.of)
                   /\ EndsWith(screen, Last(known, agreed))
                   /\ new = <<>> => EndsWith(screen, cursor.hash)
                   /\ plain => EndsWith(known, screen)]_vars
=============================================================================
