------------------------ MODULE MessengerPopup_proofs ------------------------
(***************************************************************************)
(* Proofs about MessengerPopup: the type invariant, that no tick stays on  *)
(* an agent that is not on offer, that a recipient gets one prompt for     *)
(* each tick and each result an exception lost, and that a direct send     *)
(* unticks only recipients that have, or may have, the prompt.  The        *)
(* inductive invariant says that the agents a job works for are out of the *)
(* reach of any discovery at work (their hosts are not pending), and how   *)
(* far each of them can have been prompted at each stage of the job.       *)
(***************************************************************************)
EXTENDS MessengerPopup, TLAPS

Untouched == {"query", "ready", "sending", "failed", "skipped"}
Reached == {"accepted", "success", "unknown", "raised"}

\* A host that is being probed lists stale agents only.
PendingIsStale == \A x \in Agents : HostOf[x] \in pending => shown[x] # "fresh"

\* A job runs in the editor, for agents no discovery touches.
JobIsApart ==
    Sending => /\ screen = "edit"
               /\ \A x \in Agents : outcome[x] # "none" =>
                     shown[x] = "fresh" /\ HostOf[x] \notin pending

\* Whom a job works for: the coordinator, or exactly the ticked agents.
JobIsFor ==
    Sending =>
       IF mode = "delegate" THEN \A x \in Agents : outcome[x] = "none"
       ELSE /\ outcome[Sender] = "none"
            /\ \A x \in Agents : outcome[x] # "none" <=> x \in selected

\* How far the prompts of a job are at its stages.
Stages ==
    /\ job \in {"verify", "dispatch"} => verdict = ""
    /\ job = "verify" => \A p \in Everyone : outcome[p] \in {"none", "query"}
    /\ Sending /\ ~cancel => \A p \in Everyone : outcome[p] # "skipped"
    /\ job = "done" =>
          /\ verdict \in {"ok", "gone", "error"}
          /\ \A p \in Everyone : outcome[p] \notin {"ready", "sending", "accepted"}
          /\ verdict = "ok" => \A p \in Everyone :
                /\ outcome[p] # "raised"
                /\ ~aborted => outcome[p] \notin {"query", "skipped"}
          /\ verdict = "gone" => \A p \in Everyone : outcome[p] \in {"none", "query"}

\* Every prompt the recipient has, or may yet get from a command nobody
\* watches, is one whose result was lost.
Covered(p) == got[p] + stray[p] <= lost[p]

\* Whom the job, unless it failed and lost its results, has not reached.
Unprompted(p) == Sending /\ verdict # "error" => outcome[p] \notin Reached

Counts ==
    /\ \A p \in Everyone : got[p] + stray[p] <= 1 + lost[p]
    /\ Sending => \A p \in Everyone : outcome[p] \in Untouched => Covered(p)
    /\ screen # "closed" => \A x \in selected : Unprompted(x) => Covered(x)
    /\ screen # "closed" /\ selected # {} => (Unprompted(Sender) => Covered(Sender))

\* A job in which an exception has come up, but has not ended it yet.
Raising(p) == Sending /\ verdict # "error" /\ outcome[p] = "raised"

\* A command goes unwatched only when the result of its prompt is lost.
Strays ==
    /\ \A p \in Everyone : IF Raising(p) THEN stray[p] <= lost[p] + 1
                                         ELSE stray[p] <= lost[p]
    /\ (\E p \in Everyone : Raising(p)) => MayRaise

IInv ==
    /\ TypeOK
    /\ TicksAreOffered
    /\ PendingIsStale
    /\ JobIsApart
    /\ JobIsFor
    /\ Stages
    /\ Counts
    /\ Strays

-----------------------------------------------------------------------------
(* The type invariant in three parts: screen, list and job.                *)

ScreenTypes ==
    /\ screen \in {"discovery", "mode", "edit", "closed"}
    /\ returning \in BOOLEAN /\ remote \in BOOLEAN
    /\ mode \in {"delegate", "direct"}

ListTypes ==
    /\ shown \in [Agents -> {"none", "stale", "fresh"}]
    /\ selected \subseteq Agents
    /\ cache \in [Hosts -> Entries]
    /\ discovery \in {"off", "on", "late"}
    /\ pending \subseteq Hosts
    /\ answer \in [Hosts -> Answers]
    /\ starts \in 0 .. MaxStarts

JobTypes ==
    /\ job \in {"off", "verify", "dispatch", "done"}
    /\ verdict \in {"", "ok", "gone", "error"}
    /\ cancel \in BOOLEAN /\ aborted \in BOOLEAN
    /\ outcome \in [Everyone -> Outcomes]
    /\ stray \in [Everyone -> 0 .. MaxLost]
    /\ got \in [Everyone -> 0 .. MaxLost + 2]
    /\ lost \in [Everyone -> 0 .. MaxLost]

LEMMA Parts == TypeOK <=> ScreenTypes /\ ListTypes /\ JobTypes
  BY Zenon DEF TypeOK, ScreenTypes, ListTypes, JobTypes

LEMMA PartsNext == TypeOK' <=> ScreenTypes' /\ ListTypes' /\ JobTypes'
  BY Parts, PTL

LEMMA ScreenStays ==
  ASSUME ScreenTypes, UNCHANGED screenVars, UNCHANGED remote
  PROVE  ScreenTypes'
BY DEF ScreenTypes, screenVars

LEMMA ListStays == ASSUME ListTypes, UNCHANGED listVars PROVE ListTypes'
BY DEF ListTypes, listVars

LEMMA JobStays ==
  ASSUME JobTypes, UNCHANGED jobVars, UNCHANGED tallies PROVE JobTypes'
BY DEF JobTypes, jobVars, tallies

\* The tallies are numbers.
LEMMA Numbers ==
  ASSUME IInv
  PROVE  /\ MaxLost \in Nat
         /\ \A p \in Everyone : /\ got[p] \in Nat /\ stray[p] \in Nat /\ lost[p] \in Nat
                                /\ stray[p] <= MaxLost /\ lost[p] <= MaxLost
                                /\ got[p] <= MaxLost + 2
<1>1. MaxLost \in Nat BY PopupAssumption
<1>2. /\ stray \in [Everyone -> 0 .. MaxLost] /\ lost \in [Everyone -> 0 .. MaxLost]
      /\ got \in [Everyone -> 0 .. MaxLost + 2]
  BY DEF IInv, TypeOK
<1>3. /\ \A n \in 0 .. MaxLost : n \in Nat /\ n <= MaxLost
      /\ \A n \in 0 .. MaxLost + 2 : n \in Nat /\ n <= MaxLost + 2
  BY <1>1
<1>4. \A p \in Everyone : /\ got[p] \in 0 .. MaxLost + 2
                          /\ stray[p] \in 0 .. MaxLost /\ lost[p] \in 0 .. MaxLost
  BY <1>2
<1>. QED BY <1>1, <1>3, <1>4

-----------------------------------------------------------------------------
LEMMA InitIInv == Init => IInv
<1>. SUFFICES ASSUME Init PROVE IInv OBVIOUS
<1>a. /\ selected = {} /\ pending = {} /\ job = "off"
      /\ outcome = [p \in Everyone |-> "none"]
      /\ got = [p \in Everyone |-> 0] /\ stray = got /\ lost = got
      /\ answer = [h \in Hosts |-> NoAnswer]
      /\ starts = 0
  BY DEF Init
<1>1. TypeOK
  <2>1. shown \in [Agents -> {"none", "stale", "fresh"}]
    BY DEF Init
  <2>2. answer \in [Hosts -> Answers]
    BY <1>a DEF NoAnswer, Answers
  <2>3. starts \in 0 .. MaxStarts
    BY <1>a, PopupAssumption
  <2>4. outcome \in [Everyone -> Outcomes]
    BY <1>a DEF Outcomes
  <2>5. got \in [Everyone -> 0 .. MaxLost + 2] /\ lost \in [Everyone -> 0 .. MaxLost]
    BY <1>a, PopupAssumption
  <2>. QED BY <2>1, <2>2, <2>3, <2>4, <2>5 DEF TypeOK, Init
<1>2. TicksAreOffered /\ PendingIsStale
  BY <1>a DEF TicksAreOffered, PendingIsStale
<1>3. JobIsApart /\ JobIsFor /\ Stages
  BY <1>a DEF JobIsApart, JobIsFor, Stages, Sending
<1>4. Counts /\ Strays
  BY <1>a DEF Counts, Strays, Covered, Raising, Sending
<1>. QED BY <1>1, <1>2, <1>3, <1>4 DEF IInv

LEMMA StutterKeeps == IInv /\ UNCHANGED vars => IInv'
<1>. SUFFICES ASSUME IInv, UNCHANGED vars PROVE IInv' OBVIOUS
<1>a. /\ UNCHANGED <<screen, returning, mode, remote, shown, selected>>
      /\ UNCHANGED <<cache, discovery, pending, answer, starts>>
      /\ UNCHANGED <<job, verdict, cancel, aborted, outcome, stray, got, lost>>
  BY DEF vars
<1>b. /\ TypeOK /\ TicksAreOffered /\ PendingIsStale
      /\ JobIsApart /\ JobIsFor /\ Stages /\ Counts /\ Strays
  BY DEF IInv
<1>1. TypeOK'
  <2>1. ScreenTypes' BY <1>a, <1>b, Parts, ScreenStays DEF screenVars
  <2>2. ListTypes' BY <1>a, <1>b, Parts, ListStays DEF listVars
  <2>3. JobTypes' BY <1>a, <1>b, Parts, JobStays DEF jobVars, tallies
  <2>. QED BY <2>1, <2>2, <2>3, PartsNext
<1>2. TicksAreOffered' /\ PendingIsStale' BY <1>a, <1>b DEF TicksAreOffered, PendingIsStale
<1>3. JobIsApart' /\ JobIsFor' BY <1>a, <1>b DEF JobIsApart, JobIsFor, Sending
<1>4. Stages' BY <1>a, <1>b DEF Stages, Sending
<1>5. Counts' BY <1>a, <1>b DEF Counts, Unprompted, Covered, Sending
<1>6. Strays' BY <1>a, <1>b DEF Strays, Raising, MayRaise, Sending
<1>. QED BY <1>1, <1>2, <1>3, <1>4, <1>5, <1>6 DEF IInv

-----------------------------------------------------------------------------
(* Changes of the list.                                                    *)

\* What replacing a part of the list does.
LEMMA Replacing ==
  ASSUME IInv, NEW hs, NEW listed, NEW fresh, Replace(hs, listed, fresh)
  PROVE  /\ shown' \in [Agents -> {"none", "stale", "fresh"}]
         /\ selected' \subseteq selected
         /\ TicksAreOffered'
         /\ \A x \in Agents : HostOf[x] \notin hs =>
               /\ shown'[x] = shown[x]
               /\ x \in selected' <=> x \in selected
         /\ \A x \in Agents : HostOf[x] \in hs /\ shown'[x] = "fresh" => x \in fresh
<1>1. \A x \in Agents : shown'[x] \in {"none", "stale", "fresh"}
  BY DEF IInv, TypeOK, Replace, Relisted
<1>2. shown' \in [Agents -> {"none", "stale", "fresh"}]
  BY <1>1 DEF Replace, Relisted
<1>3. selected' \subseteq selected
  BY DEF Replace, Ticked
<1>4. TicksAreOffered'
  BY DEF IInv, TypeOK, Replace, Relisted, Ticked, TicksAreOffered
<1>5. \A x \in Agents : HostOf[x] \notin hs =>
               /\ shown'[x] = shown[x]
               /\ x \in selected' <=> x \in selected
  BY DEF Replace, Relisted, Ticked
<1>6. \A x \in Agents : HostOf[x] \in hs /\ shown'[x] = "fresh" => x \in fresh
  BY DEF Replace, Relisted
<1>. QED BY <1>2, <1>3, <1>4, <1>5, <1>6

\* A step that leaves the job alone and takes ticks away at most.
LEMMA JobUntouched ==
  ASSUME IInv, UNCHANGED jobVars, UNCHANGED tallies, mode' = mode \/ ~Sending,
         selected' \subseteq selected,
         screen' = screen \/ ~Sending, screen = "closed" => screen' = "closed",
         Sending => \A x \in Agents : HostOf[x] \notin pending =>
                      /\ shown'[x] = shown[x]
                      /\ x \in selected' <=> x \in selected
                      /\ HostOf[x] \notin pending'
  PROVE  JobIsApart' /\ JobIsFor' /\ Stages' /\ Counts' /\ Strays'
<1>. USE DEF IInv, jobVars
<1>1. JobIsApart' BY DEF JobIsApart, Sending
<1>2. JobIsFor'
  <2>. SUFFICES ASSUME Sending' PROVE JobIsFor' BY DEF JobIsFor
  <2>1. Sending BY DEF Sending
  <2>2. \A x \in Agents : outcome[x] # "none" => HostOf[x] \notin pending
    BY <2>1 DEF JobIsApart
  <2>3. QED BY <2>1, <2>2 DEF JobIsFor, TypeOK
<1>3. Stages' BY DEF Stages, Sending
<1>4. Counts' BY DEF Counts, Unprompted, Covered, Sending, tallies
<1>5. Strays' BY DEF Strays, Raising, MayRaise, Sending, tallies
<1>. QED BY <1>1, <1>2, <1>3, <1>4, <1>5

-----------------------------------------------------------------------------
(* Steps that leave the job alone.                                         *)

LEMMA CacheExpiresKeeps ==
  ASSUME IInv, NEW h \in Hosts, CacheExpires(h) PROVE IInv'
<1>1. ScreenTypes'
  BY Parts, ScreenStays DEF IInv, CacheExpires
<1>2. ListTypes'
  <2>1. cache' \in [Hosts -> Entries]
    BY DEF IInv, TypeOK, CacheExpires, Entries
  <2>. QED BY <2>1, Parts DEF IInv, ListTypes, CacheExpires
<1>3. JobTypes'
  BY Parts, JobStays DEF IInv, CacheExpires
<1>4. TicksAreOffered' /\ PendingIsStale'
  BY DEF IInv, CacheExpires, TicksAreOffered, PendingIsStale
<1>5. JobIsApart' /\ JobIsFor' /\ Stages' /\ Counts' /\ Strays'
  BY JobUntouched DEF CacheExpires, screenVars
<1>. QED BY <1>1, <1>2, <1>3, <1>4, <1>5, PartsNext DEF IInv

LEMMA ProbeAnswersKeeps ==
  ASSUME IInv, NEW h \in Hosts, ProbeAnswers(h) PROVE IInv'
<1>1. ScreenTypes'
  BY Parts, ScreenStays DEF IInv, ProbeAnswers
<1>2. ListTypes'
  <2>1. answer' \in [Hosts -> Answers]
    <3>1. PICK ok \in BOOLEAN, found \in SUBSET On(h) :
            answer' = [answer EXCEPT ![h] =
               [ok |-> ok, agents |-> IF ok THEN found ELSE {}, come |-> TRUE]]
      BY DEF ProbeAnswers
    <3>2. [ok |-> ok, agents |-> IF ok THEN found ELSE {}, come |-> TRUE] \in Answers
      BY <3>1 DEF Answers, On
    <3>. QED BY <3>1, <3>2 DEF IInv, TypeOK
  <2>. QED BY <2>1, Parts DEF IInv, ListTypes, ProbeAnswers
<1>3. JobTypes'
  BY Parts, JobStays DEF IInv, ProbeAnswers
<1>4. TicksAreOffered' /\ PendingIsStale'
  BY DEF IInv, ProbeAnswers, TicksAreOffered, PendingIsStale
<1>5. JobIsApart' /\ JobIsFor' /\ Stages' /\ Counts' /\ Strays'
  BY JobUntouched DEF ProbeAnswers, screenVars
<1>. QED BY <1>1, <1>2, <1>3, <1>4, <1>5, PartsNext DEF IInv

LEMMA DeadlinePassesKeeps == ASSUME IInv, DeadlinePasses PROVE IInv'
<1>1. ScreenTypes'
  BY Parts, ScreenStays DEF IInv, DeadlinePasses
<1>2. ListTypes'
  BY Parts DEF IInv, ListTypes, DeadlinePasses
<1>3. JobTypes'
  BY Parts, JobStays DEF IInv, DeadlinePasses
<1>4. TicksAreOffered' /\ PendingIsStale'
  BY DEF IInv, DeadlinePasses, TicksAreOffered, PendingIsStale
<1>5. JobIsApart' /\ JobIsFor' /\ Stages' /\ Counts' /\ Strays'
  BY JobUntouched DEF DeadlinePasses, screenVars
<1>. QED BY <1>1, <1>2, <1>3, <1>4, <1>5, PartsNext DEF IInv

LEMMA PollDiscoveryKeeps == ASSUME IInv, PollDiscovery PROVE IInv'
<1>. DEFINE come == {h \in pending : answer[h].come}
            left == pending \ come
            silent == IF Due(come) THEN left ELSE {}
            well == {h \in come : answer[h].ok}
            listed == UNION {answer[h].agents : h \in well}
                      \cup {x \in Agents : HostOf[x] \in come \ well
                                             /\ x \in cache[HostOf[x]].agents}
<1>a. /\ Replace(come, listed, UNION {answer[h].agents : h \in well})
      /\ cache' = [h \in Hosts |->
                 IF h \in come \cup silent
                 THEN Updated(cache[h], IF h \in come THEN answer[h] ELSE NoAnswer)
                 ELSE cache[h]]
      /\ pending' = left \ silent
      /\ discovery' \in {"off", discovery}
      /\ answer' = [h \in Hosts |-> NoAnswer]
      /\ UNCHANGED <<starts, remote, tallies>>
      /\ UNCHANGED screenVars /\ UNCHANGED jobVars
  BY DEF PollDiscovery
<1>b. /\ shown' \in [Agents -> {"none", "stale", "fresh"}]
      /\ selected' \subseteq selected
      /\ TicksAreOffered'
      /\ \A x \in Agents : HostOf[x] \notin come =>
            /\ shown'[x] = shown[x]
            /\ x \in selected' <=> x \in selected
  <2>. HIDE DEF come, left, silent, well, listed
  <2>. QED BY <1>a, Replacing
<1>c. come \subseteq pending /\ pending' \subseteq pending /\ pending' \cap come = {}
  BY <1>a
<1>1. ScreenTypes'
  BY <1>a, Parts, ScreenStays DEF IInv
<1>2. ListTypes'
  <2>1. cache' \in [Hosts -> Entries]
    <3>. SUFFICES ASSUME NEW h \in Hosts PROVE cache'[h] \in Entries
      BY <1>a
    <3>1. cache[h] \in Entries /\ answer[h] \in Answers /\ NoAnswer \in Answers
      BY DEF IInv, TypeOK, NoAnswer, Answers
    <3>2. \A f \in Answers : Updated(cache[h], f) \in Entries
      BY <3>1 DEF Updated, Entries, Answers
    <3>3. cache'[h] \in {cache[h], Updated(cache[h], answer[h]), Updated(cache[h], NoAnswer)}
      BY <1>a
    <3>. QED BY <3>1, <3>2, <3>3
  <2>2. answer' \in [Hosts -> Answers]
    BY <1>a DEF NoAnswer, Answers
  <2>3. selected' \subseteq Agents /\ pending' \subseteq Hosts
    BY <1>b, <1>c DEF IInv, TypeOK
  <2>4. discovery' \in {"off", "on", "late"} /\ starts' \in 0 .. MaxStarts
    BY <1>a DEF IInv, TypeOK
  <2>. HIDE DEF come, left, silent, well, listed
  <2>. QED BY <2>1, <2>2, <2>3, <2>4, <1>b DEF ListTypes
<1>. HIDE DEF come, left, silent, well, listed
<1>3. JobTypes'
  BY <1>a, Parts, JobStays DEF IInv
<1>4. PendingIsStale'
  BY <1>b, <1>c DEF IInv, PendingIsStale
<1>5. JobIsApart' /\ JobIsFor' /\ Stages' /\ Counts' /\ Strays'
  BY <1>a, <1>b, <1>c, JobUntouched DEF screenVars
<1>. QED BY <1>1, <1>2, <1>3, <1>4, <1>5, <1>b, PartsNext DEF IInv

\* Starting a discovery, which happens outside a job only.
LEMMA Starting ==
  ASSUME IInv, NEW force \in BOOLEAN, NEW locals \in SUBSET On(Local),
         StartDiscovery(force, locals)
  PROVE  /\ ListTypes' /\ TicksAreOffered' /\ PendingIsStale'
         /\ selected' \subseteq selected /\ remote' = TRUE
<1>. DEFINE probed == {h \in Hosts : force \/ ~cache[h].fresh}
            scope == Hosts \cup (IF force THEN {Local} ELSE {})
            listed == locals \cup {x \in Agents : HostOf[x] \in Hosts
                                                    /\ x \in cache[HostOf[x]].agents}
            fresh == locals \cup {x \in listed : HostOf[x] \in Hosts \ probed
                                                   /\ cache[HostOf[x]].ok}
<1>a. /\ starts < MaxStarts /\ starts' = starts + 1
      /\ Replace(scope, listed, fresh)
      /\ remote' = TRUE
      /\ pending' = probed
      /\ discovery' \in {"off", "on"}
      /\ answer' = [h \in Hosts |-> NoAnswer]
      /\ UNCHANGED cache
  BY DEF StartDiscovery
<1>b. /\ shown' \in [Agents -> {"none", "stale", "fresh"}]
      /\ selected' \subseteq selected
      /\ TicksAreOffered'
      /\ \A x \in Agents : HostOf[x] \in scope /\ shown'[x] = "fresh" => x \in fresh
  <2>. HIDE DEF scope, listed, fresh
  <2>. QED BY <1>a, Replacing
<1>c. /\ probed \subseteq Hosts /\ Hosts \subseteq scope
      /\ \A x \in fresh : HostOf[x] \notin probed
  <2>1. \A x \in locals : HostOf[x] \notin Hosts
    BY PopupAssumption DEF On
  <2>. QED BY <2>1
<1>1. PendingIsStale'
  <2>. HIDE DEF probed, scope, listed, fresh
  <2>. QED BY <1>a, <1>b, <1>c DEF PendingIsStale
<1>2. ListTypes'
  <2>1. answer' \in [Hosts -> Answers]
    BY <1>a DEF NoAnswer, Answers
  <2>2. starts' \in 0 .. MaxStarts
    <3>1. starts \in 0 .. MaxStarts /\ MaxStarts \in Nat
      BY PopupAssumption DEF IInv, TypeOK
    <3>. HIDE DEF probed, scope, listed, fresh
    <3>2. starts < MaxStarts /\ starts' = starts + 1
      BY <1>a
    <3>. QED BY <3>1, <3>2
  <2>3. selected' \subseteq Agents /\ cache' \in [Hosts -> Entries]
    BY <1>a, <1>b DEF IInv, TypeOK
  <2>. HIDE DEF probed, scope, listed, fresh
  <2>. QED BY <2>1, <2>2, <2>3, <1>a, <1>b, <1>c DEF ListTypes
<1>. QED BY <1>1, <1>2, <1>a, <1>b

\* A discovery that is stopped leaves nothing behind.
LEMMA Stopping ==
  ASSUME IInv, StopDiscovery
  PROVE  /\ cache' \in [Hosts -> Entries] /\ discovery' = "off" /\ pending' = {}
         /\ answer' \in [Hosts -> Answers] /\ starts' \in 0 .. MaxStarts
         /\ PendingIsStale'
BY DEF IInv, TypeOK, StopDiscovery, NoAnswer, Answers, PendingIsStale

LEMMA ChooseRemoteKeeps == ASSUME IInv, ChooseRemote PROVE IInv'
<1>a. /\ screen = "discovery" /\ screen' = "mode" /\ StartDiscovery(FALSE, {})
      /\ UNCHANGED <<returning, mode, tallies>> /\ UNCHANGED jobVars
  BY DEF ChooseRemote
<1>b. ~Sending BY <1>a DEF IInv, JobIsApart
<1>c. /\ ListTypes' /\ TicksAreOffered' /\ PendingIsStale'
      /\ selected' \subseteq selected /\ remote' = TRUE
  <2>1. FALSE \in BOOLEAN /\ {} \in SUBSET On(Local) OBVIOUS
  <2>. QED BY <1>a, <2>1, Starting
<1>1. ScreenTypes' BY <1>a, <1>c DEF IInv, TypeOK, ScreenTypes
<1>2. JobTypes' BY <1>a, Parts, JobStays DEF IInv
<1>3. JobIsApart' /\ JobIsFor' /\ Stages' /\ Counts' /\ Strays'
  BY <1>a, <1>b, <1>c, JobUntouched
<1>. QED BY <1>1, <1>2, <1>3, <1>c, PartsNext DEF IInv

LEMMA ChooseLocalKeeps == ASSUME IInv, ChooseLocal PROVE IInv'
<1>a. /\ screen = "discovery" /\ screen' = "mode" /\ StopDiscovery /\ remote' = FALSE
      /\ shown' = [x \in Agents |-> IF HostOf[x] = Local THEN shown[x] ELSE "none"]
      /\ selected' = {x \in selected : HostOf[x] # Local => shown[x] = "none"}
      /\ UNCHANGED <<returning, mode, tallies>> /\ UNCHANGED jobVars
  BY DEF ChooseLocal
<1>b. ~Sending BY <1>a DEF IInv, JobIsApart
<1>c. /\ shown' \in [Agents -> {"none", "stale", "fresh"}]
      /\ selected' \subseteq selected /\ selected' \subseteq Agents
  BY <1>a DEF IInv, TypeOK
<1>1. TicksAreOffered' BY <1>a DEF IInv, TypeOK, TicksAreOffered
<1>2. ScreenTypes' BY <1>a DEF IInv, TypeOK, ScreenTypes
<1>3. ListTypes' BY <1>a, <1>c, Stopping DEF ListTypes
<1>4. JobTypes' BY <1>a, Parts, JobStays DEF IInv
<1>5. JobIsApart' /\ JobIsFor' /\ Stages' /\ Counts' /\ Strays'
  BY <1>a, <1>b, <1>c, JobUntouched
<1>6. PendingIsStale' BY <1>a, Stopping
<1>. QED BY <1>1, <1>2, <1>3, <1>4, <1>5, <1>6, PartsNext DEF IInv

\* The steps that move between the screens and leave the list alone.
LEMMA ScreenMoves ==
  ASSUME IInv, ~Sending, screen' \in {"discovery", "mode", "edit", "closed"},
         screen = "closed" => screen' = "closed",
         returning' \in BOOLEAN, mode' \in {"delegate", "direct"},
         UNCHANGED remote, UNCHANGED tallies, UNCHANGED listVars, UNCHANGED jobVars
  PROVE  IInv'
<1>1. ScreenTypes' BY DEF IInv, TypeOK, ScreenTypes
<1>2. ListTypes' BY Parts, ListStays DEF IInv
<1>3. JobTypes' BY Parts, JobStays DEF IInv
<1>4. TicksAreOffered' /\ PendingIsStale'
  BY DEF IInv, listVars, TicksAreOffered, PendingIsStale
<1>5. JobIsApart' /\ JobIsFor' /\ Stages' /\ Counts' /\ Strays'
  <2>1. selected' \subseteq selected BY DEF listVars
  <2>. QED BY <2>1, JobUntouched
<1>. QED BY <1>1, <1>2, <1>3, <1>4, <1>5, PartsNext DEF IInv

LEMMA MovesKeep ==
  ASSUME IInv, \/ \E m \in {"delegate", "direct"} : ChooseMode(m)
               \/ LeaveMode \/ ReopenMode \/ OpenGuide
  PROVE  IInv'
<1>t. /\ returning \in BOOLEAN /\ mode \in {"delegate", "direct"}
      /\ Sending => screen = "edit"
  BY DEF IInv, TypeOK, JobIsApart
<1>1. CASE \E m \in {"delegate", "direct"} : ChooseMode(m)
  BY <1>1, <1>t, ScreenMoves DEF ChooseMode
<1>2. CASE LeaveMode
  BY <1>2, <1>t, ScreenMoves DEF LeaveMode
<1>3. CASE ReopenMode
  BY <1>3, <1>t, ScreenMoves DEF ReopenMode, Editing
<1>4. CASE OpenGuide
  BY <1>4, <1>t, ScreenMoves DEF OpenGuide
<1>. QED BY <1>1, <1>2, <1>3, <1>4

LEMMA TickKeeps == ASSUME IInv, Tick PROVE IInv'
<1>. DEFINE offered == {x \in Agents \ selected : shown[x] = "fresh"}
<1>1. PICK new \in {{x} : x \in offered} \cup {offered} : Ticks(new)
  BY DEF Tick
<1>. DEFINE asked == new \cup (IF new = {} THEN {} ELSE {Sender})
<1>a. /\ UNCHANGED <<shown, cache, discovery, pending, answer, starts, remote>>
      /\ UNCHANGED screenVars /\ UNCHANGED jobVars /\ ~Sending
      /\ selected' = selected \cup new
      /\ got' = [p \in Everyone |-> IF p \in asked THEN 0 ELSE got[p]]
      /\ lost' = [p \in Everyone |-> IF p \in asked THEN stray[p] ELSE lost[p]]
      /\ stray' = stray
  BY <1>1 DEF Tick, Ticks, Editing
<1>b. new \subseteq Agents /\ \A x \in new : shown[x] = "fresh"
  BY <1>1
<1>c. \A p \in Everyone :
        IF p \in asked THEN got'[p] = 0 /\ lost'[p] = stray[p]
        ELSE got'[p] = got[p] /\ lost'[p] = lost[p]
  BY <1>a
<1>d. /\ asked \subseteq Everyone /\ new \subseteq asked
      /\ new # {} => Sender \in asked
  BY <1>b DEF Everyone
<1>. HIDE DEF offered, asked
<1>2. ScreenTypes' BY <1>a, Parts, ScreenStays DEF IInv
<1>3. ListTypes' BY <1>a, <1>b, Parts DEF IInv, ListTypes
<1>4. JobTypes'
  <2>1. got' \in [Everyone -> 0 .. MaxLost + 2]
    <3>1. \A p \in Everyone : got'[p] \in 0 .. MaxLost + 2
      BY <1>c, Numbers
    <3>. QED BY <3>1, <1>a
  <2>2. lost' \in [Everyone -> 0 .. MaxLost]
    <3>1. \A p \in Everyone : lost'[p] \in 0 .. MaxLost
      BY <1>c, Numbers
    <3>. QED BY <3>1, <1>a
  <2>. QED BY <2>1, <2>2, <1>a, Parts DEF IInv, JobTypes, jobVars
<1>5. TicksAreOffered' /\ PendingIsStale'
  BY <1>a, <1>b DEF IInv, TicksAreOffered, PendingIsStale
<1>6. JobIsApart' /\ JobIsFor' /\ Stages'
  BY <1>a DEF IInv, JobIsApart, JobIsFor, Stages, Sending, jobVars
<1>e. ~Sending' /\ screen' = screen BY <1>a DEF Sending, jobVars, screenVars
<1>7. Counts'
  <2>1. \A p \in asked : Covered(p)'
    BY <1>a, <1>c, <1>d, Numbers DEF Covered
  <2>2. \A p \in Everyone \ asked : Covered(p) => Covered(p)'
    BY <1>a, <1>c DEF Covered
  <2>3. \A p \in Everyone : got'[p] + stray'[p] <= 1 + lost'[p]
    BY <1>a, <1>c, Numbers DEF IInv, Counts
  <2>4. \A x \in selected' : x \in Everyone /\ (x \in asked \/ x \in selected)
    BY <1>3, <1>a, <1>d DEF ListTypes, Everyone
  <2>5. screen # "closed" => \A x \in selected : Covered(x)
    BY <1>a DEF IInv, Counts, Unprompted
  <2>6. screen # "closed" /\ selected # {} => Covered(Sender)
    BY <1>a DEF IInv, Counts, Unprompted
  <2>7. Sender \in Everyone /\ (selected' # {} => selected # {} \/ Sender \in asked)
    BY <1>a, <1>d DEF Everyone
  <2>. QED BY <1>e, <2>1, <2>2, <2>3, <2>4, <2>5, <2>6, <2>7 DEF Counts
<1>8. Strays'
  <2>1. \A p \in Everyone : ~Raising(p)' BY <1>e DEF Raising
  <2>2. \A p \in Everyone : stray[p] <= lost[p] BY <1>a DEF IInv, Strays, Raising
  <2>3. \A p \in Everyone : stray'[p] <= lost'[p]
    BY <1>a, <1>c, <2>2, Numbers
  <2>. QED BY <2>1, <2>3, Numbers, <1>a, <1>c DEF Strays
<1>. QED BY <1>2, <1>3, <1>4, <1>5, <1>6, <1>7, <1>8, PartsNext DEF IInv

LEMMA UntickKeeps == ASSUME IInv, Untick PROVE IInv'
<1>a. /\ UNCHANGED <<shown, cache, discovery, pending, answer, starts, remote, tallies>>
      /\ UNCHANGED screenVars /\ UNCHANGED jobVars /\ ~Sending
      /\ selected' \subseteq selected
  BY DEF Untick, Editing
<1>1. ScreenTypes' BY <1>a, Parts, ScreenStays DEF IInv
<1>2. ListTypes' BY <1>a, Parts DEF IInv, ListTypes
<1>3. JobTypes' BY <1>a, Parts, JobStays DEF IInv
<1>4. TicksAreOffered' /\ PendingIsStale'
  BY <1>a DEF IInv, TicksAreOffered, PendingIsStale
<1>5. JobIsApart' /\ JobIsFor' /\ Stages' /\ Counts' /\ Strays'
  BY <1>a, JobUntouched DEF screenVars
<1>. QED BY <1>1, <1>2, <1>3, <1>4, <1>5, PartsNext DEF IInv

LEMMA RefreshKeeps == ASSUME IInv, Refresh PROVE IInv'
<1>a. /\ UNCHANGED tallies /\ UNCHANGED screenVars /\ UNCHANGED jobVars /\ ~Sending
  BY DEF Refresh, Editing
<1>b. PICK locals \in SUBSET On(Local) :
          IF remote THEN StartDiscovery(TRUE, locals)
          ELSE /\ Replace({Local}, locals, locals)
               /\ UNCHANGED <<remote, cache, discovery, pending, answer, starts>>
  BY DEF Refresh
<1>1. /\ ListTypes' /\ TicksAreOffered' /\ PendingIsStale'
      /\ selected' \subseteq selected /\ remote' = remote
  <2>1. CASE remote
    <3>1. TRUE \in BOOLEAN /\ StartDiscovery(TRUE, locals)
      BY <1>b, <2>1
    <3>2. remote = TRUE BY <2>1 DEF IInv, TypeOK
    <3>. QED BY <3>1, <3>2, Starting
  <2>2. CASE ~remote
    <3>1. /\ Replace({Local}, locals, locals)
          /\ UNCHANGED <<remote, cache, discovery, pending, answer, starts>>
      BY <1>b, <2>2
    <3>2. /\ shown' \in [Agents -> {"none", "stale", "fresh"}]
          /\ selected' \subseteq selected /\ TicksAreOffered'
          /\ \A x \in Agents : HostOf[x] \notin {Local} => shown'[x] = shown[x]
      BY <3>1, Replacing
    <3>3. PendingIsStale'
      BY <3>1, <3>2, PopupAssumption DEF IInv, TypeOK, PendingIsStale
    <3>4. ListTypes'
      BY <3>1, <3>2, Parts DEF IInv, ListTypes
    <3>. QED BY <3>1, <3>2, <3>3, <3>4
  <2>. QED BY <2>1, <2>2
<1>2. ScreenTypes' BY <1>a, <1>1, Parts, ScreenStays DEF IInv
<1>3. JobTypes' BY <1>a, Parts, JobStays DEF IInv
<1>4. JobIsApart' /\ JobIsFor' /\ Stages' /\ Counts' /\ Strays'
  BY <1>a, <1>1, JobUntouched DEF screenVars
<1>. QED BY <1>1, <1>2, <1>3, <1>4, PartsNext DEF IInv

LEMMA EscapeKeeps == ASSUME IInv, Escape PROVE IInv'
<1>a. /\ UNCHANGED <<returning, mode, remote, tallies>> /\ UNCHANGED jobVars /\ ~Sending
  BY DEF IInv, JobIsApart, Escape, Editing
<1>1. CASE Editing /\ discovery # "off"
  <2>1. StopDiscovery /\ UNCHANGED <<shown, selected, screen>>
    BY <1>1 DEF Escape
  <2>2. ScreenTypes' BY <1>a, <2>1, Parts, ScreenStays DEF IInv, screenVars
  <2>3. ListTypes' BY <2>1, Stopping, Parts DEF IInv, ListTypes
  <2>4. JobTypes' BY <1>a, Parts, JobStays DEF IInv
  <2>5. TicksAreOffered' /\ PendingIsStale'
    BY <2>1, Stopping DEF IInv, TicksAreOffered
  <2>6. JobIsApart' /\ JobIsFor' /\ Stages' /\ Counts' /\ Strays'
    BY <1>a, <2>1, JobUntouched
  <2>. QED BY <2>2, <2>3, <2>4, <2>5, <2>6, PartsNext DEF IInv
<1>2. CASE ~(Editing /\ discovery # "off")
  <2>1. screen' = "closed" /\ UNCHANGED listVars
    BY <1>2 DEF Escape
  <2>2. returning' \in BOOLEAN /\ mode' \in {"delegate", "direct"}
    BY <1>a DEF IInv, TypeOK
  <2>. QED BY <1>a, <2>1, <2>2, ScreenMoves
<1>. QED BY <1>1, <1>2

-----------------------------------------------------------------------------
(* Steps of the job.                                                       *)

\* A step that starts or continues a job, for the agents it was for, keeps the
\* rest of the invariant.
LEMMA JobGoesOn ==
  ASSUME IInv, Sending, job' # "off", JobKept, JobTypes', Stages', Counts', Strays',
         \A p \in Everyone : outcome'[p] = "none" <=> outcome[p] = "none"
  PROVE  IInv'
<1>1. ScreenTypes' BY Parts, ScreenStays DEF IInv, JobKept, screenVars
<1>2. ListTypes' BY Parts, ListStays DEF IInv, JobKept
<1>3. TicksAreOffered' /\ PendingIsStale'
  BY DEF IInv, JobKept, listVars, TicksAreOffered, PendingIsStale
<1>4. JobIsApart'
  BY DEF IInv, JobKept, listVars, JobIsApart, Sending, Everyone
<1>5. JobIsFor'
  <2>1. /\ mode' = mode /\ selected' = selected
        /\ Agents \subseteq Everyone /\ Sender \in Everyone
    BY DEF JobKept, listVars, Everyone
  <2>2. IF mode = "delegate" THEN \A x \in Agents : outcome[x] = "none"
        ELSE /\ outcome[Sender] = "none"
             /\ \A x \in Agents : outcome[x] # "none" <=> x \in selected
    BY DEF IInv, JobIsFor
  <2>3. CASE mode = "delegate" BY <2>1, <2>2, <2>3 DEF JobIsFor
  <2>4. CASE mode # "delegate" BY <2>1, <2>2, <2>4 DEF JobIsFor
  <2>. QED BY <2>3, <2>4
<1>. QED BY <1>1, <1>2, <1>3, <1>4, <1>5, PartsNext DEF IInv

\* Nobody is newly prompted by a step that only moves prompts on.
LEMMA CountsGoOn ==
  ASSUME IInv, Sending, job' # "off", JobKept, UNCHANGED tallies,
         \A p \in Everyone : /\ outcome'[p] \in Untouched => outcome[p] \in Untouched
                             /\ Unprompted(p)' => Unprompted(p)
                             /\ Raising(p)' <=> Raising(p)
  PROVE  Counts' /\ Strays'
<1>1. /\ got' = got /\ stray' = stray /\ lost' = lost
      /\ selected' = selected /\ screen' = screen
      /\ selected \subseteq Everyone /\ Sender \in Everyone
  BY DEF IInv, TypeOK, JobKept, listVars, Everyone, tallies
<1>2. \A p : Covered(p)' <=> Covered(p)
  BY <1>1 DEF Covered
<1>3. \A p \in Everyone : got'[p] + stray'[p] <= 1 + lost'[p]
  BY <1>1 DEF IInv, Counts
<1>4. \A p \in Everyone : outcome'[p] \in Untouched => Covered(p)'
  BY <1>2 DEF IInv, Counts
<1>5. screen' # "closed" => \A x \in selected' : Unprompted(x)' => Covered(x)'
  BY <1>1, <1>2 DEF IInv, Counts
<1>6. screen' # "closed" /\ selected' # {} => (Unprompted(Sender)' => Covered(Sender)')
  BY <1>1, <1>2 DEF IInv, Counts
<1>7. Strays' BY <1>1 DEF IInv, Strays, MayRaise
<1>. QED BY <1>3, <1>4, <1>5, <1>6, <1>7 DEF Counts

LEMMA SendKeeps == ASSUME IInv, Send PROVE IInv'
<1>. DEFINE chosen == IF mode = "direct" THEN Recipients ELSE {Sender}
<1>a. /\ screen = "edit" /\ ~Sending /\ Recipients # {}
      /\ job' = "verify" /\ verdict' = "" /\ cancel' = FALSE /\ aborted' = FALSE
      /\ outcome' = [p \in Everyone |-> IF p \in chosen THEN "query" ELSE "none"]
      /\ UNCHANGED tallies /\ JobKept
  BY DEF Send, Editing
<1>b. Recipients = selected /\ selected \subseteq Agents /\ Sender \notin Agents
  BY PopupAssumption DEF IInv, TypeOK, TicksAreOffered, Recipients
<1>c. mode \in {"direct", "delegate"} /\ UNCHANGED <<screen, mode, selected, shown, pending>>
  BY <1>a DEF IInv, TypeOK, JobKept, listVars
<1>d. \A p \in Everyone : outcome'[p] = IF p \in chosen THEN "query" ELSE "none"
  BY <1>a
<1>e. chosen = IF mode = "direct" THEN selected ELSE {Sender}
  BY <1>b
<1>. HIDE DEF chosen
<1>1. ScreenTypes' BY <1>a, Parts, ScreenStays DEF IInv, JobKept, screenVars
<1>2. ListTypes' BY <1>a, Parts, ListStays DEF IInv, JobKept
<1>3. JobTypes'
  <2>1. outcome' \in [Everyone -> Outcomes]
    BY <1>a DEF Outcomes
  <2>. QED BY <2>1, <1>a, Parts DEF IInv, JobTypes, tallies
<1>4. TicksAreOffered' /\ PendingIsStale'
  BY <1>c DEF IInv, TicksAreOffered, PendingIsStale
<1>5. JobIsApart'
  <2>1. \A x \in Agents : outcome'[x] # "none" => x \in selected
    BY <1>b, <1>d, <1>e DEF Everyone
  <2>2. \A x \in selected : shown[x] = "fresh" /\ HostOf[x] \notin pending
    BY <1>b DEF IInv, TicksAreOffered, PendingIsStale
  <2>. QED BY <2>1, <2>2, <1>a, <1>c DEF JobIsApart
<1>6. JobIsFor'
  <2>1. CASE mode = "direct"
    <3>1. outcome'[Sender] = "none" BY <2>1, <1>b, <1>d, <1>e DEF Everyone
    <3>2. \A x \in Agents : outcome'[x] # "none" <=> x \in selected
      BY <2>1, <1>d, <1>e DEF Everyone
    <3>. QED BY <3>1, <3>2, <2>1, <1>c DEF JobIsFor
  <2>2. CASE mode = "delegate"
    <3>1. \A x \in Agents : outcome'[x] = "none"
      BY <2>2, <1>b, <1>d, <1>e DEF Everyone
    <3>. QED BY <3>1, <2>2, <1>c DEF JobIsFor
  <2>. QED BY <2>1, <2>2, <1>c
<1>7. Stages'
  <2>1. \A p \in Everyone : outcome'[p] \in {"none", "query"} BY <1>d
  <2>. QED BY <2>1, <1>a DEF Stages
<1>8. Counts'
  <2>1. \A p \in selected : Covered(p)
    BY <1>a DEF IInv, Counts, Unprompted
  <2>2. Covered(Sender)
    BY <1>a, <1>b DEF IInv, Counts, Unprompted
  <2>3. \A p : Covered(p)' <=> Covered(p)
    BY <1>a DEF Covered, tallies
  <2>4. \A p \in Everyone : got'[p] + stray'[p] <= 1 + lost'[p]
    BY <1>a DEF IInv, Counts, tallies
  <2>5. \A p \in Everyone : outcome'[p] \in Untouched => Covered(p)'
    BY <2>1, <2>2, <2>3, <1>d, <1>e DEF Untouched
  <2>. QED BY <2>1, <2>2, <2>3, <2>4, <2>5, <1>c DEF Counts
<1>9. Strays'
  <2>1. \A p \in Everyone : ~Raising(p)' BY <1>d DEF Raising
  <2>. QED BY <2>1, <1>a DEF IInv, Strays, Raising, tallies
<1>. QED BY <1>1, <1>2, <1>3, <1>4, <1>5, <1>6, <1>7, <1>8, <1>9, PartsNext DEF IInv

LEMMA EscapeSendKeeps == ASSUME IInv, EscapeSend PROVE IInv'
<1>a. /\ cancel' = TRUE /\ Sending /\ job' = job /\ JobKept
      /\ UNCHANGED <<verdict, aborted, outcome, tallies>>
  BY DEF EscapeSend, JobKept, screenVars
<1>1. JobTypes' BY <1>a, Parts DEF IInv, JobTypes, tallies
<1>2. Stages' BY <1>a DEF IInv, Stages, Sending
<1>3. job' # "off" BY <1>a DEF Sending
<1>4. Counts' /\ Strays'
  <2>1. \A p \in Everyone : /\ Unprompted(p)' => Unprompted(p)
                            /\ Raising(p)' <=> Raising(p)
    BY <1>a DEF Unprompted, Raising, Sending
  <2>. QED BY <2>1, <1>a, <1>3, CountsGoOn
<1>. QED BY <1>a, <1>1, <1>2, <1>3, <1>4, JobGoesOn

LEMMA VerifySenderKeeps == ASSUME IInv, VerifySender PROVE IInv'
<1>a. /\ job = "verify" /\ Sending /\ JobKept /\ UNCHANGED <<cancel, outcome, tallies>>
      /\ job' \in {"dispatch", "done"}
      /\ IF job' = "done" THEN verdict' \in {"ok", "gone", "error"}
                          ELSE verdict' = verdict
      /\ aborted' \in {aborted, cancel, FALSE}
      /\ job' = "done" /\ verdict' = "ok" => cancel /\ aborted' = cancel
  BY DEF VerifySender, JobEnds, JobFails, Sending, tallies
<1>b. \A p \in Everyone : outcome[p] \in {"none", "query"}
  BY <1>a DEF IInv, Stages
<1>1. JobTypes'
  <2>1. aborted' \in BOOLEAN BY <1>a DEF IInv, TypeOK
  <2>2. verdict' \in {"", "ok", "gone", "error"} BY <1>a DEF IInv, TypeOK
  <2>. QED BY <1>a, <2>1, <2>2, Parts DEF IInv, JobTypes, tallies
<1>2. Stages'
  <2>1. job' # "verify" BY <1>a
  <2>2. \A p \in Everyone : outcome'[p] \in {"none", "query"} BY <1>a, <1>b
  <2>3. job' = "done" /\ verdict' = "ok" => aborted'
    BY <1>a
  <2>4. job' = "dispatch" => verdict' = "" BY <1>a DEF IInv, Stages
  <2>5. job' = "done" => verdict' \in {"ok", "gone", "error"} BY <1>a
  <2>. QED BY <2>1, <2>2, <2>3, <2>4, <2>5 DEF Stages
<1>3. job' # "off" BY <1>a
<1>4. Counts' /\ Strays'
  <2>1. \A p \in Everyone : Unprompted(p) /\ ~Raising(p) /\ ~Raising(p)'
    BY <1>a, <1>b DEF Unprompted, Raising, Reached
  <2>. QED BY <2>1, <1>a, <1>3, CountsGoOn
<1>. QED BY <1>a, <1>1, <1>2, <1>3, <1>4, JobGoesOn

\* A step of dispatching changes outcomes only.
LEMMA DispatchGoesOn ==
  ASSUME IInv, job = "dispatch", UNCHANGED <<job, verdict, cancel, aborted>>, JobKept,
         got' \in [Everyone -> 0 .. MaxLost + 2], stray' \in [Everyone -> 0 .. MaxLost],
         lost' = lost, Counts', Strays',
         outcome' \in [Everyone -> Outcomes],
         \A p \in Everyone : outcome'[p] = "none" <=> outcome[p] = "none",
         \A p \in Everyone : outcome'[p] = "skipped" => outcome[p] = "skipped" \/ cancel
  PROVE  IInv'
<1>1. Sending /\ job' = "dispatch" BY DEF Sending
<1>2. JobTypes' BY Parts DEF IInv, JobTypes
<1>3. Stages' BY <1>1 DEF IInv, Stages, Sending
<1>. QED BY <1>1, <1>2, <1>3, JobGoesOn

\* An exception takes some prompts out of the job; of those that were not under
\* way yet, or whose command runs, some may be left unwatched.
LEMMA RaiseGoesOn ==
  ASSUME IInv, job = "dispatch", UNCHANGED <<job, verdict, cancel, aborted, got, lost>>,
         JobKept, MayRaise, NEW raised \in SUBSET Everyone, NEW left \in SUBSET raised,
         stray' = Strayed(left),
         outcome' = [p \in Everyone |-> IF p \in raised THEN "raised" ELSE outcome[p]],
         \A p \in raised : outcome[p] \in {"query", "ready", "sending", "accepted"},
         \A p \in left : outcome[p] # "accepted"
  PROVE  IInv'
<1>1. \A p \in Everyone : outcome'[p] = IF p \in raised THEN "raised" ELSE outcome[p]
  OBVIOUS
<1>2. \A p \in Everyone : stray'[p] = IF p \in left THEN stray[p] + 1 ELSE stray[p]
  BY DEF Strayed
<1>3. /\ Sending /\ Sending' /\ verdict = "" /\ verdict' = ""
      /\ got' = got /\ lost' = lost /\ screen' = screen /\ selected' = selected
      /\ selected \subseteq Everyone /\ Sender \in Everyone
  BY DEF Sending, IInv, Stages, TypeOK, JobKept, listVars, Everyone
<1>4. outcome' \in [Everyone -> Outcomes]
  <2>1. \A p \in Everyone : outcome[p] \in Outcomes BY DEF IInv, TypeOK
  <2>2. "raised" \in Outcomes BY DEF Outcomes
  <2>. QED BY <2>1, <2>2
<1>5. \A p \in left : /\ p \in Everyone /\ outcome[p] \in Untouched
                      /\ Covered(p) /\ ~Raising(p)
  BY <1>3 DEF IInv, Counts, Untouched, Raising
<1>6. \A p \in Everyone : p \notin left => (Covered(p)' <=> Covered(p))
  BY <1>2, <1>3 DEF Covered
<1>7. \A p \in Everyone : IF Raising(p) THEN stray[p] <= lost[p] + 1 ELSE stray[p] <= lost[p]
  BY DEF IInv, Strays
<1>8. \A p \in Everyone : lost[p] < MaxLost BY DEF MayRaise
<1>9. \A p \in raised : Raising(p)' BY <1>1, <1>3 DEF Raising
<1>10. \A p \in Everyone \ raised : Raising(p)' <=> Raising(p)
  BY <1>1, <1>3 DEF Raising
<1>11. Strays'
  <2>1. \A p \in left : stray'[p] <= lost'[p] + 1
    <3>. SUFFICES ASSUME NEW p \in left PROVE stray'[p] <= lost'[p] + 1 OBVIOUS
    <3>1. stray'[p] = stray[p] + 1 BY <1>2, <1>5
    <3>2. stray[p] <= lost[p] BY <1>5, <1>7
    <3>3. lost'[p] = lost[p] BY <1>3
    <3>4. stray[p] \in Nat /\ lost[p] \in Nat BY <1>5, Numbers
    <3>. QED BY <3>1, <3>2, <3>3, <3>4
  <2>2. \A p \in raised \ left : stray'[p] <= lost'[p] + 1
    <3>. SUFFICES ASSUME NEW p \in raised \ left PROVE stray'[p] <= lost'[p] + 1 OBVIOUS
    <3>1. stray'[p] = stray[p] BY <1>2
    <3>2. stray[p] <= lost[p] \/ stray[p] <= lost[p] + 1 BY <1>7
    <3>3. lost'[p] = lost[p] BY <1>3
    <3>4. stray[p] \in Nat /\ lost[p] \in Nat BY Numbers
    <3>. QED BY <3>1, <3>2, <3>3, <3>4
  <2>3. \A p \in Everyone \ raised :
          IF Raising(p)' THEN stray'[p] <= lost'[p] + 1 ELSE stray'[p] <= lost'[p]
    BY <1>2, <1>3, <1>7, <1>10
  <2>4. MayRaise' BY <1>3 DEF MayRaise
  <2>. QED BY <1>9, <2>1, <2>2, <2>3, <2>4 DEF Strays
<1>12. stray' \in [Everyone -> 0 .. MaxLost]
  <2>1. \A p \in Everyone : stray'[p] \in 0 .. MaxLost
    <3>. SUFFICES ASSUME NEW p \in Everyone PROVE stray'[p] \in 0 .. MaxLost OBVIOUS
    <3>1. CASE p \in left BY <3>1, <1>2, <1>5, <1>7, <1>8, Numbers
    <3>2. CASE p \notin left BY <3>2, <1>2, Numbers
    <3>. QED BY <3>1, <3>2
  <2>. QED BY <2>1 DEF Strayed
<1>13. Counts'
  <2>1. \A p \in Everyone : got'[p] + stray'[p] <= 1 + lost'[p]
    <3>1. \A p \in left : got'[p] + stray'[p] <= 1 + lost'[p]
      <4>. SUFFICES ASSUME NEW p \in left PROVE got'[p] + stray'[p] <= 1 + lost'[p]
        OBVIOUS
      <4>1. stray'[p] = stray[p] + 1 /\ got'[p] = got[p] /\ lost'[p] = lost[p]
        BY <1>2, <1>3, <1>5
      <4>2. got[p] + stray[p] <= lost[p] BY <1>5 DEF Covered
      <4>. QED BY <4>1, <4>2, <1>5, Numbers
    <3>2. \A p \in Everyone \ left : got'[p] + stray'[p] <= 1 + lost'[p]
      BY <1>2, <1>3 DEF IInv, Counts
    <3>. QED BY <3>1, <3>2
  <2>2. \A p \in Everyone : outcome'[p] \in Untouched => Covered(p)'
    BY <1>1, <1>3, <1>6 DEF IInv, Counts, Untouched
  <2>3. \A p \in Everyone : Unprompted(p)' => p \notin raised /\ Unprompted(p)
    BY <1>1, <1>3 DEF Unprompted, Reached
  <2>4. screen' # "closed" => \A x \in selected' : Unprompted(x)' => Covered(x)'
    BY <1>3, <1>6, <2>3 DEF IInv, Counts
  <2>5. screen' # "closed" /\ selected' # {} => (Unprompted(Sender)' => Covered(Sender)')
    BY <1>3, <1>6, <2>3 DEF IInv, Counts
  <2>. QED BY <2>1, <2>2, <2>4, <2>5 DEF Counts
<1>14. \A p \in Everyone : /\ outcome'[p] = "none" <=> outcome[p] = "none"
                           /\ outcome'[p] = "skipped" => outcome[p] = "skipped" \/ cancel
  BY <1>1
<1>15. got' \in [Everyone -> 0 .. MaxLost + 2] BY DEF IInv, TypeOK
<1>. QED BY <1>4, <1>11, <1>12, <1>13, <1>14, <1>15, DispatchGoesOn

LEMMA QueryGroupKeeps ==
  ASSUME IInv, NEW h \in Hosts \cup {Local}, QueryGroup(h) PROVE IInv'
<1>. DEFINE group == {p \in Everyone : outcome[p] = "query" /\ HostOf[p] = h}
<1>a. /\ job = "dispatch" /\ JobKept
      /\ UNCHANGED <<job, verdict, cancel, aborted, got, lost>>
  BY DEF QueryGroup
<1>1. CASE /\ MayRaise
           /\ outcome' = [p \in Everyone |-> IF p \in group THEN "raised" ELSE outcome[p]]
           /\ \E left \in SUBSET group : stray' = Strayed(left)
  <2>1. PICK left \in SUBSET group : stray' = Strayed(left) BY <1>1
  <2>2. group \in SUBSET Everyone /\ \A p \in group : outcome[p] = "query" OBVIOUS
  <2>. HIDE DEF group
  <2>. QED BY <1>1, <1>a, <2>1, <2>2, RaiseGoesOn
<1>2. CASE /\ \E found \in SUBSET group, skip \in {c \in BOOLEAN : c => cancel} :
                  outcome' = [p \in Everyone |->
                              IF p \notin group THEN outcome[p]
                              ELSE IF skip THEN "skipped"
                              ELSE IF p \in found THEN "ready" ELSE "failed"]
           /\ UNCHANGED stray
  <2>1. PICK found \in SUBSET group, skip \in {c \in BOOLEAN : c => cancel} :
          outcome' = [p \in Everyone |->
                      IF p \notin group THEN outcome[p]
                      ELSE IF skip THEN "skipped"
                      ELSE IF p \in found THEN "ready" ELSE "failed"]
    BY <1>2
  <2>2. \A p \in Everyone :
          \/ outcome'[p] = outcome[p]
          \/ /\ outcome[p] = "query"
             /\ \/ outcome'[p] \in {"ready", "failed"}
                \/ outcome'[p] = "skipped" /\ cancel
    BY <2>1
  <2>3. outcome' \in [Everyone -> Outcomes]
    <3>1. \A p \in Everyone : outcome'[p] \in Outcomes
      BY <2>2 DEF IInv, TypeOK, Outcomes
    <3>. QED BY <3>1, <2>1
  <2>. HIDE DEF group
  <2>4. Counts' /\ Strays'
    <3>1. /\ Sending /\ Sending' /\ job' # "off" /\ UNCHANGED <<verdict, tallies>>
      BY <1>2, <1>a DEF Sending, tallies
    <3>2. \A p \in Everyone : /\ outcome'[p] \in Untouched => outcome[p] \in Untouched
                              /\ Unprompted(p)' => Unprompted(p)
                              /\ Raising(p)' <=> Raising(p)
      BY <2>2, <3>1 DEF Untouched, Unprompted, Reached, Raising
    <3>. QED BY <1>a, <3>1, <3>2, CountsGoOn
  <2>5. got' \in [Everyone -> 0 .. MaxLost + 2] /\ stray' \in [Everyone -> 0 .. MaxLost]
    BY <1>2, <1>a DEF IInv, TypeOK
  <2>. QED BY <1>a, <2>2, <2>3, <2>4, <2>5, DispatchGoesOn
<1>. QED BY <1>1, <1>2 DEF QueryGroup

\* What one prompt's step does.
LEMMA Becoming ==
  ASSUME IInv, NEW p \in Everyone,
         NEW from \in {"ready", "sending", "accepted"},
         NEW to \in {"sending", "accepted", "success", "failed", "unknown", "skipped",
                    "raised"},
         Becomes(p, from, to)
  PROVE  /\ job = "dispatch" /\ UNCHANGED <<job, verdict, cancel, aborted>> /\ JobKept
         /\ outcome[p] = from /\ outcome'[p] = to
         /\ \A q \in Everyone \ {p} : outcome'[q] = outcome[q]
         /\ outcome' \in [Everyone -> Outcomes]
BY DEF Becomes, IInv, TypeOK, Outcomes

\* A step of one prompt that is neither the agent's taking it nor an exception.
LEMMA BecomingKeeps ==
  ASSUME IInv, NEW p \in Everyone,
         NEW from \in {"ready", "sending", "accepted"},
         NEW to \in {"sending", "success", "failed", "unknown", "skipped"},
         Becomes(p, from, to), UNCHANGED tallies,
         from = "accepted" => to \in {"success", "unknown"}, to = "skipped" => cancel
  PROVE  IInv'
<1>1. to \in {"sending", "accepted", "success", "failed", "unknown", "skipped", "raised"}
  OBVIOUS
<1>2. /\ job = "dispatch" /\ UNCHANGED <<job, verdict, cancel, aborted>> /\ JobKept
      /\ outcome[p] = from /\ outcome'[p] = to
      /\ \A q \in Everyone \ {p} : outcome'[q] = outcome[q]
      /\ outcome' \in [Everyone -> Outcomes]
  BY <1>1, Becoming
<1>3. \A q \in Everyone : /\ outcome'[q] = "none" <=> outcome[q] = "none"
                          /\ outcome'[q] = "skipped" => outcome[q] = "skipped" \/ cancel
  BY <1>2
<1>4. Counts' /\ Strays'
  <2>1. Sending /\ Sending' /\ job' # "off" BY <1>2 DEF Sending
  <2>2. \A q \in Everyone : /\ outcome'[q] \in Untouched => outcome[q] \in Untouched
                            /\ Unprompted(q)' => Unprompted(q)
                            /\ Raising(q)' <=> Raising(q)
    BY <1>2, <2>1 DEF Untouched, Unprompted, Reached, Raising
  <2>. QED BY <1>2, <2>1, <2>2, CountsGoOn
<1>5. /\ got' \in [Everyone -> 0 .. MaxLost + 2] /\ stray' \in [Everyone -> 0 .. MaxLost]
      /\ lost' = lost
  BY DEF IInv, TypeOK, tallies
<1>. QED BY <1>2, <1>3, <1>4, <1>5, DispatchGoesOn

LEMMA BeginKeeps == ASSUME IInv, NEW p \in Everyone, Begin(p) PROVE IInv'
<1>1. /\ UNCHANGED tallies
      /\ \E to \in {"sending", "skipped", "unknown", "failed"} :
            Becomes(p, "ready", to) /\ (to = "skipped" => cancel)
  BY DEF Begin
<1>. QED BY <1>1, BecomingKeeps

LEMMA EndsKeeps == ASSUME IInv, NEW p \in Everyone, Ends(p) PROVE IInv'
<1>1. /\ UNCHANGED tallies
      /\ \/ \E to \in {"failed", "unknown"} : Becomes(p, "sending", to)
         \/ \E to \in {"success", "unknown"} : Becomes(p, "accepted", to)
  BY DEF Ends
<1>. QED BY <1>1, BecomingKeeps

LEMMA RaisesKeeps == ASSUME IInv, NEW p \in Everyone, Raises(p) PROVE IInv'
<1>1. PICK from \in {"ready", "sending", "accepted"} :
        /\ Becomes(p, from, "raised")
        /\ \/ stray' = stray \/ (from # "accepted" /\ stray' = Strayed({p}))
  BY DEF Raises
<1>2. /\ job = "dispatch" /\ UNCHANGED <<job, verdict, cancel, aborted>> /\ JobKept
      /\ outcome[p] = from /\ outcome'[p] = "raised"
      /\ \A q \in Everyone \ {p} : outcome'[q] = outcome[q]
      /\ outcome' \in [Everyone -> Outcomes]
  BY <1>1, Becoming
<1>3. outcome' = [q \in Everyone |-> IF q \in {p} THEN "raised" ELSE outcome[q]]
  BY <1>2
<1>4. stray = Strayed({}) BY DEF IInv, TypeOK, Strayed
<1>5. PICK left \in SUBSET {p} : stray' = Strayed(left) /\ (from = "accepted" => left = {})
  BY <1>1, <1>4
<1>6. MayRaise /\ UNCHANGED <<got, lost>> BY DEF Raises
<1>. QED BY <1>2, <1>3, <1>5, <1>6, RaiseGoesOn

\* The ghost goes up by one where it may.
LEMMA Getting ==
  ASSUME IInv, NEW p \in Everyone, GetsOne(p), got[p] <= MaxLost + 1
  PROVE  /\ got' \in [Everyone -> 0 .. MaxLost + 2] /\ got'[p] = got[p] + 1
         /\ \A q \in Everyone \ {p} : got'[q] = got[q]
<1>1. got \in [Everyone -> 0 .. MaxLost + 2] /\ MaxLost \in Nat
  BY Numbers DEF IInv, TypeOK
<1>a. got[p] < MaxLost + 2 BY Numbers
<1>2. got' = [got EXCEPT ![p] = got[p] + 1] BY <1>1, <1>a DEF GetsOne
<1>3. got[p] + 1 \in 0 .. MaxLost + 2 BY <1>1
<1>. QED BY <1>1, <1>2, <1>3

LEMMA AcceptKeeps == ASSUME IInv, NEW p \in Everyone, Accept(p) PROVE IInv'
<1>1. Becomes(p, "sending", "accepted") /\ GetsOne(p) /\ UNCHANGED <<stray, lost>>
  BY DEF Accept
<1>2. /\ job = "dispatch" /\ UNCHANGED <<job, verdict, cancel, aborted>> /\ JobKept
      /\ outcome[p] = "sending" /\ outcome'[p] = "accepted"
      /\ \A q \in Everyone \ {p} : outcome'[q] = outcome[q]
      /\ outcome' \in [Everyone -> Outcomes]
  BY <1>1, Becoming
<1>3. Covered(p)
  BY <1>2 DEF IInv, Counts, Sending, Untouched
<1>4. /\ got' \in [Everyone -> 0 .. MaxLost + 2] /\ got'[p] = got[p] + 1
      /\ \A q \in Everyone \ {p} : got'[q] = got[q]
  <2>1. got[p] <= MaxLost + 1 BY <1>3, Numbers DEF Covered
  <2>. QED BY <1>1, <2>1, Getting
<1>5. /\ selected' = selected /\ screen' = screen /\ Sending /\ Sending'
      /\ selected \subseteq Everyone /\ Sender \in Everyone
      /\ verdict = "" /\ verdict' = ""
  BY <1>2 DEF IInv, TypeOK, Stages, JobKept, listVars, Sending, Everyone
<1>6. Counts'
  <2>1. ~Unprompted(p)'
    BY <1>2, <1>5 DEF Unprompted, Reached
  <2>2. \A q \in Everyone \ {p} : /\ Unprompted(q)' => Unprompted(q)
                                  /\ Covered(q)' <=> Covered(q)
    BY <1>1, <1>2, <1>4, <1>5 DEF Unprompted, Covered
  <2>3. \A q \in Everyone : got'[q] + stray'[q] <= 1 + lost'[q]
    <3>1. got'[p] + stray'[p] <= 1 + lost'[p]
      BY <1>1, <1>3, <1>4, Numbers DEF Covered
    <3>2. \A q \in Everyone \ {p} : got'[q] + stray'[q] <= 1 + lost'[q]
      BY <1>1, <1>4 DEF IInv, Counts
    <3>. QED BY <3>1, <3>2
  <2>4. \A q \in Everyone : outcome'[q] \in Untouched => Covered(q)'
    BY <1>2, <1>5, <2>2 DEF IInv, Counts, Untouched
  <2>5. screen' # "closed" => \A q \in selected' : Unprompted(q)' => Covered(q)'
    BY <1>5, <2>1, <2>2 DEF IInv, Counts
  <2>6. screen' # "closed" /\ selected' # {} => (Unprompted(Sender)' => Covered(Sender)')
    BY <1>5, <2>1, <2>2 DEF IInv, Counts
  <2>. QED BY <2>3, <2>4, <2>5, <2>6 DEF Counts
<1>7. Strays'
  <2>1. \A q \in Everyone : Raising(q)' <=> Raising(q)
    BY <1>2, <1>5 DEF Raising
  <2>. QED BY <2>1, <1>1 DEF IInv, Strays, MayRaise
<1>8. stray' \in [Everyone -> 0 .. MaxLost] BY <1>1 DEF IInv, TypeOK
<1>9. \A q \in Everyone : /\ outcome'[q] = "none" <=> outcome[q] = "none"
                          /\ outcome'[q] = "skipped" => outcome[q] = "skipped" \/ cancel
  BY <1>2
<1>. QED BY <1>1, <1>2, <1>4, <1>6, <1>7, <1>8, <1>9, DispatchGoesOn

LEMMA StrayArrivesKeeps == ASSUME IInv, NEW p \in Everyone, StrayArrives(p) PROVE IInv'
<1>a. /\ stray[p] > 0 /\ stray' = [stray EXCEPT ![p] = @ - 1] /\ GetsOne(p)
      /\ UNCHANGED <<remote, lost>>
      /\ UNCHANGED screenVars /\ UNCHANGED listVars /\ UNCHANGED jobVars
  BY DEF StrayArrives
<1>1. stray' \in [Everyone -> 0 .. MaxLost] /\ stray'[p] = stray[p] - 1
      /\ \A q \in Everyone \ {p} : stray'[q] = stray[q]
  <2>1. stray \in [Everyone -> 0 .. MaxLost] /\ MaxLost \in Nat
    BY Numbers DEF IInv, TypeOK
  <2>. QED BY <1>a, <2>1
<1>2. /\ got' \in [Everyone -> 0 .. MaxLost + 2] /\ got'[p] = got[p] + 1
      /\ \A q \in Everyone \ {p} : got'[q] = got[q]
  <2>1. got[p] + stray[p] <= 1 + lost[p] BY DEF IInv, Counts
  <2>2. got[p] <= MaxLost + 1 BY <1>a, <2>1, Numbers
  <2>. QED BY <1>a, <2>2, Getting
<1>3. \A q \in Everyone : got'[q] + stray'[q] = got[q] + stray[q] /\ lost'[q] = lost[q]
  BY <1>a, <1>1, <1>2, Numbers
<1>4. \A q \in Everyone : stray'[q] <= stray[q] BY <1>1, Numbers
<1>b. /\ UNCHANGED <<screen, mode, shown, selected, pending>>
      /\ UNCHANGED <<job, verdict, cancel, aborted, outcome>>
      /\ selected \subseteq Everyone /\ Sender \in Everyone
  BY <1>a DEF screenVars, listVars, jobVars, IInv, TypeOK, Everyone
<1>5. ScreenTypes' BY <1>a, Parts, ScreenStays DEF IInv
<1>6. ListTypes' BY <1>a, Parts, ListStays DEF IInv
<1>7. JobTypes' BY <1>a, <1>b, <1>1, <1>2, Parts DEF IInv, JobTypes
<1>8. TicksAreOffered' /\ PendingIsStale'
  BY <1>b DEF IInv, TicksAreOffered, PendingIsStale
<1>9. JobIsApart' /\ JobIsFor' /\ Stages'
  <2>1. JobIsApart' BY <1>b DEF IInv, JobIsApart, Sending
  <2>2. JobIsFor' BY <1>b DEF IInv, JobIsFor, Sending
  <2>3. Stages' BY <1>b DEF IInv, Stages, Sending
  <2>. QED BY <2>1, <2>2, <2>3
<1>10. \A q \in Everyone : /\ Unprompted(q)' <=> Unprompted(q)
                           /\ Raising(q)' <=> Raising(q)
                           /\ Covered(q)' <=> Covered(q)
  BY <1>b, <1>3 DEF Unprompted, Raising, Covered, Sending
<1>11. Counts'
  <2>1. \A q \in Everyone : got'[q] + stray'[q] <= 1 + lost'[q]
    BY <1>3 DEF IInv, Counts
  <2>2. Sending' => \A q \in Everyone : outcome'[q] \in Untouched => Covered(q)'
    BY <1>b, <1>10 DEF IInv, Counts, Sending
  <2>. QED BY <2>1, <2>2, <1>b, <1>10 DEF IInv, Counts
<1>12. Strays'
  <2>1. \A q \in Everyone : IF Raising(q)' THEN stray'[q] <= lost'[q] + 1 ELSE stray'[q] <= lost'[q]
    BY <1>3, <1>4, <1>10, <1>1, Numbers DEF IInv, Strays
  <2>. QED BY <2>1, <1>10, <1>a DEF IInv, Strays, MayRaise
<1>. QED BY <1>5, <1>6, <1>7, <1>8, <1>9, <1>11, <1>12, PartsNext DEF IInv

LEMMA DispatchedKeeps == ASSUME IInv, Dispatched PROVE IInv'
<1>a. /\ job = "dispatch" /\ Sending /\ Sending' /\ JobKept /\ job' = "done"
      /\ \A p \in Everyone : outcome[p] \notin {"query", "ready", "sending", "accepted"}
      /\ UNCHANGED <<cancel, outcome, stray, got>>
  BY DEF Dispatched, JobEnds, JobFails, Sending, tallies
<1>b. /\ screen' = screen /\ selected' = selected /\ verdict = ""
      /\ selected \subseteq Everyone /\ Sender \in Everyone
  BY <1>a DEF IInv, Stages, TypeOK, JobKept, listVars, Everyone
<1>c. job' # "off" /\ \A p \in Everyone : outcome'[p] = "none" <=> outcome[p] = "none"
  BY <1>a
<1>d. ~cancel => \A p \in Everyone : outcome[p] # "skipped"
  BY <1>a DEF IInv, Stages
<1>1. CASE \A p \in Everyone : outcome[p] # "raised"
  <2>1. verdict' = "ok" /\ aborted' = cancel /\ UNCHANGED tallies
    BY <1>1 DEF Dispatched, JobEnds, tallies
  <2>2. JobTypes'
    <3>1. aborted' \in BOOLEAN /\ cancel' \in BOOLEAN BY <1>a, <2>1 DEF IInv, TypeOK
    <3>. QED BY <1>a, <2>1, <3>1, Parts DEF IInv, JobTypes, tallies
  <2>3. Stages' BY <1>1, <1>a, <1>d, <2>1 DEF Stages
  <2>4. Counts' /\ Strays'
    <3>1. \A p \in Everyone : /\ Unprompted(p)' => Unprompted(p)
                              /\ Raising(p)' <=> Raising(p)
      BY <1>1, <1>a, <1>b, <2>1 DEF Unprompted, Raising
    <3>. QED BY <3>1, <1>a, <2>1, CountsGoOn
  <2>. QED BY <1>a, <1>c, <2>2, <2>3, <2>4, JobGoesOn
<1>2. CASE \E p \in Everyone : outcome[p] = "raised"
  <2>1. /\ verdict' = "error" /\ aborted' = FALSE
        /\ lost' = [p \in Everyone |->
              IF outcome[p] \in {"success", "unknown", "raised"}
              THEN lost[p] + 1 ELSE lost[p]]
    BY <1>2 DEF Dispatched, JobFails
  <2>2. \A p \in Everyone : lost[p] < MaxLost
    BY <1>2, <1>a, <1>b DEF IInv, Strays, Raising, MayRaise
  <2>3. \A p \in Everyone :
          lost'[p] = IF outcome[p] \in {"success", "unknown", "raised"}
                     THEN lost[p] + 1 ELSE lost[p]
    BY <2>1
  <2>4. JobTypes'
    <3>1. \A p \in Everyone : lost'[p] \in 0 .. MaxLost
      BY <2>2, <2>3, Numbers
    <3>2. lost' \in [Everyone -> 0 .. MaxLost] BY <2>1, <3>1
    <3>3. aborted' \in BOOLEAN BY <2>1
    <3>. QED BY <1>a, <2>1, <3>2, <3>3, Parts DEF IInv, JobTypes
  <2>5. Stages' BY <1>a, <1>d, <2>1 DEF Stages
  <2>6. Counts'
    <3>1. \A p \in Everyone : got[p] + stray[p] <= 1 + lost[p] BY DEF IInv, Counts
    <3>2. \A p \in Everyone : got'[p] + stray'[p] <= 1 + lost'[p]
      BY <1>a, <2>3, <3>1, Numbers
    <3>3. \A p \in Everyone : outcome[p] \in {"success", "unknown", "raised"} => Covered(p)'
      BY <1>a, <2>3, <3>1, Numbers DEF Covered
    <3>4. \A p \in Everyone : Covered(p) => Covered(p)'
      BY <1>a, <2>3, Numbers DEF Covered
    <3>5. \A p \in Everyone : outcome'[p] \in Untouched => Covered(p)'
      BY <1>a, <3>4 DEF IInv, Counts
    <3>6. \A p \in Everyone : \/ outcome[p] \in {"success", "unknown", "raised"}
                              \/ Unprompted(p)
      BY <1>a DEF Unprompted, Reached
    <3>7. screen' # "closed" => \A x \in selected' : Covered(x)'
      BY <1>b, <3>3, <3>4, <3>6 DEF IInv, Counts
    <3>8. screen' # "closed" /\ selected' # {} => Covered(Sender)'
      BY <1>b, <3>3, <3>4, <3>6 DEF IInv, Counts
    <3>. QED BY <3>2, <3>5, <3>7, <3>8 DEF Counts
  <2>7. Strays'
    <3>1. \A p \in Everyone : ~Raising(p)' BY <2>1 DEF Raising
    <3>2. \A p \in Everyone : stray'[p] <= lost'[p]
      BY <1>a, <2>3, Numbers DEF IInv, Strays, Raising
    <3>3. \A p \in Everyone : IF Raising(p)' THEN stray'[p] <= lost'[p] + 1 ELSE stray'[p] <= lost'[p]
      BY <3>1, <3>2, <2>3, Numbers
    <3>. QED BY <3>1, <3>3 DEF Strays
  <2>. QED BY <1>a, <1>c, <2>4, <2>5, <2>6, <2>7, JobGoesOn
<1>. QED BY <1>1, <1>2

-----------------------------------------------------------------------------
(* Taking up the result of a job.                                          *)

\* Where the prompts of a finished job are.
LEMMA Finished ==
  ASSUME IInv, job = "done"
  PROVE  /\ screen = "edit"
         /\ \A p \in Everyone : outcome[p] \notin {"ready", "sending", "accepted"}
         /\ verdict = "ok" /\ ~aborted =>
               \A p \in Everyone : outcome[p] \in {"none", "success", "failed", "unknown"}
         /\ verdict \in {"ok", "gone", "error"}
         /\ verdict = "ok" => \A p \in Everyone : outcome[p] # "raised"
         /\ verdict = "gone" => \A p \in Everyone : outcome[p] \in {"none", "query"}
         /\ mode = "delegate" => \A x \in Agents : outcome[x] = "none"
         /\ mode # "delegate" => /\ outcome[Sender] = "none"
                                 /\ \A x \in Agents : outcome[x] # "none" <=> x \in selected
<1>1. Sending BY DEF Sending
<1>2. screen = "edit" BY <1>1 DEF IInv, JobIsApart
<1>3. \A p \in Everyone : outcome[p] \in Outcomes
  BY DEF IInv, TypeOK
<1>4. /\ verdict \in {"ok", "gone", "error"}
      /\ \A p \in Everyone : outcome[p] \notin {"ready", "sending", "accepted"}
      /\ verdict = "ok" => \A p \in Everyone :
            /\ outcome[p] # "raised"
            /\ ~aborted => outcome[p] \notin {"query", "skipped"}
      /\ verdict = "gone" => \A p \in Everyone : outcome[p] \in {"none", "query"}
  BY DEF IInv, Stages
<1>5. verdict = "ok" /\ ~aborted =>
         \A p \in Everyone : outcome[p] \in {"none", "success", "failed", "unknown"}
  BY <1>3, <1>4 DEF Outcomes
<1>8. /\ mode = "delegate" => \A x \in Agents : outcome[x] = "none"
      /\ mode # "delegate" => /\ outcome[Sender] = "none"
                              /\ \A x \in Agents : outcome[x] # "none" <=> x \in selected
  BY <1>1 DEF IInv, JobIsFor
<1>. QED BY <1>2, <1>4, <1>5, <1>8

\* The ticks that stay were there before, and nobody among them was reached, if
\* the results are known.
LEMMA Kept ==
  ASSUME IInv, job = "done"
  PROVE  /\ KeptTicks \subseteq selected
         /\ mode # "delegate" /\ verdict # "error" =>
               \A x \in KeptTicks : outcome[x] \notin Reached
         /\ mode # "delegate" =>
               \A x \in selected \ KeptTicks : outcome[x] \in {"success", "unknown"}
<1>1. selected \subseteq Agents /\ Agents \subseteq Everyone
  BY DEF IInv, TypeOK, Everyone
<1>2. CASE mode = "delegate"
  BY <1>2 DEF KeptTicks
<1>3. CASE mode # "delegate"
  <2>1. /\ outcome[Sender] = "none"
        /\ \A x \in Agents : outcome[x] # "none" <=> x \in selected
    BY <1>3, Finished
  <2>2. CASE verdict = "ok" /\ ~aborted /\ With("failed") \cup With("unknown") # {}
    <3>1. KeptTicks = With("failed") BY <1>3, <2>2 DEF KeptTicks
    <3>2. With("failed") \subseteq selected
      BY <2>1, <1>1 DEF With, Everyone
    <3>3. \A x \in With("failed") : outcome[x] = "failed" BY DEF With
    <3>4. \A x \in selected \ With("failed") : outcome[x] \in {"success", "unknown"}
      BY <2>1, <2>2, <1>1, Finished DEF With
    <3>. QED BY <3>1, <3>2, <3>3, <3>4 DEF Reached
  <2>3. CASE ~(verdict = "ok" /\ ~aborted /\ With("failed") \cup With("unknown") # {})
    <3>1. KeptTicks = selected \ (With("success") \cup With("unknown"))
      BY <1>3, <2>3 DEF KeptTicks
    <3>2. verdict # "error" => \A x \in KeptTicks : outcome[x] \notin Reached
      BY <3>1, <1>1, Finished DEF With, Reached
    <3>. QED BY <3>1, <3>2 DEF With
  <2>. QED BY <2>2, <2>3
<1>. QED BY <1>2, <1>3

LEMMA PollSendKeeps == ASSUME IInv, PollSend PROVE IInv'
<1>. DEFINE closes == /\ verdict = "ok" /\ ~aborted
                      /\ With("success") # {}
                      /\ With("failed") \cup With("unknown") = {}
<1>a. /\ job = "done" /\ job' = "off" /\ selected' = KeptTicks
      /\ screen' = IF closes THEN "closed" ELSE screen
      /\ verdict' = "" /\ aborted' = FALSE /\ outcome' = [p \in Everyone |-> "none"]
      /\ UNCHANGED <<cancel, tallies>>
      /\ UNCHANGED <<remote, returning, mode, shown, cache, discovery, pending,
                     answer, starts>>
  BY DEF PollSend
<1>b. /\ ~Sending' /\ Sending /\ screen = "edit"
      /\ selected' \subseteq selected /\ selected \subseteq Agents
      /\ Agents \subseteq Everyone /\ Sender \in Everyone
  BY <1>a, Finished, Kept DEF Sending, IInv, TypeOK, Everyone
<1>c. /\ verdict \in {"ok", "gone", "error"}
      /\ \A p \in Everyone : verdict # "error" => outcome[p] # "raised"
  BY <1>a, Finished
<1>d. /\ \A p \in Everyone : got[p] + stray[p] <= 1 + lost[p]
      /\ \A x \in selected : Unprompted(x) => Covered(x)
      /\ selected # {} => (Unprompted(Sender) => Covered(Sender))
      /\ \A p : Covered(p)' <=> Covered(p)
  BY <1>a, <1>b DEF IInv, Counts, Covered, tallies
<1>1. ScreenTypes' BY <1>a, <1>b, Parts DEF IInv, ScreenTypes
<1>2. ListTypes' BY <1>a, <1>b, Parts DEF IInv, ListTypes
<1>3. JobTypes'
  <2>1. outcome' \in [Everyone -> Outcomes] BY <1>a DEF Outcomes
  <2>. QED BY <2>1, <1>a, Parts DEF IInv, JobTypes, tallies
<1>4. TicksAreOffered' /\ PendingIsStale'
  BY <1>a, <1>b DEF IInv, TicksAreOffered, PendingIsStale
<1>5. JobIsApart' /\ JobIsFor' /\ Stages'
  BY <1>a, <1>b DEF JobIsApart, JobIsFor, Stages
<1>6. Counts'
  <2>1. \A x \in selected' : Covered(x)
    <3>1. CASE mode = "delegate"
      BY <3>1, <1>a, <1>b, <1>d, Finished DEF Unprompted, Reached
    <3>2. CASE mode # "delegate"
      BY <3>2, <1>a, <1>b, <1>d, Kept DEF Unprompted
    <3>. QED BY <3>1, <3>2
  <2>2. screen' # "closed" /\ selected' # {} => Covered(Sender)
    <3>. SUFFICES ASSUME screen' # "closed", selected' # {}, outcome[Sender] \in Reached,
                         verdict # "error"
                  PROVE  FALSE
      BY <1>b, <1>d DEF Unprompted
    <3>1. mode = "delegate"
      BY <1>a, <1>b, Finished DEF Reached
    <3>2. outcome[Sender] \in {"success", "unknown"} /\ verdict = "ok"
      BY <1>a, <1>b, <1>c, Finished DEF Reached
    <3>3. With("unknown") = {} /\ ~(aborted /\ With("success") # {})
      BY <1>a, <3>1 DEF KeptTicks
    <3>4. Sender \in With("success") /\ ~aborted
      BY <3>2, <3>3, <1>b DEF With
    <3>5. With("failed") = {}
      BY <3>4, <1>a, <1>b, <3>1, Finished DEF With, Everyone
    <3>6. ~closes BY <1>a
    <3>. QED BY <3>2, <3>3, <3>4, <3>5, <3>6
  <2>3. \A p \in Everyone : got'[p] + stray'[p] <= 1 + lost'[p]
    BY <1>a, <1>d DEF tallies
  <2>. QED BY <2>1, <2>2, <2>3, <1>b, <1>d DEF Counts
<1>7. Strays'
  <2>1. \A p \in Everyone : ~Raising(p) /\ ~Raising(p)'
    BY <1>b, <1>c DEF Raising
  <2>. QED BY <2>1, <1>a DEF IInv, Strays, tallies
<1>. QED BY <1>1, <1>2, <1>3, <1>4, <1>5, <1>6, <1>7, PartsNext DEF IInv

-----------------------------------------------------------------------------
LEMMA NextKeeps == ASSUME IInv, [Next]_vars PROVE IInv'
<1>1. CASE UNCHANGED vars BY <1>1, StutterKeeps
<1>2. CASE Keys
  <2>1. CASE \/ \E m \in {"delegate", "direct"} : ChooseMode(m)
             \/ LeaveMode \/ ReopenMode \/ OpenGuide
    BY <2>1, MovesKeep
  <2>2. CASE ChooseRemote \/ ChooseLocal
    BY <2>2, ChooseRemoteKeeps, ChooseLocalKeeps
  <2>3. CASE Tick \/ Untick \/ Refresh \/ Escape
    BY <2>3, TickKeeps, UntickKeeps, RefreshKeeps, EscapeKeeps
  <2>4. CASE Send \/ EscapeSend
    BY <2>4, SendKeeps, EscapeSendKeeps
  <2>. QED BY <1>2, <2>1, <2>2, <2>3, <2>4 DEF Keys
<1>3. CASE JobStep
  BY <1>3, VerifySenderKeeps, QueryGroupKeeps, BeginKeeps, EndsKeeps, RaisesKeeps,
     DispatchedKeeps
     DEF JobStep
<1>4. CASE \E p \in Everyone : Accept(p) \/ StrayArrives(p)
  BY <1>4, AcceptKeeps, StrayArrivesKeeps
<1>5. CASE PollSend
  BY <1>5, PollSendKeeps
<1>6. CASE PollDiscovery \/ DeadlinePasses
  BY <1>6, PollDiscoveryKeeps, DeadlinePassesKeeps
<1>7. CASE \E h \in Hosts : ProbeAnswers(h) \/ CacheExpires(h)
  BY <1>7, ProbeAnswersKeeps, CacheExpiresKeeps
<1>. QED BY <1>1, <1>2, <1>3, <1>4, <1>5, <1>6, <1>7 DEF Next

\* Only taking up its result ends a job.
LEMMA OnlyPollSendEnds ==
  ASSUME IInv, [Next]_vars, Sending, job' = "off" PROVE PollSend
<1>1. ~Keys
  BY DEF Sending, Keys, ChooseRemote, ChooseLocal, ChooseMode, LeaveMode, ReopenMode,
         Tick, Untick, Refresh, Send, Escape, EscapeSend, OpenGuide, Editing, jobVars
<1>2. ~JobStep
  BY DEF Sending, JobStep, VerifySender, QueryGroup, Begin, Ends, Raises, Becomes,
         Dispatched, JobEnds, JobFails
<1>3. \A p \in Everyone : ~Accept(p) /\ ~StrayArrives(p)
  BY DEF Sending, Accept, StrayArrives, Becomes, jobVars
<1>4. ~PollDiscovery /\ ~DeadlinePasses
  BY DEF Sending, PollDiscovery, DeadlinePasses, jobVars
<1>5. \A h \in Hosts : ~ProbeAnswers(h) /\ ~CacheExpires(h)
  BY DEF Sending, ProbeAnswers, CacheExpires, jobVars
<1>6. ~UNCHANGED vars BY DEF Sending, vars
<1>. QED BY <1>1, <1>2, <1>3, <1>4, <1>5, <1>6 DEF Next

\* The inductive invariant holds of every run.
THEOREM InvariantHolds == Spec => []IInv
<1>1. Init => IInv BY InitIInv
<1>2. IInv /\ [Next]_vars => IInv' BY NextKeeps
<1>. QED BY <1>1, <1>2, PTL DEF Spec

\* Every variable has its type.
THEOREM TypeCorrect == Spec => []TypeOK
<1>1. IInv => TypeOK BY DEF IInv
<1>. QED BY <1>1, InvariantHolds, PTL

\* A ticked recipient is listed and up to date.
THEOREM TicksAreOfferedHolds == Spec => []TicksAreOffered
<1>1. IInv => TicksAreOffered BY DEF IInv
<1>. QED BY <1>1, InvariantHolds, PTL

\* A recipient gets one prompt for each time the user ticked it, and one more at
\* most for each time an exception lost the result of a prompt to it.
THEOREM OnePromptPerTickHolds == Spec => []OnePromptPerTick
<1>1. IInv => OnePromptPerTick
  <2>. SUFFICES ASSUME IInv, NEW p \in Everyone PROVE got[p] <= 1 + lost[p]
    BY DEF OnePromptPerTick
  <2>1. got[p] + stray[p] <= 1 + lost[p] BY DEF IInv, Counts
  <2>. QED BY <2>1, Numbers
<1>. QED BY <1>1, InvariantHolds, PTL

\* A direct send unticks only who has, or may have, the prompt.
THEOREM OnlyAnsweredUntickedHolds == Spec => OnlyAnsweredUnticked
<1>1. IInv /\ [Next]_vars =>
        [Sending /\ ~(job' # "off") /\ mode = "direct" =>
            \A a \in selected \ selected' : outcome[a] \in {"success", "unknown"}]_vars
  <2>. SUFFICES ASSUME IInv, [Next]_vars, Sending, job' = "off", mode = "direct",
                       NEW a \in selected \ selected'
                PROVE  outcome[a] \in {"success", "unknown"}
    OBVIOUS
  <2>1. job = "done" /\ selected' = KeptTicks
    BY OnlyPollSendEnds DEF PollSend
  <2>. QED BY <2>1, Kept
<1>. QED BY <1>1, InvariantHolds, PTL DEF Spec, OnlyAnsweredUnticked
=============================================================================
