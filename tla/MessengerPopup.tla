---------------------------- MODULE MessengerPopup ----------------------------
(***************************************************************************)
(* The messenger popup: the curses loop of MessengerApp (keys, the polls   *)
(* of discovery and of a send in progress), RemoteDiscovery's probes with  *)
(* their deadline, the agent cache, and the background job that delivers   *)
(* one message to the selected agents (dispatch_prompts).  Agents come and *)
(* go, so every snapshot of a host shows any set of its agents.  The       *)
(* message text, searching, scrolling and drawing are left out.            *)
(***************************************************************************)
EXTENDS Naturals

CONSTANTS
    Agents,       \* the agents (identities) that may be offered
    Hosts,        \* the authorised remote hosts
    Local,        \* the local server
    HostOf,       \* the server each agent lives on
    Sender,       \* the agent in whose name the popup speaks
    MaxStarts,    \* bound on the discoveries started
    MaxLost       \* bound on the jobs an exception ends, for one tick

ASSUME PopupAssumption ==
    /\ Sender \notin Agents
    /\ Local \notin Hosts /\ Hosts # {}
    /\ HostOf \in [Agents \cup {Sender} -> Hosts \cup {Local}]
    /\ HostOf[Sender] = Local
    /\ MaxStarts \in Nat /\ MaxLost \in Nat

VARIABLES
    screen,       \* the choice that is on screen, or "closed"
    returning,    \* mode_return_to_editor
    mode,         \* delivery_mode
    remote,       \* remote_enabled
    shown,        \* which agents the list holds, and how
    selected,     \* the recipients the user has ticked
    cache,        \* agent-directory.json, per host
    discovery,    \* the RemoteDiscovery at work: "off", "on", "late"
    pending,      \* pending_hosts
    answer,       \* what the probes have put into its results queue
    starts,       \* discoveries started so far
    job,          \* the send job: "off", "verify", "dispatch", "done"
    verdict,      \* how the job ended: "", "ok", "gone", "error"
    cancel,       \* send_cancel
    aborted,      \* whether the job saw send_cancel set when it ended
    outcome,      \* what became of each prompt of the job
    stray,        \* commands for the recipient that nobody watches any more
    got,          \* ghost: prompts since the user last ticked the recipient
    lost          \* ghost: results of prompts that an exception lost since

vars == <<screen, returning, mode, remote, shown, selected, cache, discovery,
          pending, answer, starts, job, verdict, cancel, aborted, outcome,
          stray, got, lost>>

listVars == <<shown, selected, cache, discovery, pending, answer, starts>>
jobVars == <<job, verdict, cancel, aborted, outcome>>
screenVars == <<screen, returning, mode>>
tallies == <<stray, got, lost>>

Everyone == Agents \cup {Sender}
On(h) == {a \in Agents : HostOf[a] = h}
Sending == job # "off"

NoAnswer == [ok |-> FALSE, agents |-> {}, come |-> FALSE]
Answers == [ok : BOOLEAN, agents : SUBSET Agents, come : BOOLEAN]
Entries == [ok : BOOLEAN, agents : SUBSET Agents, fresh : BOOLEAN]
Outcomes == {"none", "query", "ready", "sending", "accepted", "success", "failed",
             "unknown", "skipped", "raised"}

-----------------------------------------------------------------------------
(* The list of agents.                                                     *)

\* _replace_agent_scope over several servers at once: those of hs now list
\* exactly listed, of which fresh are up to date.  A listed agent that is not
\* up to date any more, or is gone, is no longer ticked.
Relisted(hs, listed, fresh) ==
    [a \in Agents |->
       IF HostOf[a] \notin hs THEN shown[a]
       ELSE IF a \in fresh THEN "fresh"
       ELSE IF a \in listed THEN "stale" ELSE "none"]

\* Mutant: only what has vanished from the list loses its tick.
TickedVanishing(hs, listed, fresh) ==
    {a \in selected : HostOf[a] \in hs /\ shown[a] # "none" => a \in listed}

Ticked(hs, listed, fresh) ==
    {a \in selected : HostOf[a] \in hs /\ shown[a] # "none" => a \in fresh}

Replace(hs, listed, fresh) ==
    /\ shown' = Relisted(hs, listed, fresh)
    /\ selected' = Ticked(hs, listed, fresh)

-----------------------------------------------------------------------------
(* Discovery.                                                              *)

\* Mutant: the entry is what the probe returned.
UpdatedAsFound(entry, found) == found

\* AgentCache.update: a failure keeps the agents that were known.
Updated(entry, found) ==
    [ok |-> found.ok,
     agents |-> IF found.ok THEN found.agents ELSE entry.agents,
     fresh |-> TRUE]

\* The time to live of a host's entry (10 s, after a failure 30 s) runs out.
CacheExpires(h) ==
    /\ screen # "closed" /\ cache[h].fresh
    /\ cache' = [cache EXCEPT ![h].fresh = FALSE]
    /\ UNCHANGED <<shown, selected, discovery, pending, answer, starts, remote, tallies>>
    /\ UNCHANGED screenVars /\ UNCHANGED jobVars

\* _start_remote_discovery: a discovery at work is cancelled, and what it still
\* finds goes nowhere.  A fresh entry is shown as it is; any other host is
\* shown stale and probed.  (base is a local refresh that went before.)
StartDiscovery(force, locals) ==
    LET probed == {h \in Hosts : force \/ ~cache[h].fresh}
        scope == Hosts \cup (IF force THEN {Local} ELSE {})
        listed == locals \cup {a \in Agents : HostOf[a] \in Hosts /\ a \in cache[HostOf[a]].agents}
        fresh == locals \cup {a \in listed : HostOf[a] \in Hosts \ probed /\ cache[HostOf[a]].ok}
    IN  /\ starts < MaxStarts /\ starts' = starts + 1
        /\ Replace(scope, listed, fresh)
        /\ remote' = TRUE
        /\ pending' = probed
        /\ discovery' = IF probed = {} THEN "off" ELSE "on"
        /\ answer' = [h \in Hosts |-> NoAnswer]
        /\ UNCHANGED cache

\* RemoteDiscovery._probe_host puts its one result into the queue; a probe may
\* still succeed a moment after the deadline.
ProbeAnswers(h) ==
    /\ discovery # "off" /\ h \in pending /\ ~answer[h].come
    /\ \E ok \in BOOLEAN, found \in SUBSET On(h) :
          answer' = [answer EXCEPT ![h] =
             [ok |-> ok, agents |-> IF ok THEN found ELSE {}, come |-> TRUE]]
    /\ UNCHANGED <<shown, selected, cache, discovery, pending, starts, remote, tallies>>
    /\ UNCHANGED screenVars /\ UNCHANGED jobVars

\* The discovery's deadline passes.
DeadlinePasses ==
    /\ discovery = "on" /\ screen # "closed"
    /\ discovery' = "late"
    /\ UNCHANGED <<shown, selected, cache, pending, answer, starts, remote, tallies>>
    /\ UNCHANGED screenVars /\ UNCHANGED jobVars

\* Mutant: the poll waits for all hosts, however long that takes.
DueWhenAnswered(come) == pending \subseteq come

\* The discovery is over when every host has answered, or at the deadline.
Due(come) == pending \subseteq come \/ discovery = "late"

\* _poll_discovery: the results that have come are listed and cached; at the
\* deadline the hosts that have not answered stay listed as they are, stale.
PollDiscovery ==
    /\ discovery # "off" /\ screen # "closed"
    /\ LET come == {h \in pending : answer[h].come}
           left == pending \ come
           silent == IF Due(come) THEN left ELSE {}
           well == {h \in come : answer[h].ok}
           listed == UNION {answer[h].agents : h \in well}
                     \cup {a \in Agents : HostOf[a] \in come \ well
                                            /\ a \in cache[HostOf[a]].agents}
       IN  /\ come # {} \/ Due(come)
           /\ Replace(come, listed, UNION {answer[h].agents : h \in well})
           /\ cache' = [h \in Hosts |->
                 IF h \in come \cup silent
                 THEN Updated(cache[h], IF h \in come THEN answer[h] ELSE NoAnswer)
                 ELSE cache[h]]
           /\ pending' = left \ silent
           /\ discovery' = IF Due(come) THEN "off" ELSE discovery
    /\ answer' = [h \in Hosts |-> NoAnswer]
    /\ UNCHANGED <<starts, remote, tallies>>
    /\ UNCHANGED screenVars /\ UNCHANGED jobVars

StopDiscovery ==
    /\ discovery' = "off" /\ pending' = {}
    /\ answer' = [h \in Hosts |-> NoAnswer]
    /\ UNCHANGED <<cache, starts>>

-----------------------------------------------------------------------------
(* Keys before the editor.                                                 *)

\* The first screen: discover remote agents ...
ChooseRemote ==
    /\ screen = "discovery"
    /\ screen' = "mode"
    /\ StartDiscovery(FALSE, {})
    /\ UNCHANGED <<returning, mode, tallies>> /\ UNCHANGED jobVars

\* ... or use the local server alone (_use_local_only).
ChooseLocal ==
    /\ screen = "discovery"
    /\ screen' = "mode"
    /\ StopDiscovery
    /\ remote' = FALSE
    /\ shown' = [a \in Agents |-> IF HostOf[a] = Local THEN shown[a] ELSE "none"]
    /\ selected' = {a \in selected : HostOf[a] # Local => shown[a] = "none"}
    /\ UNCHANGED <<returning, mode, tallies>> /\ UNCHANGED jobVars

\* Coordinator delegation or direct delivery.
ChooseMode(m) ==
    /\ screen = "mode"
    /\ screen' = "edit" /\ mode' = m /\ returning' = FALSE
    /\ UNCHANGED <<remote, tallies>> /\ UNCHANGED listVars /\ UNCHANGED jobVars

LeaveMode ==
    /\ screen = "mode"
    /\ screen' = IF returning THEN "edit" ELSE "discovery"
    /\ returning' = FALSE
    /\ UNCHANGED <<mode, remote, tallies>> /\ UNCHANGED listVars /\ UNCHANGED jobVars

-----------------------------------------------------------------------------
(* Keys in the editor; while a job sends, only Escape is heard.            *)

Editing == screen = "edit" /\ ~Sending

ReopenMode ==
    /\ Editing
    /\ screen' = "mode" /\ returning' = TRUE
    /\ UNCHANGED <<mode, remote, tallies>> /\ UNCHANGED listVars /\ UNCHANGED jobVars

\* A fresh tick is the user's word that the recipient may be asked (again).  A
\* command that is still on its way to it belongs to a result lost before.
Ticks(new) ==
    LET asked == new \cup (IF new = {} THEN {} ELSE {Sender})
    IN  /\ selected' = selected \cup new
        /\ got' = [p \in Everyone |-> IF p \in asked THEN 0 ELSE got[p]]
        /\ lost' = [p \in Everyone |-> IF p \in asked THEN stray[p] ELSE lost[p]]
        /\ UNCHANGED stray

\* Space on one agent, and Ctrl+A on all that are listed; never on a stale one.
Tick ==
    /\ Editing
    /\ LET offered == {a \in Agents \ selected : shown[a] = "fresh"}
       IN  \E new \in {{a} : a \in offered} \cup {offered} : Ticks(new)
    /\ UNCHANGED <<shown, cache, discovery, pending, answer, starts, remote>>
    /\ UNCHANGED screenVars /\ UNCHANGED jobVars

\* Space on a ticked agent, and Ctrl+D.
Untick ==
    /\ Editing
    /\ \E old \in {{a} : a \in {b \in selected : shown[b] = "fresh"}} \cup {selected} :
          selected' = selected \ old
    /\ UNCHANGED <<shown, cache, discovery, pending, answer, starts, remote, tallies>>
    /\ UNCHANGED screenVars /\ UNCHANGED jobVars

\* Ctrl+R: the local agents are read anew (none if that fails), and the remote
\* hosts are probed whatever the cache says.
Refresh ==
    /\ Editing
    /\ \E locals \in SUBSET On(Local) :
          IF remote THEN StartDiscovery(TRUE, locals)
          ELSE /\ Replace({Local}, locals, locals)
               /\ UNCHANGED <<remote, cache, discovery, pending, answer, starts>>
    /\ UNCHANGED tallies /\ UNCHANGED screenVars /\ UNCHANGED jobVars

\* Escape: out of the choices, out of a discovery (_cancel_discovery), or out.
Escape ==
    /\ screen = "discovery" \/ Editing
    /\ IF Editing /\ discovery # "off"
       THEN StopDiscovery /\ UNCHANGED <<shown, selected, screen>>
       ELSE screen' = "closed" /\ UNCHANGED listVars
    /\ UNCHANGED <<returning, mode, remote, tallies>> /\ UNCHANGED jobVars

\* Ctrl+G leaves for the skill installer.
OpenGuide ==
    /\ screen # "closed" /\ ~Sending
    /\ screen' = "closed"
    /\ UNCHANGED <<returning, mode, remote, tallies>>
    /\ UNCHANGED listVars /\ UNCHANGED jobVars

\* Escape while a job sends.
EscapeSend ==
    /\ screen = "edit" /\ Sending /\ ~cancel
    /\ cancel' = TRUE
    /\ UNCHANGED <<job, verdict, aborted, outcome, remote, tallies>>
    /\ UNCHANGED screenVars /\ UNCHANGED listVars

-----------------------------------------------------------------------------
(* The send job.  A prompt of it is "query" until its server was asked who *)
(* is there, "ready", "sending" while the command runs, "accepted" once    *)
(* the agent has it, and then what the command's end tells: "success",     *)
(* "failed" (surely not delivered) or "unknown"; "skipped" if a cancelled  *)
(* job never got to it; "raised" if an exception came out of dispatching   *)
(* it: a command that cannot be watched, a thread that cannot be started.  *)

JobKept == UNCHANGED <<remote, screen, returning, mode>> /\ UNCHANGED listVars

Recipients == {a \in selected : shown[a] = "fresh"}

\* Ctrl+S: a thread takes the fresh recipients along, or, for a delegation,
\* the coordinator, who is told of them.
Send ==
    /\ Editing
    /\ Recipients # {}
    /\ job' = "verify" /\ verdict' = "" /\ cancel' = FALSE /\ aborted' = FALSE
    /\ outcome' = [p \in Everyone |->
          IF p \in (IF mode = "direct" THEN Recipients ELSE {Sender})
          THEN "query" ELSE "none"]
    /\ UNCHANGED tallies /\ JobKept

JobEnds(v) ==
    /\ job' = "done" /\ verdict' = v /\ aborted' = cancel
    /\ UNCHANGED <<cancel, outcome, tallies>>

\* The exception handler: whatever there are of results, none is reported.
JobFails ==
    /\ job' = "done" /\ verdict' = "error" /\ aborted' = FALSE
    /\ UNCHANGED <<cancel, outcome, stray, got>>

\* fetch_local_agent: the sender must still be who the popup was opened for.
VerifySender ==
    /\ job = "verify"
    /\ \/ ~cancel /\ job' = "dispatch" /\ UNCHANGED <<verdict, cancel, aborted, outcome, tallies>>
       \/ cancel /\ JobEnds("ok")
       \/ ~cancel /\ JobEnds("gone")
       \/ JobFails /\ UNCHANGED lost
    /\ JobKept

\* A command for each of ps goes on, or is still to be started, unwatched.
Strayed(ps) == [p \in Everyone |-> IF p \in ps THEN stray[p] + 1 ELSE stray[p]]

\* Room in the bound for one more exception.
MayRaise == \A p \in Everyone : lost[p] < MaxLost

\* _dispatch_host_group asks one server for its agents.  Nobody is asked once
\* the job is cancelled; who is not found (or cannot be, the server being
\* away) has failed.  If this raises, the prompts of the group are not sent, but
\* those that threads still work for (left) may yet be.
QueryGroup(h) ==
    /\ job = "dispatch"
    /\ LET group == {p \in Everyone : outcome[p] = "query" /\ HostOf[p] = h}
       IN  /\ group # {}
           /\ \/ /\ \E found \in SUBSET group, skip \in {c \in BOOLEAN : c => cancel} :
                       outcome' = [p \in Everyone |->
                          IF p \notin group THEN outcome[p]
                          ELSE IF skip THEN "skipped"
                          ELSE IF p \in found THEN "ready" ELSE "failed"]
                 /\ UNCHANGED stray
              \/ /\ MayRaise
                 /\ outcome' = [p \in Everyone |->
                       IF p \in group THEN "raised" ELSE outcome[p]]
                 /\ \E left \in SUBSET group : stray' = Strayed(left)
    /\ UNCHANGED <<job, verdict, cancel, aborted, got, lost>>
    /\ JobKept

Becomes(p, from, to) ==
    /\ job = "dispatch" /\ outcome[p] = from
    /\ outcome' = [outcome EXCEPT ![p] = to]
    /\ UNCHANGED <<job, verdict, cancel, aborted>>
    /\ JobKept

\* A worker takes the next prompt, unless the job is cancelled.  The command
\* may see the cancel before it starts anything (and then calls it uncertain),
\* or fail to start.
Begin(p) ==
    /\ \/ ~cancel /\ Becomes(p, "ready", "sending")
       \/ cancel /\ Becomes(p, "ready", "skipped")
       \/ cancel /\ Becomes(p, "ready", "unknown")
       \/ ~cancel /\ Becomes(p, "ready", "failed")
    /\ UNCHANGED tallies

\* The ghost counts as far as the property can tell numbers apart.
GetsOne(p) == got' = [got EXCEPT ![p] = IF @ < MaxLost + 2 THEN @ + 1 ELSE @]

\* The agent has the prompt.
Accept(p) ==
    /\ Becomes(p, "sending", "accepted")
    /\ GetsOne(p)
    /\ UNCHANGED <<stray, lost>>

\* A command nobody watches delivers its prompt, whatever the popup does by now.
StrayArrives(p) ==
    /\ stray[p] > 0
    /\ stray' = [stray EXCEPT ![p] = @ - 1]
    /\ GetsOne(p)
    /\ UNCHANGED <<remote, lost>>
    /\ UNCHANGED screenVars /\ UNCHANGED listVars /\ UNCHANGED jobVars

\* An exception comes out of sending a prompt, before its command was started or
\* while it runs; the command is not killed.  The other workers go on.
Raises(p) ==
    /\ MayRaise
    /\ \/ \E from \in {"ready", "sending"} : Becomes(p, from, "raised")
          /\ stray' \in {stray, Strayed({p})}
       \/ Becomes(p, "accepted", "raised") /\ UNCHANGED stray
    /\ UNCHANGED <<got, lost>>

\* Mutant: a command that was cut off is a failed one.
EndsCertain(p) ==
    /\ \/ Becomes(p, "sending", "failed")
       \/ Becomes(p, "accepted", "failed")
       \/ Becomes(p, "accepted", "success")
    /\ UNCHANGED tallies

\* The command ends: an error that leaves no doubt means the prompt was turned
\* down; one that was cut off (killed, timed out, cancelled, too much output,
\* ssh lost) tells nothing.
Ends(p) ==
    /\ \/ Becomes(p, "sending", "failed")
       \/ Becomes(p, "sending", "unknown")
       \/ Becomes(p, "accepted", "unknown")
       \/ Becomes(p, "accepted", "success")
    /\ UNCHANGED tallies

\* All groups and all workers are through.  If one has raised, its exception is
\* raised again, and the results of the others are lost with it.
Dispatched ==
    /\ job = "dispatch"
    /\ \A p \in Everyone : outcome[p] \notin {"query", "ready", "sending", "accepted"}
    /\ IF \A p \in Everyone : outcome[p] # "raised"
       THEN JobEnds("ok")
       ELSE /\ JobFails
            /\ lost' = [p \in Everyone |->
                  IF outcome[p] \in {"success", "unknown", "raised"}
                  THEN lost[p] + 1 ELSE lost[p]]
    /\ JobKept

\* The results a job reports.
With(o) == {p \in Everyone : verdict = "ok" /\ outcome[p] = o}

\* Mutant: a cancelled job unticks all its recipients.
KeptTicksUnlessCancelled ==
    IF aborted THEN {} ELSE selected \ (With("success") \cup With("unknown"))

\* What stays ticked when the result of a job is taken up.  A direct send that
\* ran to its end leaves exactly the failed ones; a delegation is unticked
\* when the coordinator may have it but the popup stays open.
KeptTicks ==
    LET rest == selected \ (With("success") \cup With("unknown"))
        ran == verdict = "ok" /\ ~aborted
    IN  IF mode = "delegate"
        THEN IF With("unknown") # {} \/ (aborted /\ With("success") # {})
             THEN {} ELSE selected
        ELSE IF ran /\ With("failed") \cup With("unknown") # {}
             THEN With("failed") ELSE rest

\* _poll_send; if every prompt was delivered the popup has done its work.
PollSend ==
    /\ job = "done" /\ screen # "closed"
    /\ selected' = KeptTicks
    /\ screen' = IF /\ verdict = "ok" /\ ~aborted
                    /\ With("success") # {}
                    /\ With("failed") \cup With("unknown") = {}
                 THEN "closed" ELSE screen
    /\ job' = "off" /\ verdict' = "" /\ aborted' = FALSE
    /\ outcome' = [p \in Everyone |-> "none"]
    /\ UNCHANGED <<cancel, tallies>>
    /\ UNCHANGED <<remote, returning, mode, shown, cache, discovery, pending,
                   answer, starts>>

-----------------------------------------------------------------------------
Init ==
    /\ screen = "discovery" /\ returning = FALSE /\ mode = "delegate"
    /\ remote = FALSE
    /\ \E locals \in SUBSET On(Local) :
          shown = [a \in Agents |-> IF a \in locals THEN "fresh" ELSE "none"]
    /\ selected = {}
    /\ cache \in [Hosts -> Entries]
    /\ \A h \in Hosts : cache[h].agents \subseteq On(h)
    /\ discovery = "off" /\ pending = {}
    /\ answer = [h \in Hosts |-> NoAnswer]
    /\ starts = 0
    /\ job = "off" /\ verdict = "" /\ cancel = FALSE /\ aborted = FALSE
    /\ outcome = [p \in Everyone |-> "none"]
    /\ got = [p \in Everyone |-> 0]
    /\ stray = got /\ lost = got

Keys ==
    \/ ChooseRemote \/ ChooseLocal
    \/ \E m \in {"delegate", "direct"} : ChooseMode(m)
    \/ LeaveMode \/ ReopenMode
    \/ Tick \/ Untick \/ Refresh \/ Send
    \/ Escape \/ EscapeSend \/ OpenGuide

JobStep ==
    \/ VerifySender
    \/ \E h \in Hosts \cup {Local} : QueryGroup(h)
    \/ \E p \in Everyone : Begin(p) \/ Ends(p) \/ Raises(p)
    \/ Dispatched

Next ==
    \/ Keys
    \/ JobStep
    \/ \E p \in Everyone : Accept(p) \/ StrayArrives(p)
    \/ PollSend
    \/ PollDiscovery \/ DeadlinePasses
    \/ \E h \in Hosts : ProbeAnswers(h) \/ CacheExpires(h)

Spec == Init /\ [][Next]_vars

\* The loop polls ten times a second, a deadline passes, and no command of the
\* job runs longer than its time limit.  Nobody has to press a key.
FairSpec ==
    /\ Spec
    /\ WF_vars(PollDiscovery) /\ WF_vars(DeadlinePasses)
    /\ WF_vars(PollSend) /\ WF_vars(JobStep)

-----------------------------------------------------------------------------
(* Properties.                                                             *)

\* Every variable has its type.
TypeOK ==
    /\ screen \in {"discovery", "mode", "edit", "closed"}
    /\ returning \in BOOLEAN /\ remote \in BOOLEAN
    /\ mode \in {"delegate", "direct"}
    /\ shown \in [Agents -> {"none", "stale", "fresh"}]
    /\ selected \subseteq Agents
    /\ cache \in [Hosts -> Entries]
    /\ discovery \in {"off", "on", "late"}
    /\ pending \subseteq Hosts
    /\ answer \in [Hosts -> Answers]
    /\ starts \in 0 .. MaxStarts
    /\ job \in {"off", "verify", "dispatch", "done"}
    /\ verdict \in {"", "ok", "gone", "error"}
    /\ cancel \in BOOLEAN /\ aborted \in BOOLEAN
    /\ outcome \in [Everyone -> Outcomes]
    /\ stray \in [Everyone -> 0 .. MaxLost]
    /\ got \in [Everyone -> 0 .. MaxLost + 2]
    /\ lost \in [Everyone -> 0 .. MaxLost]

\* However often a send is cancelled, half fails, or ends in doubt and is sent
\* again, a recipient (in a delegation the coordinator) gets one prompt for
\* each time the user ticked it, and one more at most for each time an
\* exception lost the result of a prompt to it (its tick then stays).
OnePromptPerTick == \A p \in Everyone : got[p] <= 1 + lost[p]

\* "Pending and definitely failed recipients remain selected": in direct mode a
\* send unticks only recipients that have the prompt, or may have it.
OnlyAnsweredUnticked ==
    [][Sending /\ ~(job' # "off") /\ mode = "direct" =>
          \A a \in selected \ selected' : outcome[a] \in {"success", "unknown"}]_vars

\* A ticked recipient is listed and up to date: whatever refreshes, caches and
\* late probes do to the list, no tick is left on an agent the user can no
\* longer see or could not have ticked, so a send goes to all that are ticked.
TicksAreOffered == \A a \in selected : shown[a] = "fresh"

\* A discovery comes to its end, and so does a send.
PopupSettles ==
    /\ (discovery # "off") ~> (discovery = "off" \/ screen = "closed")
    /\ (job # "off") ~> (job = "off")
=============================================================================
