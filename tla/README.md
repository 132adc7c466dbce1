# Herdr Agent Messenger: verification project

TLA+ models of the Herdr Agent Messenger plugin (HAM), the TLC configurations that check them on small
instances, and TLAPS proofs of their central properties for every value of the
constants.  All references such as `request_lifecycle.py:728` are to the source
of the plugin; a module states what the code does, not what a document says of it.

Contents: [the system](#1-the-system) ·
[modules](#2-the-modules-and-the-code) · [runs](#3-the-runs) ·
[fairness](#4-fairness) · [proofs](#5-what-is-proved) ·
[findings](#6-where-the-code-and-its-documents-disagree) ·
[not modelled](#7-what-is-not-modelled) · [plan](#8-plan)

## 1. The system

The plugin runs beside the Herdr server, a terminal multiplexer whose panes hold
coding agents.  Nothing of it stays resident except, for as long as there is
work, one delivery worker.  Everything else is a short-lived process: a command
of `agent_skill_cli.py`, an event handler, a popup.  They share three things:
files in the state directory, `flock` locks beside those files, and the Herdr
server, which owns panes, focus, agent status and names and can be local or
behind SSH.

| component | state it keeps | operations | talks to |
|---|---|---|---|
| Request lifecycle (`request_lifecycle.py`, `send` / `request` / `request-status` of `agent_skill_cli.py`) | one JSON record per request, one lock per record | create, hold, recheck, release, commit, submit, refresh, wait, cancel, push, store the route | the recipient through the server; the worker through the record |
| Delivery worker and queue (`agent_delivery.py`) | `delivery-worker.lock`; the queue is the set of pending records | `ensure_worker`, `run_worker` with its idle exit, `reconcile`, `worker_tick`, notification | every record; started by commands, popup and startup |
| Remote rollout (`plugin_rollout.py`, `rollout_plugin.py`) | nothing of its own: what is installed on each host | preflight, install, stage, validate, migrate, activate, roll back | Herdr on each host, over SSH |
| Batch dispatch (`agent_batch_dispatch.py`, `batch_command`) | a queue of items, result slots, a cancel event, all in memory | resolve, refuse duplicates, start workers, take, send, report | one request lifecycle per item |
| Messenger popup and discovery (`agent_messenger.py`, `agent_directory.py`) | list, ticks, discovery and send job in memory; `agent-directory.json` | keys, probes with a deadline, cache, background send with its checks | local server, remote hosts, the agents |
| Agent labels (`agent_labels.py`) | names and pane metadata, on the server | event handler, reconcile, the label command | the server; one process per event |
| Agent spawn (`agent_spawn.py`) | a pane, an agent and a name, on the server | place, pick a name, start, report, check, clean up | the server; races the labelers |
| Agent routes (`agent_route.py`) | an opaque token, kept by the caller | encode, resolve among the agents there now, refresh | requests, batch, `read` |
| Output cursors (`agent_output.py`) | size, hash and end of an earlier screen, kept by the caller | delta, limit, clean | requests, `read` |
| Skill installer (`agent_skill_installer.py`) | an installed directory, a staging directory beside it | check, staged copy, replace, restore, clean up | file system; other installers, the user |
| Rendering and texts (`messenger_render.py`, `messenger_i18n.py`, `recipient_view.py`, `terminal_text.py`) | none, or a scroll position | layout, translation | popup |

### What is hard in it, and what makes it correct

*Requests.*  A held message has up to four kinds of processes working on its
record: the command that waits for it, the worker, `request-status`, and the
user's popup.  A prompt cannot be withdrawn and cannot be seen to have arrived,
so the record is saved as *possibly submitted* before it leaves.  Correct means:
one prompt at most, in spite of deaths and of answers that never came; a record
that never claims what did not happen; no save that undoes another process's
save; a hold that ends, and that ends by the user's decision once its deadline
has been noticed; evidence about the turn that was asked for, not about the one
that was running before.

*Worker.*  A worker leaves when the queue is empty, and a command that finds
the lock taken relies on its holder.  The holder may be a worker about to leave,
or another command's probe.  Correct means one worker at a time and no pending
request with nobody to look after it.

*Rollout.*  Every remote command can fail after it took effect, fail before, or
report a success that is none, and the rollback consists of the same commands.
Correct means that a report of success, of refusal or of restoration describes
the host, and that the target does not run before it is validated.

*Batch.*  Items name their agents by routes and by addresses; whether two of
them mean one agent is decided by reading identities one after the other, while
these change.  Correct means one prompt per agent, a report that is true for each item, and
no item lost to another's failure.

*Popup.*  Keys, a discovery with its own threads and deadline, a cache, and a
background job with a cancel key all change one list of ticked recipients.
Correct means that nobody is prompted twice for one tick, that only delivered
(or perhaps delivered) recipients lose theirs, and that no tick is left where
the user cannot see it.  An exception in one worker takes every result of the
job with it; what can be promised then is no more than one further prompt for
each result that was lost.

*Names.*  Every event starts a handler of its own; several can be at work on one
agent, beside the startup reconcile, a spawn and the user.  Correct means that
every agent ends with a name, is shown with that one, and that what spawn
reports is what it leaves behind.

*Installer.*  Two renames replace a directory in which the user may keep files
of his own and on which other installers may be at work; any call can fail, and
Ctrl+C arrives before or after any of them.  Correct means that nobody ever finds half a
skill, that no file of the user is lost, and that what is reported is so.

*Routes and reading.*  A token and a cursor outlive the agent they were made
for.  Between two reads the agent may be replaced, renamed, resumed elsewhere;
its screen may scroll, be redrawn or repeat itself.  Herdr may or may not tell an agent's
revision and place.  Correct means that a route leads
to its agent or nowhere, that a delta is never taken between two agents'
screens, and that the earlier screen and the delta make up the present one.

`PROJECT.json` lists these hazards one by one, each at its line with the
properties that watch it.

## 2. The modules and the code

`PROJECT.json` maps every definition to the lines it stands for.  A step of a
module is what the code does between two points at which another actor can
notice: a lock taken or dropped, a file saved, a command to the server.
Variables marked *ghost* in the modules are written and never read by the steps.
Operators commented *Mutant* are plausible bugs; each property is also checked
to fail when its mutant replaces the definition beside it.

### HeldDelivery, RequestLifecycle

`HeldDelivery` is the promise, with no processes, locks or files: a draft is held or
released; a held message expires to *awaiting* and leaves that stage only by a
push or by a withdrawal; one prompt at most arrives, between release and close.

`RequestLifecycle` is one record.  `rec` is `<request_id>.json`, `lock` its lock
file, `mem[p]` the dictionary a process has loaded, `snap[p]` what it last
resolved about the recipient, `force[p]` the worker's argument to
`deliver_deferred`.

| actions | code |
|---|---|
| `Begin` … `SendNow`, `CancelSubmission`, `TransmitDirect` | `run` and `enqueue`: first look, hold, or immediate submission without the lock |
| `BeginTick`, `BeginStatus`, `WaitPoll` | the three ways into `deliver_deferred` / `refresh` |
| `LoadHeld`, `LoseHeld`, `RecheckHeld`, `KeepHolding`, `ReleaseHeld` | `deliver_deferred` under the record's lock |
| `Commit`, `Transmit`, `RecordAnswer` | `_submit`: the save before the prompt, the prompt, the save of its answer |
| `LoadSubmitted`, `Observe`, `Poll`, `StopPolling` | `_refresh_record`, `run`'s polling |
| `WaitTimeout`, `WaitCancel`, `MarkCancelled` | `_wait_deferred` |
| `Notify`, `SaveNotified`, `UserPush`, `UserCancel` | the worker's notification, the popup's decisions |
| `StoreRoute` | `request-status` and `request` merging their metadata into the latest record |
| `Crash`, `FocusMoves`, `OccupantChanges`, turns, `DeadlinePasses`, `Damage` | a death of any process between any two steps, and the world |

A lock is released by the death of its holder, as `flock` is.  `Transmit` has
all the outcomes of a command with a timeout: accepted, refused, or unknown with
and without the prompt having arrived.  Clocks are abstracted to two events, the
passing of the hold's deadline and of the watch.

### DeliveryWorker

The queue as a set of request ids.  `Hold`, `Nudge` are a command that has just
saved a held record, and a popup decision or startup reconcile; `ProbeBusy`,
`ProbeFree`, `ProbeEnds`, `SpawnWorker`, `SpawnFails` are `ensure_worker`, whose
probe *holds* the worker's lock for a moment; `TakeLock`, `Tick`, `CheckQueue`,
`DropLock`, `Recheck` are `run_worker` with the second look at the queue after
the lock is dropped; `Die` is a death, with the lock released.  A record's inner life is
`RequestLifecycle`'s subject.

### PluginRollout

`site[h]` is what is really installed on a host under the new and the legacy
id, `previous` what preflight recorded of it, `step` the command that runs next.
One definition (`Change`) gives every command its outcomes: it worked, it failed
with or without effect, or it lied (reported success without effect).  A listing
that is read back cannot lie.  Each action is the command of one step name
of the code, with the success and failure exits of `_rollout_host`,
`_abort_after_install` and `_rollback_installation`.

### BatchDispatch

The main thread prepares the items in order (`Refuse`, `Keep`,
`ResolutionFails`, `Start`), the workers run `Look`, `TakeItem`, `NothingLeft`,
`Check`, `Send`, `Answer`, and `Report` fills in what nobody answered.  An
agent's identity is what `agent_directory.py:63` makes of it: fixed if its
provider reports a session id, movable (`Move`) if not.  The single-request
sender is external here; it answers anything or raises.

### MessengerPopup

`screen`, `mode`, `selected`, `shown` are `MessengerApp`'s; `discovery`,
`pending`, `answer` are `RemoteDiscovery`'s threads and queue; `job`, `outcome`,
`cancel` are `dispatch_prompts` in the send thread.  `Accept` is the moment a
prompt really arrives, apart from the moment its command ends, so that a
command that is cut off may or may not have delivered.  An exception (`Raises`, or in
`QueryGroup`) lets the other workers finish and then loses all results
(`Dispatched`, `JobFails`: `agent_directory.py:969`, `agent_messenger.py:970`);
a command that was running is not killed and may arrive at any later moment
(`stray`, `StrayArrives`).  `got` (ghost) counts the prompts a recipient
received since it was last ticked, `lost` (ghost) the results of prompts to it
that exceptions lost since.

### AgentNames

`name`, `display`, `session` are the server's, one per pane; `due` are events
whose handler process has not started, `work[l]` is what labeler process `l` has
in hand.  `Handle`, `Fetch`, `Reconcile`, `Rename`, `Again`, `Report`, `Clear`
are `agent_labels.py`; `SpawnCreates` … `SpawnCloses` are `agent_spawn.py`,
including the cleanup, and the exception that goes past it (`SpawnRaises`).
Candidates are tried in the deterministic order of
`candidates()`: palette, stride, and a start given by the pane's seed.  Assumed
of the server: `agent start` and `agent rename` register a name atomically and
refuse one that is in use, and a rename overwrites whatever name the agent had.

### SkillInstall

A directory is a function from file names to contents: `dest[t]` what is at a
destination, `staged[i]` and `backup[i]` the two trees in an installer's staging
directory, `raised[i]` the exception on its way out, `left[t]` the backups that
stay on the disk for good.

| actions | code (`agent_skill_installer.py`) |
|---|---|
| `Select`, `Pick` | `install_selected`'s next target; Enter in the popup, which leaves a current skill alone |
| `Check` | the refusals (link, unrelated directory) before the staging directory is made |
| `Stage`, `CopyFile`, `Overlay` | the two `copytree` calls; the first one lists, then copies file by file, and others may change the directory meanwhile |
| `Look`, `SwapOut`, `SwapIn` | `destination.exists()` and the two `os.replace` calls |
| `Restore`, `Clean` | the handler that puts the backup back, `finally` |
| `CopyFails`, `SwapOutFails`, `SwapInFails`, `RestoreFails`, `Kill` | a failing call, Ctrl+C before or after it took effect, a kill |
| `UserAdds` | the user puts a file of his own into an installed skill |

`before`, `seen`, `disturbed`, `owned` and `excused` are ghosts: what the
installer found, which of the user's files it copied, whether somebody else
changed the destination since, which files are the user's, and which of them
fell into one of the two windows named in [section 6](#6-where-the-code-and-its-documents-disagree).

### AgentRead

`agent[p]` is the agent Herdr lists in a pane, `text[p]` the recent text of it;
`route` and `cursor` are the tokens a reader holds, `found` the agent
`read_command` has resolved and not yet read, `said` its answer.  `Address` and
`Resolve` are the first call, `Read` the second, which reads *whoever answers to the
target by then*.  Resolution (`Resolved`, `Successors`, `BasicallyContinues`,
`StrictlyContinues` with what makes a token or a candidate ready for it)
and the delta (`NewFrom`, `ExactEnd`, `OverlapEnd`) are operators translated
from `agent_route.py` and `agent_output.py`; the right-to-left search of
`_find_exact_snapshot_end` is a recursive function.  Text is a sequence of glyphs;
a hash is taken for the value itself (no collisions), a byte for a glyph.
An agent's `told` is what Herdr tells of its place (workspace; terminal and
working directory), its revision 0 when Herdr tells none, as `_agent_revision`
has it.  Assumed of Herdr, because it is not part of this code: a revision that
*is* told is new to the pane whenever it moves, and moves whenever the agent is
replaced; a pane keeps its workspace, terminal and directory.

## 3. The runs

Twelve runs; each asks one question.  "Deadlock" is not checked in any of them:
every system here comes to rest (a closed request, an empty queue, a finished
report, a closed popup, an exhausted bound).  That requests, the worker's queue,
batches and the popup get there is stated by liveness properties.

| run | question | instance | properties |
|---|---|---|---|
| `lifecycle_delivery` | Can interleavings, a death or a damaged file deliver twice, reopen a record, or make it lie? | a held `send`, 2 workers, 1 `request-status`, popup, focus moves, damage, 1 death | `TypeOK`, `AtMostOnePrompt`, `SubmittedIsTruthful`, `TerminalIsFinal`, refinement `KeepsPromise` |
| `lifecycle_recipient` | Who is addressed, and what counts as evidence, while the recipient changes? | `request` and `send`, 1 worker, 2 occupants, focus, replacement, loss, foreign turns, 1 death | `SettledAfterItsTurn`, `AddresseeGetsIt`, `NoticeOnlyWhileAwaiting` |
| `lifecycle_liveness` | Does a hold end, is a push honoured, is the user told? | `request`, 1 worker, focus that flickers for ever | `HoldEnds`, `PushHonoured`, `DecisionAnnounced` |
| `worker_queue` | Can the idle exit, a probe and a spawn strand a request? | 2 commands, 2 worker processes, 2 requests, 2 nudges, 1 fault | `TypeOK`, `OneTicker`, `OnlyFaultsStrand`, `Served` |
| `rollout` | Do the reports describe the hosts? | 2 hosts, any installation before, any 2 commands going wrong, both profiles | `TypeOK`, `SuccessIsReal`, `OnlyReportedDamage`, `ActivatedOnlyValid`, `LegacyKeptUntilReplaced` |
| `batch` | One prompt per agent, true reports, nothing dropped? | 3 items of every shape, 2 agents (one with a session id), 2 threads, a cancel, one identity change | `TypeOK`, `OnePromptPerSession`, `ReportIsTrue`, `ItemsServed` |
| `popup` | Who stays ticked, and is anyone prompted twice? | a local and a remote agent beside the coordinator, 2 discoveries, 1 exception in a send | `TypeOK`, `OnePromptPerTick`, `TicksAreOffered`, `OnlyAnsweredUnticked`, `PopupSettles` |
| `names` | Is everybody named, and shown so? | 2 panes and the one spawn makes, 3 names and a manual one, 3 labelers, 1 move, failing commands | `TypeOK`, `AgentsGetNamed`, `ShownAsNamed`, `SpawnReportIsTrue` |
| `install` | Can an installation that fails, or meets another, leave a broken skill, lose a file or report what is not so? | 1 command with one or two targets and 1 popup, 2 destinations (one fresh), 2 bundled files and 1 of the user's, 1 mishap | `TypeOK`, `NeverMixed`, `LocalFilesKept`, `OutcomeIsTrue` |
| `read` | Do tokens stay with their agent, and do deltas add up to the screen? | 2 panes, 1 name, places that are told and revisions that are told or not, a screen of 4 glyphs, a cursor's tail of 3, an overlap of 2, 2 changes, 2 writes | `TypeOK`, `RouteKeepsItsAgent`, `AnswerCompletesScreen` |
| `lifecycle_autopush`, `lifecycle_correlation` | counterexamples to a documented statement | see [section 6](#6-where-the-code-and-its-documents-disagree) | one each |

### Why these bounds

*Requests.*  Exactly one process holds the lock at a time, and a process
outside it holds at most one stale fact (its `force` argument, or a copy it
will merge).  Two workers, a viewer, the caller and the popup give every pair
of the roles, with a third to interfere.  One death suffices to break each step
from the next; a second adds no new kind of state because a process that died
holds nothing.  The safety properties of these runs are also proved, without bounds.

*Worker.*  A stranding needs a request, a command that relies on a lock and a
holder that is about to drop it: two of each kind cover the case where that
holder is itself a probe.  `Served` quantifies over the faults so far, so that
a later fault excuses nothing that came before.

*Rollout.*  A host's course never looks at another's; the second host is there
for the state that is carried over (`previous`, `lies`, `host`).  Two faults make a step fail
and then a step of its rollback.

*Batch.*  A duplicate needs two items, and a third shows what they do to a
bystander.  Two threads and three items make one thread take two.

*Popup.*  The local server is asked synchronously, the remote one
through a discovery; the coordinator is the third party of a delegation.  Two
discoveries are what a late answer needs.  One lost result (`MaxLost`) is what
tells a prompt that is sent again after it from one that is sent again for
another reason; with two the invariants hold as well.  With a third agent the run takes too long to be
run routinely; the safety properties are proved for any number.

*Names.*  Three names for at most three agents is the tightest palette in which
everybody can be named.  Three labelers put two at one agent and a third beside
them.  One move of the world (an agent that comes or leaves, a rename by the
user, a status change) on top of the startup, the spawn and its events is what
finishes in a minute; the same without the spawn but with three moves (868,580
states) was checked too and holds.  All four properties are proved without bounds.

*Install.*  A command and a popup are the two ways an installer goes on after an
error.  Both can be at one destination, and the fresh one covers the case
without a backup.  One mishap reaches every handler with a bystander in it; the
restoration that fails as well needs no second one, because a second installer
can put something in its way.  The three safety properties are proved without bounds.

*Read.*  Sizes keep the order of the code's: an overlap is shorter than the tail, the
tail shorter than a screen, an answer shorter still.  Two glyphs of overlap are
the least that can match partly; two writes scroll, redraw or repeat and then
append, which is what a search from the right can get wrong; two changes
replace an agent and then name, resume or revise the new one.  What Herdr tells
of places matters to routes alone: with a screen of one glyph, three changes and
places told in full, in part or not at all `RouteKeepsItsAgent` was checked too
(2,194,095 states) and holds.  Both action
properties are proved without bounds.  An answer that is
cut to `--max-bytes` says so, and the property is about the ones that are not.

## 4. Fairness

* `RequestLifecycle`: weak fairness for every step a live process can take
  alone.  Strong fairness for acquiring a record's lock (`BeginTick`, `Notify`,
  `LoadHeld`, `LoadSubmitted`): `fcntl.flock` blocks and the kernel wakes
  waiters, and the worker visits each record on every tick.  Weak fairness for
  `DeadlinePasses`: time passes.  Nothing is assumed of the user, of focus, of
  the recipient or of the caller's patience.
* `DeliveryWorker`: weak fairness for each process that is alive.  None for
  `Hold`, `Nudge`, deaths, or `ClosedElsewhere`.
* `BatchDispatch`: weak fairness of the main thread and of each worker thread.
  The sender ends because every command under it has a timeout.
* `MessengerPopup`: weak fairness of the two polls of the curses loop (it wakes
  ten times a second), of the discovery deadline and of the job.  None for
  keys, for probes, or for a prompt to arrive.
* `PluginRollout`, `AgentNames`, `SkillInstall` and `AgentRead` are checked for
  safety only.  The first and the third are sequences of commands that each end;
  the properties of `AgentNames` speak of the moments when all handlers are through.

## 5. What is proved

Every theorem below holds for all values of the constants that satisfy the
named assumptions of the modules: distinct processes, a non-empty and finite
set of worker threads, bounds that are natural numbers, a stride that is coprime
with the number of names, and so on.  One has a hypothesis of its own:
`AgentsGetNamedHolds` asks for fewer panes (beside the one of spawn) than names
(`FewPanes`), without which a name need not be left.  None depends on fairness.

| module | theorems |
|---|---|
| `RequestLifecycle_proofs` | `TypeCorrect`, `InvariantHolds`, `AtMostOnePromptHolds`, `SubmittedIsTruthfulHolds`, `NoLostUpdateHolds`, `TerminalIsFinalHolds`, `AddresseeFixedHolds`, `AddresseeGetsItHolds`, `DecisionRespectedHolds`, `EvidenceKeptHolds`, `NoticeOnlyWhileAwaitingHolds`, `SettledAfterItsTurnHolds`, and `KeepsPromiseHolds`: the record, its lock and its processes implement `HeldDelivery` |
| `DeliveryWorker_proofs` | `TypeCorrect`, `OneTickerHolds`, `OnlyFaultsStrandHolds` |
| `PluginRollout_proofs` | `TypeCorrect`, `InvariantHolds`, `SuccessIsRealHolds`, `OnlyReportedDamageHolds`, `NeverBothRunningHolds`, `LegacyKeptUntilReplacedHolds`, `ActivatedOnlyValidHolds` |
| `BatchDispatch_proofs` | `TypeCorrect`, `InvariantHolds`, `ReportIsTrueHolds`, `OnePromptPerSessionHolds` |
| `MessengerPopup_proofs` | `TypeCorrect`, `InvariantHolds`, `TicksAreOfferedHolds`, `OnePromptPerTickHolds`, `OnlyAnsweredUntickedHolds` |
| `SkillInstall_proofs` | `TypeCorrect`, `NeverMixedHolds`, `LocalFilesKeptHolds`, `OutcomeIsTrueHolds` |
| `AgentNames_proofs` | `EveryAliasIsCandidate`, `TypeCorrect`, `SpawnReportHolds`, `ShownAsNamedHolds`, `AgentsGetNamedHolds` |
| `AgentRead_proofs` | `TypeCorrect`, `RouteKeepsItsAgentHolds`, `PlainTextHolds`, `AnswerCompletesScreenHolds` |

**Requests.**  `AtMostOnePrompt` says nothing of why a second process does not
submit as well.  The invariant does: a process is inside the lock exactly at
certain stages (`LockDiscipline`); the caller's unlocked part runs while nobody
else can know the record (`AloneWhilePrivate`); whoever is inside works on the
record as it is on disk (`CopiesCurrent`), so what it established on entry
(still held, not terminal) is true until its own save (`StageOfProcesses`); and
a record that is held has no prompt behind it, while one that is being submitted
has none before `Transmit` (`PromptsBehind`, `PromptsWhileSubmitting`).
The third part of the module lists what a step may do to the record at all
(`RecordMove`), proves that every step is on the list, and derives the action
properties and the refinement from it.  `AddresseeGetsIt` needs a second
invariant: whoever is between its look at the recipient and the prompt still
holds a look at the addressee (`AddresseeSeen`), and every way of being turned
away leads out of those steps.

`NoLostUpdate`, `EvidenceKept`, `DecisionRespected`, `AddresseeFixed` and
`NeverBothRunning` (of the rollout) are proved and need no run.

**Worker.**  `OneTicker` is inductive with the types.  For `OnlyFaultsStrand`,
whoever owns the lock is responsible for the queue (`OwnerResponsible`), and
each way out of a responsible stage leaves somebody responsible or an empty queue.

**Rollout.**  `Evidence` says for each step what the commands before it have
established unless one of them lied, and that a reading of the list removes the
doubt; `Recorded` that `previous` is what the host was.  The reports follow from
the steps at which they are made.

**Batch.**  Each item is accounted for by exactly one of: the queue, the one
thread that took it, its result slot (`Accounted`); a batch some of whose
targets were left unresolved has its cancel event set and hands over nothing
(`Halted`).  So the items that are handed over carry distinct identities
(`Unique`, `Apart`), and a session's identity never moves (`Steady`).

**Popup.**  No agent of a host whose answer is awaited is listed as up to date
(`PendingIsStale`), and the agents a job works for are out of the reach of any
discovery (`JobIsApart`); `Stages` and `Counts` bound how far, and how often,
each recipient can have been prompted at each stage of the job.  Who is ticked and
not reached by the job at work has had no prompt beyond the results that were lost
(`Covered`), the commands nobody watches any more included, and each of these
belongs to a result that was lost or is about to be (`Strays`).

**Installer.**  What is at a destination got there whole (`OnDisk`), because what
an installer moves in is complete by then, and what it moves back was complete
when it was moved out.  `JobOK` says what an installer has in its hands at each
step; in particular, once the old skill is out, the staged copy holds every file of
the user that went out with it, or the file is excused.  `Kept` names the place of each
such file; a backup counts only while its owner's course ends in a restoration, in
the completed copy, or in a directory that is left.  `Truth` ties the destination
to what the check found, as long as nobody else changed it, and gives `OutcomeIsTrue`
at the end.  A step of one installer leaves the others' part alone (`Apart`,
`OthersKeep`), so that each action is considered for its own installer only.

**Evidence.**  For `SettledAfterItsTurn`, what the record says of the requested turn
must be true at every moment (`EvidenceOf`): a baseline is read before the prompt
leaves and nothing counts as evidence before it (`BaselineFirst`), and a recipient
found idle by the delivery on its way is not taken up with an older turn
(`IdleWhenFound`).  So a cycle that is seen later is that of the request, unless
somebody else's turn began in between, which the property excepts.

**Names.**  *Spawn*: the agent in the new pane is never without a name, so no
labeler ever starts on it (`NewIsNamed`, `OnlyOthersLabeled`), and only the user can
change what spawn reports.  *Display*: as long as no name comes free again
(`Steady`), the labelers of a pane all know the same seed (`Untouched`) and walk its
candidates in one order; whoever comes to a candidate has found all before it with
other agents (`InTurn`), and these keep theirs (`AliasStays`), so an agent's alias is
its first candidate that no other agent has (`InOrder`).  A second labeler of
the pane is turned down by that very name or, if the server lets an agent have
its own name again, gives it once more (`SameAgain`); what is reported is the name
the agent has (`Shown`).  *Nobody left over*: whoever is unnamed is waited for
(`Attended`), and a labeler that was turned down by every candidate has met as
many agents as there are names, since the candidates are distinct
(`CandidatesDiffer`) and the agents they name are others (`SomeNameIsLeft`, the
pigeonhole principle).  That strides visit every name once, as the comment at
`agent_labels.py:20` says, is derived from the coprimality it states
(`CoprimeDivides`, `EveryAliasIsCandidate`).

The attempt to prove `ShownAsNamed` showed an earlier form of it to be false: it
excused only the pane for which a command had failed.  With three labelers, a
failed look after `agent_name_taken` has one of them give a *named* agent another
name; the name that comes free is taken by the slower of two labelers of another
pane, after the faster has taken the next.  `Steady` names what is needed.

**Routes and reading.**  A revision that is told is told of one agent only, among
those the reader has met and those that are there now (`LivesTold`), because it is
none that was known before (`RevisionsGrow`).  So an identity tells its agent unless it
holds neither session nor revision (`IdentityTells`), and where identities do not
agree, the strict match asks for a revision that is told, the other one for the
registered name and the pane (`RouteLeadsToItsAgent`).
Of the deltas, `ExactEndFinds` and `OverlapEndFinds` say for any text and cursor
that the delta begins where the earlier screen ends, or as much of its end as the
overlap asks for, and `AnswerIs` that the answer is the rest of the screen from there,
so that the two end as the screen does.  That nothing is left out needs that
this is the true place: while text was only added or redrawn at its end, no
glyph stands anywhere twice (`PlainText`), and there is only one.
`ExactEnd` searches by a recursive function.  The library's induction theorems
cannot be used here, so that the function exists, and what it computes, is proved by the least
number at which it might not: `LeastNumber` follows from the well-foundedness of
`<`, which is stated without an operator parameter.

Only model-checked: liveness (`HoldEnds`, `PushHonoured`, `DecisionAnnounced`,
`Served`, `ItemsServed`, `PopupSettles`), which is out of the prover's reach.  Every
other property of a passing run is a theorem.

## 6. Where the code and its documents disagree

Each is a run that ends in a counterexample.

* **A held message can leave after its deadline without a push**
  (`lifecycle_autopush`, `NeverAutoPushedAfterTimeout`).  `deliver_deferred`
  compares the deadline only while the pane is focused
  (`request_lifecycle.py:726-735`), so a message whose first recheck after the
  deadline finds the pane unfocused goes out.  `docs/skill-guide.md:155`: "After
  the timeout, held messages never auto-push, even when focus later leaves."
  What does hold, and is proved, is `DecisionRespected`: once the record says
  that a decision is awaited, only a push releases it.
* **`response.correlated` can describe another turn** (`lifecycle_correlation`,
  `CorrelatedMeansRequestedTurn`).  Any working-to-idle cycle seen after the
  submission settles the request (`request_lifecycle.py:1048`), also one that
  somebody else started.  `docs/skill-guide.md:195` calls it the "fresh
  requested cycle".  `SettledAfterItsTurn` is the part that holds: without an
  intruder's turn, a settled request is one whose own turn ended.

Windows the code has, which the models contain.  The first seven are against the
words of a document, too; they are described here and have no run of their own.

* A send that raises forgets what it has delivered.  `_run_bounded_tasks` waits for
  all workers and then raises the first exception of any (`agent_directory.py:969`);
  `_dispatch_send_job` answers it with an empty result (`agent_messenger.py:970`).
  What `_run_command` catches itself (a command that cannot be started, is cut off
  or says too much) does not get there; a selector or a thread that cannot be made
  does.  All recipients stay ticked, the status says that the prompt could not be
  sent, and the next Ctrl+S prompts those again who have it.
  `docs/ui-reference.md:61`, of a cancelled send: "Recipients that already received
  the prompt, or whose acceptance is uncertain after an interrupted connection, are
  deselected."  What holds, and is proved, is `OnePromptPerTick`: one prompt for each
  tick, and one more at most for each result that was lost that way.
* A route can lead to another agent in the same pane.  The identity of an agent
  without a session id consists of host, pane, terminal, target and revision
  (`agent_directory.py:63`), and the revision is 0 where Herdr tells none
  (`agent_directory.py:149`).  An agent that takes the place of such a one has its
  identity, and the exact match (`agent_route.py:264`) comes before `strict_ready` is
  asked for.  `docs/ssh-and-routing.md:74`: "HAM does not silently reuse a stale pane
  occupant."  A cursor takes the two for one likewise.  What holds, and is proved
  under the assumption about revisions in section 2, is `RouteKeepsItsAgent`:
  nothing else leads a route astray.
* A spawn can fail without a word about cleanup.  An agent with an invalid revision
  anywhere in the list makes `discover()` raise a `ValueError` (`agent_spawn.py:234`),
  `spawn_command` catches `SpawnError` only (`agent_spawn.py:370`), and the command
  answers `internal_error`; the pane it made stays.  `docs/skill-guide.md:141`:
  "Startup failure includes cleanup information".  `SpawnReportIsTrue` is about
  spawn's own errors.
* Two items of a batch can reach one agent: identities are read one after the
  other (`agent_batch_dispatch.py:236`), and an agent without a session id that is
  renamed or restarted in between counts as two.  `docs/skill-guide.md:210`:
  "Duplicate resolved targets fail as `duplicate_route`".  For agents with a session
  id it holds and is proved (`OnePromptPerSession`).
* A name given by the user can be overwritten: `assign_label` looks once and
  renames later (`agent_labels.py:262`, `276`).  `README.md:23`: "Manually named
  agents are left unchanged."
* Ctrl+C *during* the restoration of a skill throws the backup away:
  `agent_skill_installer.py:308-316` retains it for an `OSError` only, and the
  `finally` then removes the staging directory.  `docs/skill-guide.md:19`: "If
  restoration also fails, the error identifies the retained backup."  In
  `LocalFilesKept` it is one of the two excused windows.
* A screen that is redrawn above its last bytes *and* then grows is answered with
  the new bytes alone: the end of the earlier screen is still found
  (`agent_output.py:464`), although the docstring of `compact_output` (`:505`) says
  that rewrites fall back to the whole screen.  `AnswerCompletesScreen`
  therefore asks for the whole screen only where text was added or redrawn at
  its end.
* A file the user adds to an installed skill after the installer has copied the
  directory goes out with the old skill and is removed with the backup
  (`agent_skill_installer.py:301`), the other excused window.
* Text that repeats the end of the earlier screen can make a delta begin at the
  repetition (`agent_output.py:447`): what is given still ends as the screen
  does, but what stands between the two places is not given.
* A route token that was made before the agent reported a session follows the
  process into a session it starts later; nothing recorded contradicts it.
* A look at an agent that fails after `agent_name_taken` is taken for an unnamed
  agent (`agent_labels.py:287`): an agent that has been named meanwhile is named
  again, and with three labelers at work some pane can end being shown with another
  name than its agent's.  `ShownAsNamed` holds, and is proved, where no name comes free that way.
* The recipient is resolved before it is prompted or read, so whoever replaces it
  in between gets the prompt (`request_lifecycle.py:706`, `872`; the popup
  likewise, `agent_directory.py:1042`) or shows its screen under the other's
  identity (`agent_skill_cli.py:789`).  `AddresseeGetsIt` bounds the first.
* A whole turn between two polls is never seen, so that a request need not
  settle; a `released` event that is handled late clears the label of the next
  agent (`agent_labels.py:330`); a placement that times out after the server has
  made the pane leaves a pane that spawn does not know of (`agent_spawn.py:263`); a
  rollout that is killed is not resumed.

## 7. What is not modelled

* Of routes, the encoding of a token and the rejection of malformed ones, and
  that agents of other hosts are no candidates; of cursors, their encoding and
  the removal of screen furniture (`clean_agent_text`).  `RequestLifecycle` and
  `BatchDispatch` take the result of resolving a route as a choice of the
  environment, and capture is abstracted to whether a reliable baseline and a
  reliable read were had; what these are made of is `AgentRead`'s subject.
* Of the installer, the popup's screen and the paths of its targets.  A link, a
  plain file and an unrelated directory at a destination are one case, a tree that is
  not managed; modes and times of files are left out.
* Rendering, translation, column widths, scrolling, text cleaning, parsing of
  arguments and of JSON: layout and data without state that another part reads.
* In the popup, the message editor and search; two popups saving the agent cache
  over each other (what is lost is found again).
* In the labeler, the legacy metadata source, which is cleared beside the
  current one; in spawn, the validation of arguments, and a kill of the process.
* In the rollout, reading the target out of git, the authorisation of host
  names, and the dry run, which runs no command.
* A pending record whose transport cannot be built keeps the worker running
  (`agent_delivery.py:246`): the model lets the recipient be unreachable for as
  long as it likes, which is the same to the queue.
* The launchers and the harness of the screen tests.

## 8. Plan

Written, in this order: `HeldDelivery` and `RequestLifecycle`, `DeliveryWorker`,
`PluginRollout`, `BatchDispatch`, `MessengerPopup`, `AgentNames`,
`SkillInstall`, `AgentRead`, each with its run and its proofs.  Next:

1. A composition of `AgentRead`'s routes with `BatchDispatch`, so that the
   identities a batch compares are those a route resolves to.
2. The held-messages popup as a process with a list of its own, of several
   records; so far its decisions are steps of `RequestLifecycle`.
