---------------------------- MODULE SkillInstall ----------------------------
(***************************************************************************)
(* The skill installer: install_skill replaces an installed skill          *)
(* directory by way of a staged copy and a backup, for the targets of a    *)
(* command (install all) or for those picked in the popup.  Installers run *)
(* at the same time, the user adds files of his own to an installed skill, *)
(* any call to the file system fails, Ctrl+C arrives before or after any   *)
(* of them, and a process is killed.                                       *)
(*                                                                         *)
(* A directory is a function from file names to contents; one that does    *)
(* not exist is Missing.  A link, a plain file and an unrelated directory  *)
(* at the destination are one case, a tree that is not Managed.  A step    *)
(* holds one call to the file system.                                      *)
(***************************************************************************)
EXTENDS Naturals, Sequences

CONSTANTS
    Commands,     \* noninteractive installers
    Popups,       \* interactive installers
    Targets,      \* the destinations (agent and scope)
    Fresh,        \* those where nothing is installed yet
    Source,       \* files of the bundled skill
    Extras,       \* files a user may keep in an installed skill
    Nowhere,      \* no target
    MaxMishaps    \* bound on failing calls, interruptions and kills

Installers == Commands \cup Popups
Files == Source \cup Extras

ASSUME InstallersDistinct == Commands \cap Popups = {}
ASSUME FilesDistinct == Source \cap Extras = {} /\ Source # {}
ASSUME NowhereIsNothing == Nowhere \notin Targets \cup Installers
ASSUME FreshAreTargets == Fresh \subseteq Targets
ASSUME MishapsBounded == MaxMishaps \in Nat

VARIABLES
    dest,         \* what is at each destination
    left,         \* backups in staging directories that nobody will remove
    pc,           \* where each installer is
    todo,         \* the targets a command still has to do, the present one first
    target,       \* the target an installer works on
    listing,      \* the files copytree has still to copy
    staged,       \* staging_root / "skill"
    backup,       \* staging_root / "previous"
    raised,       \* the exception on its way out of install_skill
    said,         \* how the last installation of each installer ended
    mishaps,
    before,       \* ghost: the destination when install_skill looked at it
    seen,         \* ghost: the user's files that were copied
    disturbed,    \* ghost: somebody else changed that destination since
    owned,        \* ghost: files the user put into each destination
    excused       \* ghost: of these, the ones lost in a known window

diskVars == <<dest, left>>
jobVars == <<pc, todo, target, listing, staged, backup, raised, said>>
ghostVars == <<before, seen, disturbed, owned, excused>>
vars == <<diskVars, jobVars, mishaps, ghostVars>>

-----------------------------------------------------------------------------
(* Directories.                                                            *)

Contents == {"absent", "old", "new", "own", "link"}
Trees == [Files -> Contents]

Missing == [f \in Files |-> "absent"]
Exists(tree) == tree # Missing
Present(tree) == {f \in Files : tree[f] # "absent"}
Owned(tree) == {f \in Extras : tree[f] = "own"}

\* _is_managed_destination: the skill's own files are there.
Managed(tree) == Source \subseteq Present(tree)

\* _check_destination_paths: none of the files to be written is a link.
Linked(tree) == \E f \in Source : tree[f] = "link"

\* _matches_source: every bundled file is there with the same contents.
Matches(tree) == \A f \in Source : tree[f] = "new"

\* copytree(source, ..., dirs_exist_ok=True): the rest stays as it is.
Overlaid(tree) == [f \in Files |-> IF f \in Source THEN "new" ELSE tree[f]]

\* installation_status: what the popup shows and asks before it installs.
Status(tree) ==
    CASE ~Exists(tree)                   -> "missing"
      [] ~Managed(tree) \/ Linked(tree)  -> "conflict"
      [] Matches(tree)                   -> "current"
      [] OTHER                           -> "outdated"

\* Skills a user may have: an older one, a changed or damaged one, this one,
\* one with a link inside, each with or without files of his own.
Installed(version, own) ==
    [f \in Files |-> IF f \in Source THEN version
                     ELSE IF f \in own THEN "own" ELSE "absent"]

\* Something else of that name.
Foreign == [f \in Files |-> IF f \in Extras THEN "own" ELSE "absent"]
-----------------------------------------------------------------------------
(* Bookkeeping.                                                            *)

\* i changes destination t: whoever else works on it is disturbed.
Put(i, t, tree) ==
    /\ dest' = [dest EXCEPT ![t] = tree]
    /\ disturbed' = [j \in Installers |->
                        disturbed[j] \/ (j # i /\ target[j] = t)]

Go(i, l) == pc' = [pc EXCEPT ![i] = l]

Mishap == mishaps < MaxMishaps /\ mishaps' = mishaps + 1

\* The exception e leaves the block and the handler at l takes over.
Raise(i, e, l) ==
    /\ raised' = [raised EXCEPT ![i] = e]
    /\ Go(i, l)

\* install_skill is over, as outcome says; staging_root is gone or left.
Finish(i, outcome) ==
    /\ said' = [said EXCEPT ![i] = outcome]
    /\ staged' = [staged EXCEPT ![i] = Missing]
    /\ backup' = [backup EXCEPT ![i] = Missing]
    /\ listing' = [listing EXCEPT ![i] = {}]
    /\ raised' = [raised EXCEPT ![i] = "none"]
    /\ target' = [target EXCEPT ![i] = Nowhere]
    /\ before' = [before EXCEPT ![i] = Missing]
    /\ seen' = [seen EXCEPT ![i] = {}]

\* A command goes on with the next target only after a success; a popup
\* shows an error and waits for the next key, but Ctrl+C closes it.
NextTarget(i, outcome) ==
    IF i \in Popups
    THEN /\ Go(i, IF outcome = "interrupted" THEN "done" ELSE "idle")
         /\ UNCHANGED todo
    ELSE IF outcome = "installed" /\ Len(todo[i]) > 1
    THEN /\ todo' = [todo EXCEPT ![i] = Tail(@)]
         /\ Go(i, "idle")
    ELSE Go(i, "done") /\ UNCHANGED todo

-----------------------------------------------------------------------------
(* install_skill.                                                          *)

Take(i, t, l) ==
    /\ target' = [target EXCEPT ![i] = t]
    /\ disturbed' = [disturbed EXCEPT ![i] = FALSE]
    /\ Go(i, l)

\* install_selected: the command turns to its next target.
Select(i) ==
    /\ i \in Commands
    /\ pc[i] = "idle"
    /\ todo[i] # <<>>
    /\ Take(i, Head(todo[i]), "check")
    /\ UNCHANGED <<diskVars, todo, listing, staged, backup, raised, said, mishaps,
                   before, seen, owned, excused>>

\* Enter in the popup, on any target: one that is current is left alone.
Pick(i, t) ==
    /\ i \in Popups
    /\ pc[i] = "idle"
    /\ IF Status(dest[t]) = "current"
       THEN /\ said' = [said EXCEPT ![i] = "current"]
            /\ UNCHANGED <<pc, target, disturbed>>
       ELSE /\ Take(i, t, "check")
            /\ UNCHANGED said
    /\ UNCHANGED <<diskVars, todo, listing, staged, backup, raised, mishaps,
                   before, seen, owned, excused>>

Refused(tree) == Exists(tree) /\ (~Managed(tree) \/ Linked(tree))

\* The checks before anything is touched; then the staging directory is made.
Check(i) ==
    /\ pc[i] = "check"
    /\ IF Refused(dest[target[i]])
       THEN /\ Finish(i, "failed")
            /\ NextTarget(i, "failed")
       ELSE /\ Go(i, "stage")
            /\ before' = [before EXCEPT ![i] = dest[target[i]]]
            /\ UNCHANGED <<todo, target, listing, staged, backup, raised, said, seen>>
    /\ disturbed' = [disturbed EXCEPT ![i] = FALSE]
    /\ UNCHANGED <<diskVars, mishaps, owned, excused>>

\* copytree lists an installed skill ...
Stage(i) ==
    /\ pc[i] = "stage"
    /\ IF Exists(dest[target[i]])
       THEN /\ listing' = [listing EXCEPT ![i] = Present(dest[target[i]])]
            /\ Go(i, "copy")
       ELSE Go(i, "overlay") /\ UNCHANGED listing
    /\ UNCHANGED <<diskVars, todo, target, staged, backup, raised, said, mishaps,
                   ghostVars>>

\* ... and copies what it has listed, file by file; one that has gone in the
\* meantime is an error.
CopyFile(i, f) ==
    /\ pc[i] = "copy"
    /\ f \in listing[i]
    /\ LET content == dest[target[i]][f] IN
       IF content = "absent"
       THEN /\ Raise(i, "error", "clean")
            /\ UNCHANGED <<listing, staged, seen>>
       ELSE /\ staged' = [staged EXCEPT ![i][f] = content]
            /\ listing' = [listing EXCEPT ![i] = @ \ {f}]
            /\ seen' = [seen EXCEPT ![i] = @ \cup ({f} \cap Extras)]
            /\ Go(i, IF listing'[i] = {} THEN "overlay" ELSE "copy")
            /\ UNCHANGED raised
    /\ UNCHANGED <<diskVars, todo, target, backup, said, mishaps, before, disturbed,
                   owned, excused>>

\* Mutant: the bundled files are written straight to the destination.
OverlayInPlace(i) ==
    /\ pc[i] = "overlay"
    /\ \E f \in Source :
          LET tree == [dest[target[i]] EXCEPT ![f] = "new"] IN
          /\ Put(i, target[i], tree)
          /\ Go(i, IF Matches(tree) THEN "clean" ELSE "overlay")
    /\ UNCHANGED <<left, todo, target, listing, staged, backup, raised, said, mishaps,
                   before, seen, owned, excused>>

\* The bundled files are copied over it.
Overlay(i) ==
    /\ pc[i] = "overlay"
    /\ staged' = [staged EXCEPT ![i] = Overlaid(@)]
    /\ Go(i, "look")
    /\ UNCHANGED <<diskVars, todo, target, listing, backup, raised, said, mishaps,
                   ghostVars>>

Look(i) ==
    /\ pc[i] = "look"
    /\ Go(i, IF Exists(dest[target[i]]) THEN "out" ELSE "in")
    /\ UNCHANGED <<diskVars, todo, target, listing, staged, backup, raised, said,
                   mishaps, ghostVars>>

\* The files of the user that go out with the old skill and were not copied.
Overlooked(i) == Owned(dest[target[i]]) \ seen[i]

\* os.replace(destination, backup) takes effect.
MoveOut(i) ==
    /\ Exists(dest[target[i]])
    /\ backup' = [backup EXCEPT ![i] = dest[target[i]]]
    /\ excused' = [excused EXCEPT ![target[i]] = @ \cup Overlooked(i)]
    /\ Put(i, target[i], Missing)

\* os.replace(staged, destination) takes effect: a directory that has
\* appeared there in the meantime is in its way.
MoveIn(i) ==
    /\ ~Exists(dest[target[i]])
    /\ staged' = [staged EXCEPT ![i] = Missing]
    /\ Put(i, target[i], staged[i])

\* os.replace(backup, destination) takes effect.
MoveBack(i) ==
    /\ ~Exists(dest[target[i]])
    /\ backup' = [backup EXCEPT ![i] = Missing]
    /\ Put(i, target[i], backup[i])

\* Mutant: what was moved out is never put back.
UnwindNever(i) == "clean"

\* An exception between the two renames: the backup is put back if there is
\* one.
Unwind(i) == IF Exists(backup'[i]) THEN "restore" ELSE "clean"

SwapOut(i) ==
    /\ pc[i] = "out"
    /\ IF Exists(dest[target[i]])
       THEN MoveOut(i) /\ Go(i, "in") /\ UNCHANGED raised
       ELSE Raise(i, "error", "clean") /\ UNCHANGED <<dest, backup, disturbed, excused>>
    /\ UNCHANGED <<left, todo, target, listing, staged, said, mishaps, before, seen,
                   owned>>

SwapIn(i) ==
    /\ pc[i] = "in"
    /\ UNCHANGED backup
    /\ IF Exists(dest[target[i]])
       THEN Raise(i, "error", Unwind(i)) /\ UNCHANGED <<dest, staged, disturbed>>
       ELSE MoveIn(i) /\ Go(i, "clean") /\ UNCHANGED raised
    /\ UNCHANGED <<left, todo, target, listing, said, mishaps, before, seen, owned,
                   excused>>

\* The exception that led here is raised again, unless the backup could not
\* be put back either.
Restore(i) ==
    /\ pc[i] = "restore"
    /\ IF Exists(dest[target[i]])
       THEN Raise(i, "retained", "clean") /\ UNCHANGED <<dest, backup, disturbed>>
       ELSE MoveBack(i) /\ Go(i, "clean") /\ UNCHANGED raised
    /\ UNCHANGED <<left, todo, target, listing, staged, said, mishaps, before, seen,
                   owned, excused>>

\* Mutant: the exception itself is the outcome.
OutcomeRaw(e) == e

\* What the caller is told.
Outcome(e) == CASE e = "none"      -> "installed"
                [] e = "error"     -> "failed"
                [] e = "interrupt" -> "interrupted"
                [] OTHER           -> "retained"

\* Mutant: the staging directory goes, whatever is in it.
LeftBehindNever(i) == {}

\* What stays on the disk when the staging directory of i is done with.
LeftBehind(i) == IF raised[i] = "retained" THEN {backup[i]} ELSE {}

\* The staging directory is removed, unless it holds the only copy.
Clean(i) ==
    /\ pc[i] = "clean"
    /\ left' = [left EXCEPT ![target[i]] = @ \cup LeftBehind(i)]
    /\ Finish(i, Outcome(raised[i]))
    /\ NextTarget(i, Outcome(raised[i]))
    /\ UNCHANGED <<dest, mishaps, disturbed, owned, excused>>

-----------------------------------------------------------------------------
(* What goes wrong: a call fails, or Ctrl+C comes before or after it took  *)
(* effect; the process is killed; the user works in the same directory.    *)

Exceptions == {"error", "interrupt"}

CopyFails(i) ==
    /\ pc[i] \in {"stage", "copy", "overlay", "look"}
    /\ Mishap
    /\ \E e \in Exceptions : Raise(i, e, "clean")
    /\ UNCHANGED <<diskVars, todo, target, listing, staged, backup, said, ghostVars>>

SwapOutFails(i) ==
    /\ pc[i] = "out"
    /\ Mishap
    /\ \/ \E e \in Exceptions : Raise(i, e, "clean")
          /\ UNCHANGED <<dest, backup, disturbed, excused>>
       \/ MoveOut(i) /\ Raise(i, "interrupt", Unwind(i))
    /\ UNCHANGED <<left, todo, target, listing, staged, said, before, seen, owned>>

SwapInFails(i) ==
    /\ pc[i] = "in"
    /\ Mishap
    /\ UNCHANGED backup
    /\ \/ \E e \in Exceptions : Raise(i, e, Unwind(i))
          /\ UNCHANGED <<dest, staged, disturbed>>
       \/ MoveIn(i) /\ Raise(i, "interrupt", Unwind(i))
    /\ UNCHANGED <<left, todo, target, listing, said, before, seen, owned, excused>>

\* Only an OSError is taken for a restoration that failed.
RestoreFails(i) ==
    /\ pc[i] = "restore"
    /\ Mishap
    /\ \/ /\ Raise(i, "retained", "clean")
          /\ UNCHANGED <<dest, backup, disturbed, excused>>
       \/ /\ Raise(i, "interrupt", "clean")
          /\ excused' = [excused EXCEPT ![target[i]] = @ \cup Owned(backup[i])]
          /\ UNCHANGED <<dest, backup, disturbed>>
       \/ MoveBack(i) /\ Raise(i, "interrupt", "clean") /\ UNCHANGED excused
    /\ UNCHANGED <<left, todo, target, listing, staged, said, before, seen, owned>>

\* No handler runs; the staging directory stays as it is.
Kill(i) ==
    /\ pc[i] \notin {"idle", "done"}
    /\ Mishap
    /\ left' = [left EXCEPT ![target[i]] =
                   @ \cup {b \in {backup[i]} : Exists(b)}]
    /\ Finish(i, "killed")
    /\ Go(i, "done")
    /\ UNCHANGED <<dest, todo, disturbed, owned, excused>>

\* The user puts a file of his own into an installed skill.
UserAdds(t, f) ==
    /\ f \notin owned[t]
    /\ Managed(dest[t])
    /\ dest[t][f] = "absent"
    /\ Put(Nowhere, t, [dest[t] EXCEPT ![f] = "own"])
    /\ owned' = [owned EXCEPT ![t] = @ \cup {f}]
    /\ UNCHANGED <<left, jobVars, mishaps, before, seen, excused>>

-----------------------------------------------------------------------------
Orders == {s \in UNION {[1..n -> Targets] : n \in {1, 2}} :
             \A m, n \in DOMAIN s : m # n => s[m] # s[n]}

\* What a destination may hold before.
Beginnings == {Missing, Foreign}
    \cup {Installed(v, own) : v \in {"old", "new", "link"}, own \in SUBSET Extras}

Init ==
    /\ dest \in [Targets -> Beginnings]
    /\ \A t \in Fresh : dest[t] = Missing
    /\ left = [t \in Targets |-> {}]
    /\ pc = [i \in Installers |-> "idle"]
    /\ todo \in [Installers -> Orders \cup {<<>>}]
    /\ \A i \in Installers : todo[i] = <<>> <=> i \in Popups
    /\ target = [i \in Installers |-> Nowhere]
    /\ listing = [i \in Installers |-> {}]
    /\ staged = [i \in Installers |-> Missing]
    /\ backup = [i \in Installers |-> Missing]
    /\ raised = [i \in Installers |-> "none"]
    /\ said = [i \in Installers |-> "none"]
    /\ mishaps = 0
    /\ before = [i \in Installers |-> Missing]
    /\ seen = [i \in Installers |-> {}]
    /\ disturbed = [i \in Installers |-> FALSE]
    /\ owned = [t \in Targets |-> Owned(dest[t])]
    /\ excused = [t \in Targets |-> {}]

Step(i) ==
    \/ Select(i) \/ \E t \in Targets : Pick(i, t)
    \/ Check(i) \/ Stage(i) \/ \E f \in Files : CopyFile(i, f)
    \/ Overlay(i) \/ Look(i) \/ SwapOut(i) \/ SwapIn(i) \/ Restore(i) \/ Clean(i)

Trouble(i) ==
    CopyFails(i) \/ SwapOutFails(i) \/ SwapInFails(i) \/ RestoreFails(i) \/ Kill(i)

Next ==
    \/ \E i \in Installers : Step(i) \/ Trouble(i)
    \/ \E t \in Targets, f \in Extras : UserAdds(t, f)

Spec == Init /\ [][Next]_vars

-----------------------------------------------------------------------------
(* Properties.                                                             *)

PCs == {"idle", "check", "stage", "copy", "overlay", "look", "out", "in",
        "restore", "clean", "done"}

\* Every variable has its type.
TypeOK ==
    /\ dest \in [Targets -> Trees]
    /\ left \in [Targets -> SUBSET Trees]
    /\ pc \in [Installers -> PCs]
    /\ todo \in [Installers -> Seq(Targets)]
    /\ target \in [Installers -> Targets \cup {Nowhere}]
    /\ listing \in [Installers -> SUBSET Files]
    /\ staged \in [Installers -> Trees]
    /\ backup \in [Installers -> Trees]
    /\ raised \in [Installers -> {"none", "retained"} \cup Exceptions]
    /\ said \in [Installers -> {"none", "current", "killed", "installed", "failed",
                                "interrupted", "retained"}]
    /\ mishaps \in Nat
    /\ before \in [Installers -> Trees]
    /\ seen \in [Installers -> SUBSET Extras]
    /\ disturbed \in [Installers -> BOOLEAN]
    /\ owned \in [Targets -> SUBSET Extras]
    /\ excused \in [Targets -> SUBSET Extras]

Uniform(tree) == \E c \in Contents : \A f \in Source : tree[f] = c

\* Nobody ever finds a mixture of two versions at a destination, or a part of
\* one, whatever fails and whoever else installs ("a failed read/write cannot
\* leave a mixed installation").
NeverMixed == \A t \in Targets : Uniform(dest[t])

\* A user's own file is never lost: it is at the destination, in the backup of
\* an installer that is still at work, or in one that was left on the disk.
\* Excused are the two windows of the code: a file that was added after the
\* copy, and a restoration that was itself interrupted.
LocalFilesKept ==
    \A t \in Targets : \A f \in owned[t] \ excused[t] :
        \/ dest[t][f] = "own"
        \/ \E i \in Installers : target[i] = t /\ backup[i][f] = "own"
        \/ \E tree \in left[t] : tree[f] = "own"

\* What install_skill is about to report is so, unless somebody else worked on
\* the same destination: success has installed the new skill with the files
\* that were there, an error has changed nothing, Ctrl+C left the one or the
\* other, and an error that names a backup names the old skill.
OutcomeIsTrue ==
    \A i \in Installers : pc[i] = "clean" /\ ~disturbed[i] =>
        LET now == dest[target[i]] IN
        CASE raised[i] = "none"      -> now = Overlaid(before[i])
          [] raised[i] = "error"     -> now = before[i]
          [] raised[i] = "retained"  -> /\ backup[i] = before[i]
                                        /\ now \in {Missing, Overlaid(before[i])}
          [] raised[i] = "interrupt" -> \/ now \in {before[i], Overlaid(before[i])}
                                        \/ backup[i] = before[i]
=============================================================================
