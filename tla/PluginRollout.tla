--------------------------- MODULE PluginRollout ---------------------------
(***************************************************************************)
(* plugin_rollout.py: one exact commit of the plugin is brought to a list  *)
(* of remote hosts, one after the other, over commands that may fail after *)
(* they took effect, fail before, or claim a success that is none.  Each   *)
(* host goes through preflight, install, stage, validation, migration from *)
(* the legacy plugin id and activation, and back again when a step fails.  *)
(***************************************************************************)
EXTENDS Naturals

CONSTANTS
    Hosts,       \* the selected SSH aliases
    MaxFaults    \* bound on commands that do not do what they report

ASSUME SomeHost == Hosts # {}
ASSUME FaultsBounded == MaxFaults \in Nat

VARIABLES
    site,        \* host -> the plugins installed under the new and legacy id
    start,       \* host -> what was installed when its rollout began
    profile,     \* which checks are wanted
    host,        \* the host that is being rolled out
    previous,    \* what preflight recorded for that host
    step,        \* the command that runs next
    report,      \* host -> the result that will be printed for it
    lies,        \* steps on this host that reported a success that was none
    faults       \* commands that went wrong so far

vars == <<site, start, profile, host, previous, step, report, lies, faults>>

Ids == {"new", "legacy"}

\* Commits: the target, an older one of each id, and a local link, which
\* cannot be installed again.
Commits == {"target", "old", "legacy_old"}
Refs == Commits \cup {"link", "none"}

\* The plugin id in the manifest of a commit.
IdOf(ref) == IF ref = "legacy_old" THEN "legacy" ELSE "new"

\* "labelled": source, version and root are as expected; "faithful": the files
\* hash as expected and their tests pass.  Only the target is ever asked.
Plugins == [ref : Refs, enabled : BOOLEAN, labelled : BOOLEAN, faithful : BOOLEAN]

Absent == [ref |-> "none", enabled |-> FALSE, labelled |-> FALSE, faithful |-> FALSE]

Installed(ref, labelled, faithful) ==
    [ref |-> ref, enabled |-> TRUE, labelled |-> labelled, faithful |-> faithful]

Present(p) == p.ref # "none"

\* The metadata of the plugin are those of the target.
Labelled(p) == p.ref = "target" /\ p.labelled

\* Mutant: everything the list says of a plugin is recorded.
IdentityWhole(plugins) == plugins

\* What PreviousInstallation keeps of the plugins on a host.
Identity(plugins) ==
    [id \in Ids |-> [ref |-> plugins[id].ref, enabled |-> plugins[id].enabled]]

Nothing == [id \in Ids |-> [ref |-> "none", enabled |-> FALSE]]

Identities == [Ids -> [ref : Refs, enabled : BOOLEAN]]

Restorable(plugins) ==
    /\ \E id \in Ids : ~Present(plugins[id])
    /\ \A id \in Ids : plugins[id].ref # "link"

Here == site[host]
Migrating == previous["legacy"].ref # "none"
Fresh == previous["new"].ref = "none" /\ previous["legacy"].ref = "none"
PreviousId == IF Migrating THEN "legacy" ELSE "new"

-----------------------------------------------------------------------------
(* Commands on the host.                                                   *)

\* A command that turns one plugin into "after": it works; or it fails, with
\* or without the effect; or it reports a success without the effect; and it
\* may simply refuse when that plugin is not there.
Change(id, after, needed, ok, failed) ==
    /\ \/ /\ site' = [site EXCEPT ![host][id] = IF needed THEN after ELSE @]
          /\ step' = ok
          /\ UNCHANGED <<faults, lies>>
       \/ /\ ~needed
          /\ step' = failed
          /\ UNCHANGED <<site, faults, lies>>
       \/ /\ faults < MaxFaults
          /\ faults' = faults + 1
          /\ site' \in {site, [site EXCEPT ![host][id] = IF needed THEN after ELSE @]}
          /\ step' = failed
          /\ UNCHANGED lies
       \/ /\ faults < MaxFaults
          /\ faults' = faults + 1
          /\ step' = ok
          /\ lies' = lies \cup {step}
          /\ UNCHANGED site
    /\ UNCHANGED <<start, profile, host, previous, report>>

Install(ref, ok, failed) ==
    \E labelled, faithful \in IF ref = "target" THEN BOOLEAN ELSE {FALSE} :
        Change(IdOf(ref), Installed(ref, labelled, faithful), TRUE, ok, failed)

Uninstall(id, ok, failed) == Change(id, Absent, Present(Here[id]), ok, failed)

Enable(id, on, ok, failed) ==
    Change(id, [Here[id] EXCEPT !.enabled = on], Present(Here[id]), ok, failed)

\* A command that reads: it answers as the host is, or fails.
Read(holds, ok, failed) ==
    /\ \/ /\ step' = IF holds THEN ok ELSE failed
          /\ UNCHANGED faults
       \/ /\ faults < MaxFaults
          /\ faults' = faults + 1
          /\ step' = failed
    /\ UNCHANGED <<site, start, profile, host, previous, report, lies>>

\* Where a failure after the preflight leads.
Undo == IF Fresh THEN "rollback-uninstall"
        ELSE IF Migrating THEN "rollback-uninstall-new" ELSE "rollback-install"

\* The host's result is complete.
Finish(result) ==
    /\ report' = [report EXCEPT ![host] = result]
    /\ step' = "next"
    /\ previous' = Nothing
    /\ lies' = {}
    /\ UNCHANGED <<site, start, profile, host, faults>>

-----------------------------------------------------------------------------
(* Forward.                                                                *)

NextHost ==
    /\ step = "next"
    /\ \E h \in Hosts :
          /\ report[h] = "none"
          /\ host' = h
          /\ start' = [start EXCEPT ![h] = Identity(site[h])]
    /\ step' = "preflight"
    /\ UNCHANGED <<site, profile, previous, report, lies, faults>>

\* The state to come back to, or a refusal before anything has changed.
Preflight ==
    /\ step = "preflight"
    /\ \/ /\ Restorable(Here)
          /\ previous' = Identity(Here)
          /\ step' = "install"
          /\ UNCHANGED <<report, lies, faults>>
       \/ /\ ~Restorable(Here) \/ faults < MaxFaults
          /\ faults' = IF Restorable(Here) THEN faults + 1 ELSE faults
          /\ report' = [report EXCEPT ![host] = "refused"]
          /\ step' = "next"
          /\ lies' = {}
          /\ UNCHANGED previous
    /\ UNCHANGED <<site, start, profile, host>>

InstallTarget == step = "install" /\ Install("target", "stage", Undo)

\* The install has enabled the plugin; disabled until it is validated.
Stage == step = "stage" /\ Enable("new", FALSE, "metadata", Undo)

Migration == IF Migrating THEN "legacy-disable" ELSE "enable"

\* Mutant: the tests of the plugin are never run in full.
MetadataSmoke ==
    /\ step = "metadata"
    /\ Read(Labelled(Here["new"]) /\ ~Here["new"].enabled,
            Migration, Undo)

Metadata ==
    /\ step = "metadata"
    /\ Read(Labelled(Here["new"]) /\ ~Here["new"].enabled,
            IF profile = "full" THEN "hashes" ELSE Migration, Undo)

\* hashes and unittest.
Validate == step = "hashes" /\ Read(Here["new"].faithful, Migration, Undo)

\* Mutant: the legacy plugin goes before the new one is up.
LegacyDisableForGood ==
    step = "legacy-disable" /\ Uninstall("legacy", "enable", Undo)

LegacyDisable ==
    step = "legacy-disable" /\ Enable("legacy", FALSE, "enable", Undo)

EnableTarget == step = "enable" /\ Enable("new", TRUE, "enabled-metadata", Undo)

\* Mutant: the exit code of "plugin enable" is good enough.
EnabledMetadataTrusting ==
    step = "enabled-metadata" /\ Read(TRUE, "activate", Undo)

EnabledMetadata ==
    /\ step = "enabled-metadata"
    /\ Read(Present(Here["new"]) /\ Here["new"].enabled, "activate", Undo)

\* config, reload and actions: none of them changes which plugins there are.
Activate ==
    /\ step = "activate"
    /\ Read(TRUE, IF Migrating THEN "legacy-uninstall" ELSE "success", Undo)

LegacyUninstall ==
    step = "legacy-uninstall" /\ Uninstall("legacy", "migration-metadata", Undo)

MigrationMetadata ==
    /\ step = "migration-metadata"
    /\ Read(~Present(Here["legacy"]) /\ Present(Here["new"]), "success", Undo)

Succeed == step = "success" /\ Finish("success")

-----------------------------------------------------------------------------
(* Back: _rollback_installation.                                           *)

RollbackUninstall ==
    step = "rollback-uninstall"
    /\ Uninstall("new", "rollback-verify-absent", "rollback-disable")

RollbackVerifyAbsent ==
    step = "rollback-verify-absent"
    /\ Read(Identity(Here) = previous, "rollback-activate", "rollback-disable")

RollbackUninstallNew ==
    step = "rollback-uninstall-new"
    /\ Uninstall("new", "rollback-install", "rollback-disable")

RollbackInstall ==
    step = "rollback-install"
    /\ Install(previous[PreviousId].ref, "rollback-enabled", "rollback-disable")

RollbackEnabled ==
    step = "rollback-enabled"
    /\ Enable(PreviousId, previous[PreviousId].enabled,
              "rollback-activate", "rollback-disable")

\* rollback-config and rollback-reload.
RollbackActivate ==
    step = "rollback-activate" /\ Read(TRUE, "rollback-verify", "rollback-disable")

\* Mutant: only the commit is compared, not whether it is enabled.
RollbackVerifyRef ==
    step = "rollback-verify"
    /\ Read(\A id \in Ids : Here[id].ref = previous[id].ref,
            "restored", "rollback-disable")

RollbackVerify ==
    step = "rollback-verify"
    /\ Read(Identity(Here) = previous, "restored", "rollback-disable")

\* disable_fallback: the last resort, whatever becomes of it.
RollbackDisable ==
    step = "rollback-disable" /\ Enable("new", FALSE, "unrestored", "unrestored")

Restored == step = "restored" /\ Finish("restored")
Unrestored == step = "unrestored" /\ Finish("unrestored")

\* The rollout itself is interrupted: no step follows and nothing is undone.
Interrupt ==
    /\ step \notin {"next", "killed"}
    /\ faults < MaxFaults
    /\ faults' = faults + 1
    /\ step' = "killed"
    /\ UNCHANGED <<site, start, profile, host, previous, report, lies>>

-----------------------------------------------------------------------------
\* What a host may hold before: nothing, one plugin or one under each id.
Before ==
    {sites \in [Ids -> [ref : {"old", "target", "legacy_old", "link", "none"},
                        enabled : BOOLEAN, labelled : BOOLEAN, faithful : BOOLEAN]] :
        /\ sites["new"].ref # "legacy_old"
        /\ sites["legacy"].ref \in {"legacy_old", "link", "none"}
        /\ \A id \in Ids :
              /\ sites[id].ref \in {"link", "none"} => ~sites[id].enabled
              /\ sites[id].labelled = sites[id].faithful
              /\ sites[id].labelled => sites[id].ref = "target"}

Init ==
    /\ site \in [Hosts -> Before]
    /\ start = [h \in Hosts |-> Nothing]
    /\ profile \in {"smoke", "full"}
    /\ host = CHOOSE h \in Hosts : TRUE
    /\ previous = Nothing
    /\ step = "next"
    /\ report = [h \in Hosts |-> "none"]
    /\ lies = {}
    /\ faults = 0

Forward ==
    \/ Preflight \/ InstallTarget \/ Stage \/ Metadata \/ Validate
    \/ LegacyDisable \/ EnableTarget \/ EnabledMetadata \/ Activate
    \/ LegacyUninstall \/ MigrationMetadata \/ Succeed

Back ==
    \/ RollbackUninstall \/ RollbackVerifyAbsent \/ RollbackUninstallNew
    \/ RollbackInstall \/ RollbackEnabled \/ RollbackActivate
    \/ RollbackVerify \/ RollbackDisable \/ Restored \/ Unrestored

Next == NextHost \/ Forward \/ Back \/ Interrupt

Spec == Init /\ [][Next]_vars

-----------------------------------------------------------------------------
Steps == {"next", "preflight", "install", "stage", "metadata", "hashes",
          "legacy-disable", "enable", "enabled-metadata", "activate",
          "legacy-uninstall", "migration-metadata", "success",
          "rollback-uninstall", "rollback-verify-absent", "rollback-uninstall-new",
          "rollback-install", "rollback-enabled", "rollback-activate",
          "rollback-verify", "rollback-disable", "restored", "unrestored", "killed"}

Reports == {"none", "refused", "success", "restored", "unrestored"}

TypeOK ==
    /\ site \in [Hosts -> [Ids -> Plugins]]
    /\ start \in [Hosts -> Identities]
    /\ profile \in {"smoke", "full"}
    /\ host \in Hosts
    /\ previous \in Identities
    /\ step \in Steps
    /\ report \in [Hosts -> Reports]
    /\ lies \subseteq Steps
    /\ faults \in Nat

\* The target as the checks of this profile want it.
Valid(p) == Labelled(p) /\ (profile = "full" => p.faithful)

\* A host that is reported as a success runs exactly the validated target,
\* and the legacy plugin is gone, whatever the commands claimed.
SuccessIsReal ==
    \A h \in Hosts : report[h] = "success" =>
        /\ Valid(site[h]["new"]) /\ site[h]["new"].enabled
        /\ ~Present(site[h]["legacy"])

\* A host is as it was before its rollout unless it is reported as a success
\* or as a rollback that failed: no half-done host passes for an untouched or
\* a restored one.
OnlyReportedDamage ==
    \A h \in Hosts : report[h] \in {"refused", "restored"} =>
        Identity(site[h]) = start[h]

\* The target is switched on only once it is validated.  The exceptions are a
\* rollback to the same commit, which was running before, and a rollback whose
\* install claimed to have brought the old commit back: it is switched on
\* unseen, and only rollback-verify finds out.
ActivatedOnlyValid ==
    [][\A h \in Hosts :
         /\ site[h]["new"].ref = "target" /\ ~site[h]["new"].enabled
         /\ site'[h]["new"].ref = "target" /\ site'[h]["new"].enabled
         => \/ Valid(site'[h]["new"])
            \/ start[h]["new"].ref = "target"
            \/ "rollback-install" \in lies]_vars

\* The legacy plugin is removed only when the validated new one is running.
LegacyKeptUntilReplaced ==
    [][\A h \in Hosts :
         Present(site[h]["legacy"]) /\ ~Present(site'[h]["legacy"]) =>
             Valid(site[h]["new"]) /\ site[h]["new"].enabled]_vars

\* Past its activation the new plugin does not run beside the legacy one,
\* unless the host only claimed to have disabled that: nothing reads it back.
NeverBothRunning ==
    /\ step \in {"enabled-metadata", "activate", "legacy-uninstall", "success"}
    /\ "legacy-disable" \notin lies
    => ~(Here["new"].enabled /\ Here["legacy"].enabled)

=============================================================================
