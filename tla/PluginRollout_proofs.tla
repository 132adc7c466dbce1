------------------------ MODULE PluginRollout_proofs ------------------------
(***************************************************************************)
(* For every set of hosts and every number of faults: what the reports of  *)
(* a rollout mean, and when the target is switched on and the legacy       *)
(* plugin removed.  The inductive invariant IInv says, for each step of a  *)
(* host's rollout, what the commands before it have established; a lie is  *)
(* harmless where the list is read back, which is what Evidence records.   *)
(***************************************************************************)
EXTENDS PluginRollout, TLAPS

Open == step \notin {"next", "killed"}

\* The host being worked on has no report yet, and what preflight recorded of
\* it is what it was when its turn began.
Recorded ==
    Open => /\ report[host] = "none"
            /\ start[host] = IF step = "preflight" THEN Identity(Here) ELSE previous

\* Each id has its own commits, and a plugin that is not there is not enabled.
Slots ==
    \A h \in Hosts :
        /\ site[h]["new"].ref # "legacy_old"
        /\ site[h]["legacy"].ref \notin {"target", "old"}
        /\ \A id \in Ids : ~Present(site[h][id]) => ~site[h][id].enabled

ForwardSteps == {"install", "stage", "metadata", "hashes", "legacy-disable",
                 "enable", "enabled-metadata", "activate", "legacy-uninstall",
                 "migration-metadata", "success"}

\* What the steps up to the present one have established on the host.
Evidence ==
    /\ step \in ForwardSteps /\ ~Migrating => ~Present(Here["legacy"])
    /\ step = "hashes" => Labelled(Here["new"])
    /\ step \in {"legacy-disable", "enable", "enabled-metadata"} =>
           Valid(Here["new"])
    /\ step \in {"activate", "legacy-uninstall", "migration-metadata", "success"} =>
           Valid(Here["new"]) /\ Here["new"].enabled
    /\ step \in {"enable", "enabled-metadata", "activate", "legacy-uninstall",
                 "migration-metadata", "success"} /\ "legacy-disable" \notin lies =>
           ~Here["legacy"].enabled
    /\ step = "success" => ~Present(Here["legacy"])
    /\ step \in {"legacy-disable", "legacy-uninstall", "migration-metadata"} => Migrating
    /\ step \in {"install", "restored"} => Identity(Here) = previous
    /\ step \in {"rollback-uninstall-new", "rollback-install"} => ~Fresh
    /\ step = "rollback-enabled" /\ "rollback-install" \notin lies =>
           ~Fresh /\ Here[PreviousId].ref = previous[PreviousId].ref
    /\ Open /\ step # "preflight" => /\ previous["new"].ref \in {"old", "target", "none"}
                                     /\ previous["legacy"].ref \in {"legacy_old", "none"}

IInv == TypeOK /\ Slots /\ Recorded /\ Evidence /\ SuccessIsReal /\ OnlyReportedDamage

-----------------------------------------------------------------------------
(* What a command leaves alone and what it may do.                         *)

\* A command changes one plugin of the present host, to what it is meant to be
\* or not at all; if it takes the good exit without the effect, it lied.
LEMMA ChangeEffect ==
    ASSUME TypeOK, NEW id \in Ids, NEW after \in Plugins, NEW needed \in BOOLEAN,
           NEW ok \in Steps, NEW failed \in Steps,
           Change(id, after, needed, ok, failed)
    PROVE  /\ TypeOK'
           /\ UNCHANGED <<start, profile, host, previous, report>>
           /\ \A h \in Hosts : h # host => site'[h] = site[h]
           /\ \A i \in Ids : i # id => site'[host][i] = site[host][i]
           /\ \/ site'[host][id] = site[host][id]
              \/ needed /\ site'[host][id] = after
           /\ step' = ok \/ step' = failed
           /\ step' = ok /\ ok # failed =>
                            \/ needed /\ site'[host][id] = after /\ lies' = lies
                            \/ ~needed /\ site' = site /\ lies' = lies
                            \/ site' = site /\ lies' = lies \cup {step}
           /\ lies \subseteq lies'
  <1> DEFINE worked == [site EXCEPT ![host][id] = IF needed THEN after ELSE @]
  <1>1. /\ worked \in [Hosts -> [Ids -> Plugins]]
        /\ \A h \in Hosts : h # host => worked[h] = site[h]
        /\ \A i \in Ids : i # id => worked[host][i] = site[host][i]
        /\ worked[host][id] = IF needed THEN after ELSE site[host][id]
        /\ ~needed => worked = site
    <2>1. host \in Hosts /\ site \in [Hosts -> [Ids -> Plugins]]
      BY DEF TypeOK
    <2> QED
      BY <2>1
  <1>2. /\ UNCHANGED <<start, profile, host, previous, report>>
        /\ site' = worked \/ site' = site
        /\ step' = ok \/ step' = failed
        /\ lies' = lies \/ lies' = lies \cup {step}
        /\ faults' = faults \/ faults' = faults + 1
        /\ step' = ok /\ ok # failed =>
                         \/ site' = worked /\ lies' = lies
                         \/ site' = site /\ lies' = lies \cup {step}
    BY DEF Change
  <1>3. TypeOK'
    <2>1. site' \in [Hosts -> [Ids -> Plugins]]
      BY <1>1, <1>2 DEF TypeOK
    <2>2. step' \in Steps /\ lies' \subseteq Steps /\ faults' \in Nat
      BY <1>2 DEF TypeOK
    <2> QED
      BY <1>2, <2>1, <2>2 DEF TypeOK
  <1> QED
    BY <1>1, <1>2, <1>3

\* A command that reads changes nothing, and takes the good exit only if what
\* it was asked is so.
LEMMA ReadEffect ==
    ASSUME TypeOK, NEW holds \in BOOLEAN, NEW ok \in Steps, NEW failed \in Steps,
           ok # failed, Read(holds, ok, failed)
    PROVE  /\ TypeOK'
           /\ UNCHANGED <<site, start, profile, host, previous, report, lies>>
           /\ step' = ok \/ step' = failed
           /\ step' = ok => holds
  BY DEF Read, TypeOK

\* Where a failure leads.
LEMMA UndoSteps ==
    /\ Undo \in Steps
    /\ Undo \in {"rollback-uninstall", "rollback-uninstall-new", "rollback-install"}
    /\ Undo \in {"rollback-uninstall-new", "rollback-install"} => ~Fresh
  BY DEF Undo, Fresh, Migrating, Steps

\* The reports of the hosts that are done are about hosts nobody works on.
LEMMA ReportsKeep ==
    ASSUME TypeOK, Recorded, SuccessIsReal, OnlyReportedDamage, Open,
           UNCHANGED <<start, profile, host, report>>,
           \A h \in Hosts : h # host => site'[h] = site[h]
    PROVE  SuccessIsReal' /\ OnlyReportedDamage'
  <1>1. report[host] = "none" /\ host \in Hosts
    BY DEF Recorded, TypeOK
  <1>2. ASSUME NEW h \in Hosts, report[h] # "none" PROVE site'[h] = site[h]
    BY <1>1, <1>2
  <1>3. SuccessIsReal'
    BY <1>2 DEF SuccessIsReal, Valid, Labelled, Present
  <1>4. OnlyReportedDamage'
    BY <1>2 DEF OnlyReportedDamage, Identity
  <1> QED
    BY <1>3, <1>4

\* What the commands make of a plugin.
LEMMA PluginsMade ==
    /\ Absent \in Plugins
    /\ \A ref \in Refs, labelled, faithful \in BOOLEAN :
          Installed(ref, labelled, faithful) \in Plugins
    /\ \A p \in Plugins, on \in BOOLEAN :
          /\ [p EXCEPT !.enabled = on] \in Plugins
          /\ [p EXCEPT !.enabled = on].enabled = on
          /\ [p EXCEPT !.enabled = on].ref = p.ref
          /\ [p EXCEPT !.enabled = on].labelled = p.labelled
          /\ [p EXCEPT !.enabled = on].faithful = p.faithful
  <1>1. Absent \in Plugins
    BY DEF Absent, Plugins, Refs
  <1>2. \A ref \in Refs, labelled, faithful \in BOOLEAN :
            Installed(ref, labelled, faithful) \in Plugins
    BY DEF Installed, Plugins
  <1>3. ASSUME NEW p \in Plugins, NEW on \in BOOLEAN
        PROVE  /\ [p EXCEPT !.enabled = on] \in Plugins
               /\ [p EXCEPT !.enabled = on].enabled = on
               /\ [p EXCEPT !.enabled = on].ref = p.ref
               /\ [p EXCEPT !.enabled = on].labelled = p.labelled
               /\ [p EXCEPT !.enabled = on].faithful = p.faithful
    <2> DEFINE q == [p EXCEPT !.enabled = on]
    <2>1. q \in Plugins
      BY DEF Plugins
    <2>2. q.enabled = on /\ q.ref = p.ref /\ q.labelled = p.labelled
          /\ q.faithful = p.faithful
      BY DEF Plugins
    <2> QED
      BY <2>1, <2>2
  <1> QED
    BY <1>1, <1>2, <1>3

\* What removing a plugin does to the host.
LEMMA UninstallEffect ==
    ASSUME TypeOK, NEW id \in Ids, NEW ok \in Steps, NEW failed \in Steps,
           ok # failed, Uninstall(id, ok, failed)
    PROVE  /\ TypeOK'
           /\ UNCHANGED <<start, profile, host, previous, report>>
           /\ \A h \in Hosts : h # host => site'[h] = site[h]
           /\ \A i \in Ids : i # id => site'[host][i] = site[host][i]
           /\ site'[host][id] = site[host][id] \/ site'[host][id] = Absent
           /\ step' = ok \/ step' = failed
           /\ lies \subseteq lies'
  <1>1. Change(id, Absent, Present(site[host][id]), ok, failed)
    BY DEF Uninstall, Here
  <1>2. Present(site[host][id]) \in BOOLEAN
    BY DEF Present
  <1>3. Absent \in Plugins
    BY PluginsMade
  <1> QED
    BY <1>1, <1>2, <1>3, ChangeEffect

\* What switching a plugin on or off does to the host.
LEMMA EnableEffect ==
    ASSUME TypeOK, NEW id \in Ids, NEW on \in BOOLEAN, NEW ok \in Steps,
           NEW failed \in Steps, Enable(id, on, ok, failed)
    PROVE  /\ TypeOK'
           /\ UNCHANGED <<start, profile, host, previous, report>>
           /\ \A h \in Hosts : h # host => site'[h] = site[h]
           /\ \A i \in Ids : i # id => site'[host][i] = site[host][i]
           /\ \/ site'[host][id] = site[host][id]
              \/ /\ Present(site[host][id])
                 /\ site'[host][id] = [site[host][id] EXCEPT !.enabled = on]
           /\ step' = ok \/ step' = failed
           /\ lies \subseteq lies'
  <1> DEFINE after == [site[host][id] EXCEPT !.enabled = on]
  <1>1. after \in Plugins
    BY PluginsMade DEF TypeOK
  <1>2. Change(id, after, Present(site[host][id]), ok, failed)
    BY DEF Enable, Here
  <1>3. Present(site[host][id]) \in BOOLEAN
    BY DEF Present
  <1> HIDE DEF after
  <1>4. /\ TypeOK'
        /\ UNCHANGED <<start, profile, host, previous, report>>
        /\ \A h \in Hosts : h # host => site'[h] = site[h]
        /\ \A i \in Ids : i # id => site'[host][i] = site[host][i]
        /\ \/ site'[host][id] = site[host][id]
           \/ Present(site[host][id]) /\ site'[host][id] = after
        /\ step' = ok \/ step' = failed
        /\ step' = ok /\ ok # failed =>
                         \/ Present(site[host][id]) /\ site'[host][id] = after /\ lies' = lies
                         \/ ~Present(site[host][id]) /\ site' = site /\ lies' = lies
                         \/ site' = site /\ lies' = lies \cup {step}
        /\ lies \subseteq lies'
    BY <1>1, <1>2, <1>3, ChangeEffect
  <1> QED
    BY <1>4 DEF after

\* What an install does to the host.
LEMMA InstallEffect ==
    ASSUME TypeOK, NEW ref \in Refs, NEW ok \in Steps, NEW failed \in Steps,
           ok # failed, Install(ref, ok, failed)
    PROVE  /\ TypeOK'
           /\ UNCHANGED <<start, profile, host, previous, report>>
           /\ \A h \in Hosts : h # host => site'[h] = site[h]
           /\ \A i \in Ids : i # IdOf(ref) => site'[host][i] = site[host][i]
           /\ \/ site'[host][IdOf(ref)] = site[host][IdOf(ref)]
              \/ site'[host][IdOf(ref)].ref = ref
           /\ step' = ok \/ step' = failed
           /\ step' = ok => site'[host][IdOf(ref)].ref = ref \/ step \in lies'
           /\ lies \subseteq lies'
  <1>1. PICK labelled \in BOOLEAN, faithful \in BOOLEAN :
            Change(IdOf(ref), Installed(ref, labelled, faithful), TRUE, ok, failed)
    BY DEF Install
  <1>2. IdOf(ref) \in Ids /\ Installed(ref, labelled, faithful) \in Plugins
    BY PluginsMade DEF IdOf, Ids
  <1>3. Installed(ref, labelled, faithful).ref = ref
    BY DEF Installed
  <1>4. PICK id \in Ids, after \in Plugins, needed \in BOOLEAN :
            /\ Change(id, after, needed, ok, failed)
            /\ id = IdOf(ref) /\ after.ref = ref
    BY <1>1, <1>2, <1>3
  <1>5. /\ TypeOK'
        /\ UNCHANGED <<start, profile, host, previous, report>>
        /\ \A h \in Hosts : h # host => site'[h] = site[h]
        /\ \A i \in Ids : i # id => site'[host][i] = site[host][i]
        /\ \/ site'[host][id] = site[host][id]
           \/ needed /\ site'[host][id] = after
        /\ step' = ok \/ step' = failed
        /\ step' = ok /\ ok # failed =>
                         \/ needed /\ site'[host][id] = after /\ lies' = lies
                         \/ ~needed /\ site' = site /\ lies' = lies
                         \/ site' = site /\ lies' = lies \cup {step}
        /\ lies \subseteq lies'
    BY <1>4, ChangeEffect
  <1>6. step' = ok => site'[host][IdOf(ref)].ref = ref \/ step \in lies'
    <2>1. host \in Hosts /\ site \in [Hosts -> [Ids -> Plugins]]
      BY DEF TypeOK
    <2> DEFINE worked == [site EXCEPT ![host][IdOf(ref)] =
                             Installed(ref, labelled, faithful)]
    <2>2. worked[host][IdOf(ref)] = Installed(ref, labelled, faithful)
      BY <1>2, <2>1
    <2>3. step' = ok => site' = worked \/ step \in lies'
      BY <1>1 DEF Change
    <2> QED
      BY <1>3, <2>2, <2>3
  <1> QED
    BY <1>4, <1>5, <1>6

-----------------------------------------------------------------------------
(* The invariant.                                                          *)

Quiet == UNCHANGED <<start, profile, host, previous, report>>

\* A command of a host's rollout keeps the invariant if what it leaves on that
\* host is in order and the next step has its evidence.
LEMMA Keeps ==
    ASSUME IInv, Open, step # "preflight", TypeOK', Quiet,
           \A h \in Hosts : h # host => site'[h] = site[h],
           site'[host]["new"].ref # "legacy_old",
           site'[host]["legacy"].ref \notin {"target", "old"},
           \A id \in Ids : ~Present(site'[host][id]) => ~site'[host][id].enabled,
           step' \notin {"next", "preflight"},
           Evidence'
    PROVE  IInv'
  <1>1. Slots'
    <2>1. host \in Hosts /\ host' = host
      BY DEF IInv, TypeOK, Quiet
    <2> SUFFICES ASSUME NEW h \in Hosts
                 PROVE  /\ site'[h]["new"].ref # "legacy_old"
                        /\ site'[h]["legacy"].ref \notin {"target", "old"}
                        /\ \A id \in Ids : ~Present(site'[h][id]) => ~site'[h][id].enabled
      BY DEF Slots, Present
    <2>2. CASE h = host
      BY <2>2
    <2>3. CASE h # host
      BY <2>3 DEF IInv, Slots, Present
    <2> QED
      BY <2>2, <2>3
  <1>2. Recorded'
    BY DEF IInv, Recorded, Open, Quiet
  <1>3. SuccessIsReal' /\ OnlyReportedDamage'
    BY ReportsKeep DEF IInv, Quiet
  <1> QED
    BY <1>1, <1>2, <1>3 DEF IInv

\* The same for a command that changes nothing on the host.
LEMMA KeepsReading ==
    ASSUME IInv, Open, step # "preflight", TypeOK', Quiet, UNCHANGED site,
           step' \notin {"next", "preflight"}, Evidence'
    PROVE  IInv'
  <1>1. host \in Hosts
    BY DEF IInv, TypeOK
  <1>2. /\ site'[host]["new"].ref # "legacy_old"
        /\ site'[host]["legacy"].ref \notin {"target", "old"}
        /\ \A id \in Ids : ~Present(site'[host][id]) => ~site'[host][id].enabled
    BY <1>1 DEF IInv, Slots, Present
  <1> QED
    BY <1>2, Keeps

\* On the way back nothing is claimed but what preflight recorded.
BackSteps == {"rollback-uninstall", "rollback-verify-absent",
              "rollback-uninstall-new", "rollback-install", "rollback-activate",
              "rollback-verify", "rollback-disable", "unrestored", "killed"}

LEMMA BackEvidence ==
    ASSUME Evidence, Open, step # "preflight", Quiet, step' \in BackSteps,
           step' \in {"rollback-uninstall-new", "rollback-install"} => ~Fresh
    PROVE  Evidence'
  <1>1. previous' = previous
    BY DEF Quiet
  <1>2. step' \in {"rollback-uninstall-new", "rollback-install"} => ~Fresh'
    BY <1>1 DEF Fresh
  <1> QED
    BY <1>1, <1>2 DEF Evidence, BackSteps, ForwardSteps, Open

\* A host without a plugin, or with one that is switched on or off, is in order.
LEMMA OrderKept ==
    ASSUME IInv, NEW id \in Ids,
           \A i \in Ids : i # id => site'[host][i] = site[host][i],
           \/ site'[host][id] = site[host][id]
           \/ site'[host][id] = Absent
           \/ /\ Present(site[host][id])
              /\ \E on \in BOOLEAN :
                    site'[host][id] = [site[host][id] EXCEPT !.enabled = on]
    PROVE  /\ site'[host]["new"].ref # "legacy_old"
           /\ site'[host]["legacy"].ref \notin {"target", "old"}
           /\ \A i \in Ids : ~Present(site'[host][i]) => ~site'[host][i].enabled
  <1>1. host \in Hosts /\ \A i \in Ids : site[host][i] \in Plugins
    BY DEF IInv, TypeOK
  <1>2. /\ site[host]["new"].ref # "legacy_old"
        /\ site[host]["legacy"].ref \notin {"target", "old"}
        /\ \A i \in Ids : ~Present(site[host][i]) => ~site[host][i].enabled
    BY <1>1 DEF IInv, Slots
  <1>3. CASE site'[host][id] = site[host][id]
    BY <1>2, <1>3 DEF Ids, Present
  <1>4. CASE site'[host][id] = Absent
    BY <1>2, <1>4 DEF Ids, Present, Absent
  <1>5. CASE /\ Present(site[host][id])
             /\ \E on \in BOOLEAN :
                   site'[host][id] = [site[host][id] EXCEPT !.enabled = on]
    <2>1. site'[host][id].ref = site[host][id].ref
      BY <1>1, <1>5, PluginsMade
    <2> QED
      BY <1>2, <1>5, <2>1 DEF Ids, Present
  <1> QED
    BY <1>3, <1>4, <1>5

-----------------------------------------------------------------------------
(* One lemma per kind of step.                                             *)

\* The steps that only look.
LEMMA LookingKeeps ==
    ASSUME IInv,
           \/ Metadata \/ Validate \/ EnabledMetadata \/ Activate \/ MigrationMetadata
           \/ RollbackVerifyAbsent \/ RollbackActivate \/ RollbackVerify
    PROVE  IInv'
  <1> USE DEF Steps
  <1>1. CASE Metadata
    <2>1. /\ TypeOK' /\ Quiet /\ UNCHANGED <<site, lies>>
          /\ step' \in {"hashes", "legacy-disable", "enable", Undo}
          /\ step' # Undo => Labelled(Here["new"])
          /\ step' = "hashes" => profile = "full"
          /\ step' = "legacy-disable" => Migrating /\ profile # "full"
          /\ step' = "enable" => ~Migrating /\ profile # "full"
      BY <1>1, UndoSteps DEF IInv, TypeOK, Read, Metadata, Migration, Quiet, Labelled
    <2>2. Evidence'
      <3>1. CASE step' = Undo
        BY <1>1, <2>1, <3>1, BackEvidence, UndoSteps DEF IInv, Metadata, Open, BackSteps
      <3>2. CASE step' # Undo
        BY <1>1, <2>1, <3>2
           DEF IInv, Metadata, Evidence, Quiet, ForwardSteps, Here, Migrating, Valid,
               Labelled, Open, Present, TypeOK, Slots, Ids
      <3> QED
        BY <3>1, <3>2
    <2> QED
      BY <1>1, <2>1, <2>2, UndoSteps, KeepsReading DEF Metadata, Open
  <1>2. CASE Validate
    <2>1. /\ TypeOK' /\ Quiet /\ UNCHANGED <<site, lies>>
          /\ step' \in {"legacy-disable", "enable", Undo}
          /\ step' # Undo => Here["new"].faithful
          /\ step' = "legacy-disable" => Migrating
          /\ step' = "enable" => ~Migrating
      <3>1. Here["new"].faithful \in BOOLEAN
        BY DEF IInv, TypeOK, Here, Plugins, Ids
      <3> QED
        BY <1>2, <3>1, UndoSteps DEF IInv, TypeOK, Read, Validate, Migration, Quiet
    <2>2. Evidence'
      <3>1. CASE step' = Undo
        BY <1>2, <2>1, <3>1, BackEvidence, UndoSteps DEF IInv, Validate, Open, BackSteps
      <3>2. CASE step' # Undo
        BY <1>2, <2>1, <3>2
           DEF IInv, Validate, Evidence, Quiet, ForwardSteps, Here, Migrating, Valid,
               Labelled, Open, Present, TypeOK, Slots, Ids
      <3> QED
        BY <3>1, <3>2
    <2> QED
      BY <1>2, <2>1, <2>2, UndoSteps, KeepsReading DEF Validate, Open
  <1>3. CASE EnabledMetadata
    <2>1. /\ TypeOK' /\ Quiet /\ UNCHANGED <<site, lies>>
          /\ step' \in {"activate", Undo}
          /\ step' # Undo => Here["new"].enabled
      <3>1. Here["new"].enabled \in BOOLEAN
        BY DEF IInv, TypeOK, Here, Plugins, Ids
      <3> QED
        BY <1>3, <3>1, UndoSteps DEF IInv, TypeOK, Read, EnabledMetadata, Quiet, Present
    <2>2. Evidence'
      <3>1. CASE step' = Undo
        BY <1>3, <2>1, <3>1, BackEvidence, UndoSteps
           DEF IInv, EnabledMetadata, Open, BackSteps
      <3>2. CASE step' # Undo
        BY <1>3, <2>1, <3>2
           DEF IInv, EnabledMetadata, Evidence, Quiet, ForwardSteps, Here, Migrating,
               Valid, Labelled, Open, Present
      <3> QED
        BY <3>1, <3>2
    <2> QED
      BY <1>3, <2>1, <2>2, UndoSteps, KeepsReading DEF EnabledMetadata, Open
  <1>4. CASE Activate
    <2>1. /\ TypeOK' /\ Quiet /\ UNCHANGED <<site, lies>>
          /\ step' \in {"legacy-uninstall", "success", Undo}
          /\ step' = "legacy-uninstall" => Migrating
          /\ step' = "success" => ~Migrating
      BY <1>4, UndoSteps DEF IInv, TypeOK, Read, Activate, Quiet
    <2>2. Evidence'
      <3>1. CASE step' = Undo
        BY <1>4, <2>1, <3>1, BackEvidence, UndoSteps DEF IInv, Activate, Open, BackSteps
      <3>2. CASE step' # Undo
        BY <1>4, <2>1, <3>2
           DEF IInv, Activate, Evidence, Quiet, ForwardSteps, Here, Migrating, Valid,
               Labelled, Open, Present
      <3> QED
        BY <3>1, <3>2
    <2> QED
      BY <1>4, <2>1, <2>2, UndoSteps, KeepsReading DEF Activate, Open
  <1>5. CASE MigrationMetadata
    <2>1. /\ TypeOK' /\ Quiet /\ UNCHANGED <<site, lies>>
          /\ step' \in {"success", Undo}
          /\ step' # Undo => ~Present(Here["legacy"])
      BY <1>5, UndoSteps DEF IInv, TypeOK, Read, MigrationMetadata, Quiet, Present
    <2>2. Evidence'
      <3>1. CASE step' = Undo
        BY <1>5, <2>1, <3>1, BackEvidence, UndoSteps
           DEF IInv, MigrationMetadata, Open, BackSteps
      <3>2. CASE step' # Undo
        BY <1>5, <2>1, <3>2
           DEF IInv, MigrationMetadata, Evidence, Quiet, ForwardSteps, Here, Migrating,
               Valid, Labelled, Open, Present
      <3> QED
        BY <3>1, <3>2
    <2> QED
      BY <1>5, <2>1, <2>2, UndoSteps, KeepsReading DEF MigrationMetadata, Open
  <1>6. CASE RollbackVerifyAbsent \/ RollbackActivate
    <2>1. /\ TypeOK' /\ Quiet /\ UNCHANGED site
          /\ step' \in {"rollback-activate", "rollback-verify", "rollback-disable"}
      <3>1. CASE RollbackVerifyAbsent
        BY <3>1 DEF IInv, TypeOK, Read, RollbackVerifyAbsent, Quiet
      <3>2. CASE RollbackActivate
        BY <3>2 DEF IInv, TypeOK, Read, RollbackActivate, Quiet
      <3> QED
        BY <1>6, <3>1, <3>2
    <2> QED
      BY <1>6, <2>1, BackEvidence, KeepsReading
         DEF IInv, RollbackVerifyAbsent, RollbackActivate, Open, BackSteps
  <1>7. CASE RollbackVerify
    <2>1. /\ TypeOK' /\ Quiet /\ UNCHANGED site
          /\ step' \in {"restored", "rollback-disable"}
          /\ step' = "restored" => Identity(Here) = previous
      BY <1>7, UndoSteps DEF IInv, TypeOK, Read, RollbackVerify, Quiet
    <2>2. Evidence'
      <3>1. CASE step' = "rollback-disable"
        BY <1>7, <2>1, <3>1, BackEvidence DEF IInv, RollbackVerify, Open, BackSteps
      <3>2. CASE step' = "restored"
        <4>1. Identity(Here)' = previous'
          BY <2>1, <3>2 DEF Quiet, Identity, Here
        <4> QED
          BY <1>7, <2>1, <3>2, <4>1
             DEF IInv, RollbackVerify, Evidence, Quiet, ForwardSteps, Open
      <3> QED
        BY <2>1, <3>1, <3>2
    <2> QED
      BY <1>7, <2>1, <2>2, KeepsReading DEF RollbackVerify, Open
  <1> QED
    BY <1>1, <1>2, <1>3, <1>4, <1>5, <1>6, <1>7

\* The steps that switch a plugin on or off.
LEMMA SwitchingKeeps ==
    ASSUME IInv,
           Stage \/ LegacyDisable \/ EnableTarget \/ RollbackEnabled \/ RollbackDisable
    PROVE  IInv'
  <1>0. host \in Hosts /\ Here \in [Ids -> Plugins] /\ Here = site[host]
    BY DEF IInv, TypeOK, Here
  <1>1. CASE Stage
    <2>1. /\ TypeOK /\ "new" \in Ids /\ "metadata" \in Steps /\ "metadata" # Undo
          /\ Undo \in Steps /\ Enable("new", FALSE, "metadata", Undo)
      BY <1>1, UndoSteps DEF Ids, Stage, Steps, IInv
    <2>2. /\ TypeOK' /\ Quiet
          /\ \A h \in Hosts : h # host => site'[h] = site[h]
          /\ \A i \in Ids : i # "new" => site'[host][i] = site[host][i]
          /\ \/ site'[host]["new"] = site[host]["new"]
             \/ /\ Present(site[host]["new"])
                /\ site'[host]["new"] = [site[host]["new"] EXCEPT !.enabled = FALSE]
          /\ step' = "metadata" \/ step' = Undo
      BY <2>1, EnableEffect DEF Quiet
    <2>3. Evidence'
      <3>1. CASE step' = Undo
        BY <1>1, <2>2, <3>1, BackEvidence, UndoSteps DEF IInv, Stage, Open, BackSteps
      <3>2. CASE step' = "metadata"
        BY <1>1, <2>2, <3>2
           DEF IInv, Stage, Evidence, Quiet, ForwardSteps, Here, Migrating, Open, Present, Ids
      <3> QED
        BY <2>2, <3>1, <3>2
    <2>4. /\ site'[host]["new"].ref # "legacy_old"
          /\ site'[host]["legacy"].ref \notin {"target", "old"}
          /\ \A i \in Ids : ~Present(site'[host][i]) => ~site'[host][i].enabled
      BY <2>1, <2>2, OrderKept
    <2> QED
      BY <1>1, <2>2, <2>3, <2>4, UndoSteps, Keeps DEF Stage, Open
  <1>2. CASE LegacyDisable
    <2>1. /\ TypeOK /\ "legacy" \in Ids /\ "enable" \in Steps /\ "enable" # Undo
          /\ Undo \in Steps /\ Enable("legacy", FALSE, "enable", Undo)
      BY <1>2, UndoSteps DEF Ids, LegacyDisable, Steps, IInv
    <2>2. /\ TypeOK' /\ Quiet
          /\ \A h \in Hosts : h # host => site'[h] = site[h]
          /\ \A i \in Ids : i # "legacy" => site'[host][i] = site[host][i]
          /\ \/ site'[host]["legacy"] = site[host]["legacy"]
             \/ /\ Present(site[host]["legacy"])
                /\ site'[host]["legacy"] = [site[host]["legacy"] EXCEPT !.enabled = FALSE]
          /\ step' = "enable" \/ step' = Undo
      BY <2>1, EnableEffect DEF Quiet
    <2>3. step' = "enable" /\ "legacy-disable" \notin lies' => ~site'[host]["legacy"].enabled
      <3>1. ~Present(site[host]["legacy"]) => ~site[host]["legacy"].enabled
        BY <1>0 DEF IInv, Slots, Ids
      <3> DEFINE off == [site[host]["legacy"] EXCEPT !.enabled = FALSE]
      <3> DEFINE worked == [site EXCEPT ![host]["legacy"] =
                               IF Present(Here["legacy"]) THEN off ELSE @]
      <3>2. off.enabled = FALSE
        BY <1>0, PluginsMade DEF Ids
      <3>3. worked[host]["legacy"] =
                IF Present(Here["legacy"]) THEN off ELSE site[host]["legacy"]
        BY <1>0 DEF IInv, TypeOK, Ids
      <3>4. step' = "enable" /\ "legacy-disable" \notin lies' => site' = worked
        BY <1>2, <2>1 DEF LegacyDisable, Enable, Change, Here
      <3> QED
        BY <1>0, <3>1, <3>2, <3>3, <3>4
    <2>4. Evidence'
      <3>1. CASE step' = Undo
        BY <1>2, <2>2, <3>1, BackEvidence, UndoSteps
           DEF IInv, LegacyDisable, Open, BackSteps
      <3>2. CASE step' = "enable"
        <4>1. Valid(Here["new"])'
          BY <1>2, <2>2 DEF IInv, LegacyDisable, Evidence, Here, Quiet, Ids, Valid, Labelled
        <4>2. Migrating'
          BY <1>2, <2>2 DEF IInv, LegacyDisable, Evidence, Migrating, Quiet
        <4>3. "legacy-disable" \notin lies' => ~Here["legacy"].enabled'
          BY <2>2, <2>3, <3>2 DEF Here, Quiet
        <4> QED
          BY <1>2, <2>2, <3>2, <4>1, <4>2, <4>3
             DEF IInv, LegacyDisable, Evidence, Quiet, ForwardSteps, Open
      <3> QED
        BY <2>2, <3>1, <3>2
    <2>5. /\ site'[host]["new"].ref # "legacy_old"
          /\ site'[host]["legacy"].ref \notin {"target", "old"}
          /\ \A i \in Ids : ~Present(site'[host][i]) => ~site'[host][i].enabled
      BY <2>1, <2>2, OrderKept
    <2> QED
      BY <1>2, <2>2, <2>4, <2>5, UndoSteps, Keeps DEF LegacyDisable, Open
  <1>3. CASE EnableTarget
    <2>1. /\ TypeOK /\ "new" \in Ids /\ "enabled-metadata" \in Steps
          /\ "enabled-metadata" # Undo /\ Undo \in Steps
          /\ Enable("new", TRUE, "enabled-metadata", Undo)
      BY <1>3, UndoSteps DEF Ids, EnableTarget, Steps, IInv
    <2>2. /\ TypeOK' /\ Quiet
          /\ \A h \in Hosts : h # host => site'[h] = site[h]
          /\ \A i \in Ids : i # "new" => site'[host][i] = site[host][i]
          /\ \/ site'[host]["new"] = site[host]["new"]
             \/ /\ Present(site[host]["new"])
                /\ site'[host]["new"] = [site[host]["new"] EXCEPT !.enabled = TRUE]
          /\ step' = "enabled-metadata" \/ step' = Undo
          /\ lies \subseteq lies'
      BY <2>1, EnableEffect DEF Quiet
    <2>3. Evidence'
      <3>1. CASE step' = Undo
        BY <1>3, <2>2, <3>1, BackEvidence, UndoSteps DEF IInv, EnableTarget, Open, BackSteps
      <3>2. CASE step' = "enabled-metadata"
        <4>1. Valid(Here["new"])
          BY <1>3 DEF IInv, EnableTarget, Evidence
        <4>2. Valid(Here["new"])'
          <5>1. /\ site'[host]["new"].ref = site[host]["new"].ref
                /\ site'[host]["new"].labelled = site[host]["new"].labelled
                /\ site'[host]["new"].faithful = site[host]["new"].faithful
            BY <1>0, <2>1, <2>2, PluginsMade
          <5> QED
            BY <2>2, <4>1, <5>1 DEF Valid, Labelled, Here, Quiet
        <4>3. Here["legacy"]' = Here["legacy"]
          BY <2>2 DEF Here, Quiet, Ids
        <4> QED
          BY <1>3, <2>2, <3>2, <4>2, <4>3
             DEF IInv, EnableTarget, Evidence, Quiet, ForwardSteps, Open, Migrating, Present
      <3> QED
        BY <2>2, <3>1, <3>2
    <2>4. /\ site'[host]["new"].ref # "legacy_old"
          /\ site'[host]["legacy"].ref \notin {"target", "old"}
          /\ \A i \in Ids : ~Present(site'[host][i]) => ~site'[host][i].enabled
      BY <2>1, <2>2, OrderKept
    <2> QED
      BY <1>3, <2>2, <2>3, <2>4, UndoSteps, Keeps DEF EnableTarget, Open
  <1>4. CASE RollbackEnabled
    <2>1. /\ PreviousId \in Ids /\ previous[PreviousId].enabled \in BOOLEAN
          /\ "rollback-activate" \in Steps /\ "rollback-disable" \in Steps
      BY DEF PreviousId, Ids, IInv, TypeOK, Identities, Steps
    <2>2. PICK id \in Ids, on \in BOOLEAN :
              Enable(id, on, "rollback-activate", "rollback-disable")
      BY <1>4, <2>1 DEF RollbackEnabled
    <2>3. /\ TypeOK' /\ Quiet
          /\ \A h \in Hosts : h # host => site'[h] = site[h]
          /\ \A i \in Ids : i # id => site'[host][i] = site[host][i]
          /\ \/ site'[host][id] = site[host][id]
             \/ /\ Present(site[host][id])
                /\ site'[host][id] = [site[host][id] EXCEPT !.enabled = on]
          /\ step' = "rollback-activate" \/ step' = "rollback-disable"
      BY <2>1, <2>2, EnableEffect DEF IInv, Quiet
    <2>4. Evidence'
      BY <1>4, <2>3, BackEvidence DEF IInv, RollbackEnabled, Open, BackSteps
    <2>5. /\ site'[host]["new"].ref # "legacy_old"
          /\ site'[host]["legacy"].ref \notin {"target", "old"}
          /\ \A i \in Ids : ~Present(site'[host][i]) => ~site'[host][i].enabled
      BY <2>2, <2>3, OrderKept
    <2> QED
      BY <1>4, <2>3, <2>4, <2>5, Keeps DEF RollbackEnabled, Open
  <1>5. CASE RollbackDisable
    <2>1. /\ TypeOK /\ "new" \in Ids /\ "unrestored" \in Steps
          /\ Enable("new", FALSE, "unrestored", "unrestored")
      BY <1>5 DEF Ids, RollbackDisable, Steps, IInv
    <2>2. /\ TypeOK' /\ Quiet
          /\ \A h \in Hosts : h # host => site'[h] = site[h]
          /\ \A i \in Ids : i # "new" => site'[host][i] = site[host][i]
          /\ \/ site'[host]["new"] = site[host]["new"]
             \/ /\ Present(site[host]["new"])
                /\ site'[host]["new"] = [site[host]["new"] EXCEPT !.enabled = FALSE]
          /\ step' = "unrestored"
      BY <2>1, EnableEffect DEF Quiet
    <2>3. Evidence'
      BY <1>5, <2>2, BackEvidence DEF IInv, RollbackDisable, Open, BackSteps
    <2>4. /\ site'[host]["new"].ref # "legacy_old"
          /\ site'[host]["legacy"].ref \notin {"target", "old"}
          /\ \A i \in Ids : ~Present(site'[host][i]) => ~site'[host][i].enabled
      BY <2>1, <2>2, OrderKept
    <2> QED
      BY <1>5, <2>2, <2>3, <2>4, Keeps DEF RollbackDisable, Open
  <1> QED
    BY <1>1, <1>2, <1>3, <1>4, <1>5

\* The steps that remove a plugin.
LEMMA RemovingKeeps ==
    ASSUME IInv, LegacyUninstall \/ RollbackUninstall \/ RollbackUninstallNew
    PROVE  IInv'
  <1>1. CASE LegacyUninstall
    <2>1. /\ TypeOK /\ "legacy" \in Ids /\ "migration-metadata" \in Steps
          /\ "migration-metadata" # Undo /\ Undo \in Steps
          /\ Uninstall("legacy", "migration-metadata", Undo)
      BY <1>1, UndoSteps DEF Ids, LegacyUninstall, Steps, IInv
    <2>2. /\ TypeOK' /\ Quiet
          /\ \A h \in Hosts : h # host => site'[h] = site[h]
          /\ \A i \in Ids : i # "legacy" => site'[host][i] = site[host][i]
          /\ \/ site'[host]["legacy"] = site[host]["legacy"]
             \/ site'[host]["legacy"] = Absent
          /\ step' = "migration-metadata" \/ step' = Undo
          /\ lies \subseteq lies'
      BY <2>1, UninstallEffect DEF Quiet
    <2>3. Evidence'
      <3>1. CASE step' = Undo
        BY <1>1, <2>2, <3>1, BackEvidence, UndoSteps
           DEF IInv, LegacyUninstall, Open, BackSteps
      <3>2. CASE step' = "migration-metadata"
        <4>1. Here["new"]' = Here["new"]
          BY <2>2 DEF Here, Quiet, Ids
        <4>2. "legacy-disable" \notin lies' => ~Here["legacy"].enabled'
          BY <1>1, <2>2 DEF IInv, LegacyUninstall, Evidence, Here, Quiet, Absent
        <4> QED
          BY <1>1, <2>2, <3>2, <4>1, <4>2
             DEF IInv, LegacyUninstall, Evidence, Quiet, ForwardSteps, Open, Migrating,
                 Valid, Labelled
      <3> QED
        BY <2>2, <3>1, <3>2
    <2>4. /\ site'[host]["new"].ref # "legacy_old"
          /\ site'[host]["legacy"].ref \notin {"target", "old"}
          /\ \A i \in Ids : ~Present(site'[host][i]) => ~site'[host][i].enabled
      BY <2>1, <2>2, OrderKept
    <2> QED
      BY <1>1, <2>2, <2>3, <2>4, UndoSteps, Keeps DEF LegacyUninstall, Open
  <1>2. CASE RollbackUninstall \/ RollbackUninstallNew
    <2>1. PICK ok \in {"rollback-verify-absent", "rollback-install"} :
              /\ Uninstall("new", ok, "rollback-disable")
              /\ step = IF ok = "rollback-install" THEN "rollback-uninstall-new"
                        ELSE "rollback-uninstall"
      BY <1>2 DEF RollbackUninstall, RollbackUninstallNew
    <2>2. /\ TypeOK /\ "new" \in Ids /\ ok \in Steps /\ "rollback-disable" \in Steps
          /\ ok # "rollback-disable"
      BY DEF Ids, Steps, IInv
    <2>3. /\ TypeOK' /\ Quiet
          /\ \A h \in Hosts : h # host => site'[h] = site[h]
          /\ \A i \in Ids : i # "new" => site'[host][i] = site[host][i]
          /\ \/ site'[host]["new"] = site[host]["new"]
             \/ site'[host]["new"] = Absent
          /\ step' = ok \/ step' = "rollback-disable"
      BY <2>1, <2>2, UninstallEffect DEF Quiet
    <2>4. ok = "rollback-install" => ~Fresh
      BY <2>1 DEF IInv, Evidence
    <2>5. Evidence'
      BY <2>1, <2>3, <2>4, BackEvidence DEF IInv, Open, BackSteps
    <2>6. /\ site'[host]["new"].ref # "legacy_old"
          /\ site'[host]["legacy"].ref \notin {"target", "old"}
          /\ \A i \in Ids : ~Present(site'[host][i]) => ~site'[host][i].enabled
      BY <2>2, <2>3, OrderKept
    <2> QED
      BY <2>1, <2>3, <2>5, <2>6, Keeps DEF Open
  <1> QED
    BY <1>1, <1>2

\* The steps that install a commit.
LEMMA InstallingKeeps ==
    ASSUME IInv, InstallTarget \/ RollbackInstall
    PROVE  IInv'
  <1>0. host \in Hosts /\ \A i \in Ids : site[host][i] \in Plugins
    BY DEF IInv, TypeOK
  <1>1. CASE InstallTarget
    <2>1. /\ TypeOK /\ "target" \in Refs /\ "stage" \in Steps /\ Undo \in Steps
          /\ "stage" # Undo /\ Install("target", "stage", Undo) /\ IdOf("target") = "new"
      BY <1>1, UndoSteps DEF InstallTarget, Steps, IInv, Refs, Commits, IdOf
    <2>2. /\ TypeOK' /\ Quiet
          /\ \A h \in Hosts : h # host => site'[h] = site[h]
          /\ \A i \in Ids : i # "new" => site'[host][i] = site[host][i]
          /\ \/ site'[host]["new"] = site[host]["new"]
             \/ site'[host]["new"].ref = "target"
          /\ step' = "stage" \/ step' = Undo
      BY <2>1, InstallEffect DEF Quiet
    <2>3. Evidence'
      <3>1. CASE step' = Undo
        BY <1>1, <2>2, <3>1, BackEvidence, UndoSteps
           DEF IInv, InstallTarget, Open, BackSteps
      <3>2. CASE step' = "stage"
        BY <1>1, <2>2, <3>2
           DEF IInv, InstallTarget, Evidence, Quiet, ForwardSteps, Here, Migrating, Open,
               Present, Ids
      <3> QED
        BY <2>2, <3>1, <3>2
    <2>4. /\ site'[host]["new"].ref # "legacy_old"
          /\ site'[host]["legacy"].ref \notin {"target", "old"}
          /\ \A i \in Ids : ~Present(site'[host][i]) => ~site'[host][i].enabled
      BY <1>0, <2>2 DEF IInv, Slots, Ids, Present
    <2> QED
      BY <1>1, <2>2, <2>3, <2>4, UndoSteps, Keeps DEF InstallTarget, Open
  <1>2. CASE RollbackInstall
    <2> DEFINE ref == previous[PreviousId].ref
    <2>1. /\ TypeOK /\ ref \in Refs /\ ref \in {"old", "target", "legacy_old"}
          /\ IdOf(ref) = PreviousId
          /\ "rollback-enabled" \in Steps /\ "rollback-disable" \in Steps
          /\ Install(ref, "rollback-enabled", "rollback-disable")
          /\ PreviousId = "new" => ref \in {"old", "target"}
          /\ PreviousId = "legacy" => ref = "legacy_old"
          /\ PreviousId \in {"new", "legacy"}
      BY <1>2 DEF RollbackInstall, Steps, IInv, Refs, Commits, IdOf, Evidence, Fresh,
                  PreviousId, Migrating, Open
    <2> HIDE DEF ref
    <2>2. /\ TypeOK' /\ Quiet
          /\ \A h \in Hosts : h # host => site'[h] = site[h]
          /\ \A i \in Ids : i # PreviousId => site'[host][i] = site[host][i]
          /\ \/ site'[host][PreviousId] = site[host][PreviousId]
             \/ site'[host][PreviousId].ref = ref
          /\ step' = "rollback-enabled" \/ step' = "rollback-disable"
          /\ step' = "rollback-enabled" =>
                site'[host][PreviousId].ref = ref \/ step \in lies'
      BY <2>1, InstallEffect DEF Quiet
    <2>3. Evidence'
      <3>1. CASE step' = "rollback-disable"
        BY <1>2, <2>2, <3>1, BackEvidence DEF IInv, RollbackInstall, Open, BackSteps
      <3>2. CASE step' = "rollback-enabled"
        <4>1. PreviousId' = PreviousId /\ Fresh' = Fresh
          BY <2>2 DEF Quiet, PreviousId, Migrating, Fresh
        <4>2. ~Fresh
          BY <1>2 DEF IInv, RollbackInstall, Evidence
        <4>3. "rollback-install" \notin lies' =>
                  Here[PreviousId].ref' = previous[PreviousId].ref'
          BY <1>2, <2>2, <3>2, <4>1 DEF RollbackInstall, Here, Quiet, ref
        <4> QED
          BY <1>2, <2>2, <3>2, <4>1, <4>2, <4>3
             DEF IInv, RollbackInstall, Evidence, Quiet, ForwardSteps, Open
      <3> QED
        BY <2>2, <3>1, <3>2
    <2>4. /\ site'[host]["new"].ref # "legacy_old"
          /\ site'[host]["legacy"].ref \notin {"target", "old"}
          /\ \A i \in Ids : ~Present(site'[host][i]) => ~site'[host][i].enabled
      BY <1>0, <2>1, <2>2 DEF IInv, Slots, Ids, Present
    <2> QED
      BY <1>2, <2>2, <2>3, <2>4, Keeps DEF RollbackInstall, Open
  <1> QED
    BY <1>1, <1>2

\* The steps between two hosts.
LEMMA TurningKeeps ==
    ASSUME IInv, NextHost \/ Preflight \/ Interrupt
    PROVE  IInv'
  <1>0. host \in Hosts /\ TypeOK /\ \A h \in Hosts : site[h] \in [Ids -> Plugins]
    BY DEF IInv, TypeOK
  <1>1. \A h \in Hosts : Identity(site[h]) \in Identities
    BY <1>0 DEF Identity, Identities, Plugins
  <1>2. CASE NextHost
    <2>1. PICK h \in Hosts :
              /\ report[h] = "none" /\ host' = h
              /\ start' = [start EXCEPT ![h] = Identity(site[h])]
      BY <1>2 DEF NextHost
    <2>2. /\ step' = "preflight"
          /\ UNCHANGED <<site, profile, previous, report, lies, faults>>
      BY <1>2 DEF NextHost
    <2>3. TypeOK'
      BY <1>0, <1>1, <2>1, <2>2 DEF TypeOK, Steps
    <2>4. start'[h] = Identity(site[h]) /\ \A g \in Hosts : g # h => start'[g] = start[g]
      BY <1>0, <2>1 DEF TypeOK
    <2>5. Slots'
      BY <2>2 DEF IInv, Slots, Present
    <2>6. Recorded'
      BY <2>1, <2>2, <2>4 DEF Recorded, Here, Identity
    <2>7. Evidence'
      BY <2>2 DEF Evidence, ForwardSteps
    <2>8. SuccessIsReal'
      BY <2>2 DEF IInv, SuccessIsReal, Valid, Labelled, Present
    <2>9. OnlyReportedDamage'
      <3> SUFFICES ASSUME NEW g \in Hosts, report[g] \in {"refused", "restored"}
                   PROVE  Identity(site[g])' = start'[g]
        BY <2>2 DEF OnlyReportedDamage
      <3>1. g # h
        BY <2>1
      <3>2. Identity(site[g]) = start[g]
        BY DEF IInv, OnlyReportedDamage
      <3> QED
        BY <2>2, <2>4, <3>1, <3>2 DEF Identity
    <2> QED
      BY <2>3, <2>5, <2>6, <2>7, <2>8, <2>9 DEF IInv
  <1>3. CASE Preflight
    <2>1. UNCHANGED <<site, start, profile, host>> /\ step = "preflight"
      BY <1>3 DEF Preflight
    <2>2. start[host] = Identity(Here) /\ report[host] = "none"
      BY <2>1 DEF IInv, Recorded, Open
    <2>3. Slots'
      BY <2>1 DEF IInv, Slots, Present
    <2>4. CASE /\ Restorable(Here) /\ previous' = Identity(Here) /\ step' = "install"
               /\ UNCHANGED <<report, lies, faults>>
      <3>1. TypeOK'
        BY <1>0, <1>1, <2>1, <2>4 DEF TypeOK, Steps, Here
      <3>2. Recorded'
        BY <2>1, <2>2, <2>4 DEF Recorded, Here, Identity
      <3>3. /\ previous'["new"] = [ref |-> Here["new"].ref, enabled |-> Here["new"].enabled]
            /\ previous'["legacy"] =
                  [ref |-> Here["legacy"].ref, enabled |-> Here["legacy"].enabled]
        BY <2>4 DEF Identity, Ids
      <3>4. /\ previous'["new"].ref = Here["new"].ref
            /\ previous'["legacy"].ref = Here["legacy"].ref
        BY <3>3
      <3>5. /\ Here["new"].ref \in Refs /\ Here["legacy"].ref \in Refs
            /\ Here["new"].ref # "legacy_old" /\ Here["legacy"].ref \notin {"target", "old"}
            /\ Here["new"].ref # "link" /\ Here["legacy"].ref # "link"
        BY <1>0, <2>4 DEF Here, Ids, Plugins, IInv, Slots, Restorable
      <3>6. Evidence'
        <4>1. Here' = Here
          BY <2>1 DEF Here
        <4> QED
          BY <2>4, <3>4, <3>5, <4>1
             DEF Evidence, ForwardSteps, Migrating, Open, Present, Refs, Commits
      <3>7. SuccessIsReal' /\ OnlyReportedDamage'
        BY <2>1, <2>4
           DEF IInv, SuccessIsReal, Valid, Labelled, Present, OnlyReportedDamage, Identity
      <3> QED
        BY <2>3, <3>1, <3>2, <3>6, <3>7 DEF IInv
    <2>5. CASE /\ report' = [report EXCEPT ![host] = "refused"] /\ step' = "next"
               /\ UNCHANGED previous /\ lies' = {} /\ faults' \in {faults, faults + 1}
      <3>1. TypeOK'
        BY <1>0, <2>1, <2>5 DEF TypeOK, Steps, Reports
      <3>2. Recorded' /\ Evidence'
        BY <2>5 DEF Recorded, Evidence, ForwardSteps, Open
      <3>3. SuccessIsReal' /\ OnlyReportedDamage'
        BY <1>0, <2>1, <2>2, <2>5
           DEF IInv, TypeOK, SuccessIsReal, Valid, Labelled, Present, OnlyReportedDamage,
               Identity, Here
      <3> QED
        BY <2>3, <3>1, <3>2, <3>3 DEF IInv
    <2> QED
      BY <1>3, <2>4, <2>5 DEF Preflight
  <1>4. CASE Interrupt
    <2>1. /\ UNCHANGED <<site, start, profile, host, previous, report, lies>>
          /\ step' = "killed" /\ faults' = faults + 1
      BY <1>4 DEF Interrupt
    <2>2. TypeOK'
      BY <1>0, <2>1 DEF TypeOK, Steps
    <2>3. Slots' /\ Recorded' /\ Evidence'
      BY <2>1 DEF IInv, Slots, Recorded, Evidence, ForwardSteps, Open, Present
    <2>4. SuccessIsReal' /\ OnlyReportedDamage'
      BY <2>1 DEF IInv, SuccessIsReal, Valid, Labelled, Present, OnlyReportedDamage, Identity
    <2> QED
      BY <2>2, <2>3, <2>4 DEF IInv
  <1> QED
    BY <1>2, <1>3, <1>4

\* The steps that write a host's report.
LEMMA ReportingKeeps ==
    ASSUME IInv, Succeed \/ Restored \/ Unrestored
    PROVE  IInv'
  <1>0. host \in Hosts /\ TypeOK
    BY DEF IInv, TypeOK
  <1>1. PICK result \in {"success", "restored", "unrestored"} :
            step = result /\ Finish(result)
    BY DEF Succeed, Restored, Unrestored
  <1>2. /\ report' = [report EXCEPT ![host] = result] /\ step' = "next" /\ lies' = {}
        /\ previous' = Nothing /\ UNCHANGED <<site, start, profile, host, faults>>
    BY <1>1 DEF Finish
  <1>3. TypeOK'
    <2>1. Nothing \in Identities
      BY DEF Nothing, Identities, Refs
    <2> QED
      BY <1>0, <1>2, <2>1 DEF TypeOK, Steps, Reports
  <1>4. Slots' /\ Recorded' /\ Evidence'
    BY <1>2 DEF IInv, Slots, Recorded, Evidence, ForwardSteps, Open, Present
  <1>5. report'[host] = result /\ \A h \in Hosts : h # host => report'[h] = report[h]
    BY <1>0, <1>2 DEF TypeOK
  <1>6. SuccessIsReal'
    <2>1. result = "success" => /\ Valid(Here["new"]) /\ Here["new"].enabled
                                /\ ~Present(Here["legacy"])
      BY <1>1 DEF IInv, Evidence
    <2> QED
      BY <1>2, <1>5, <2>1 DEF IInv, SuccessIsReal, Valid, Labelled, Present, Here
  <1>7. OnlyReportedDamage'
    <2>1. result = "restored" => Identity(Here) = start[host]
      BY <1>1 DEF IInv, Evidence, Recorded, Open
    <2> QED
      BY <1>2, <1>5, <2>1 DEF IInv, OnlyReportedDamage, Identity, Here
  <1> QED
    BY <1>3, <1>4, <1>6, <1>7 DEF IInv

-----------------------------------------------------------------------------
(* Theorems.                                                               *)

LEMMA InitIInv == Init => IInv
  <1> SUFFICES ASSUME Init PROVE IInv
    OBVIOUS
  <1>1. \A h \in Hosts : site[h] \in Before
    BY DEF Init
  <1>2. ASSUME NEW h \in Hosts
        PROVE  /\ site[h] \in [Ids -> Plugins]
               /\ site[h]["new"].ref # "legacy_old"
               /\ site[h]["legacy"].ref \notin {"target", "old"}
               /\ \A id \in Ids : ~Present(site[h][id]) => ~site[h][id].enabled
    <2>1. site[h] \in [Ids -> [ref : {"old", "target", "legacy_old", "link", "none"},
                               enabled : BOOLEAN, labelled : BOOLEAN, faithful : BOOLEAN]]
      BY <1>1, <1>2 DEF Before
    <2>2. /\ site[h]["new"].ref # "legacy_old"
          /\ site[h]["legacy"].ref \in {"legacy_old", "link", "none"}
          /\ \A id \in Ids : site[h][id].ref \in {"link", "none"} => ~site[h][id].enabled
      BY <1>1, <1>2 DEF Before
    <2>3. {"old", "target", "legacy_old", "link", "none"} = Refs
      BY DEF Refs, Commits
    <2> QED
      BY <2>1, <2>2, <2>3 DEF Plugins, Present
  <1>3. Nothing \in Identities
    BY DEF Nothing, Identities, Refs
  <1>4. host \in Hosts
    BY SomeHost DEF Init
  <1> QED
    BY <1>2, <1>3, <1>4
       DEF Init, IInv, TypeOK, Steps, Reports, Slots, Recorded, Open, Evidence, ForwardSteps,
           SuccessIsReal, OnlyReportedDamage

\* The invariant holds in every state of every rollout.
THEOREM InvariantHolds == Spec => []IInv
  <1>1. ASSUME IInv, [Next]_vars PROVE IInv'
    <2>1. CASE Next
      BY <1>1, <2>1, LookingKeeps, SwitchingKeeps, RemovingKeeps, InstallingKeeps,
         TurningKeeps, ReportingKeeps DEF Next, Forward, Back
    <2>2. CASE UNCHANGED vars
      BY <1>1, <2>2
         DEF vars, IInv, TypeOK, Slots, Recorded, Open, Evidence, SuccessIsReal,
             OnlyReportedDamage, Valid, Labelled, Present, Here, Identity, Migrating,
             Fresh, PreviousId
    <2> QED
      BY <1>1, <2>1, <2>2
  <1> QED
    BY <1>1, InitIInv, PTL DEF Spec

\* Every variable keeps its type.
THEOREM TypeCorrect == Spec => []TypeOK
  <1>1. IInv => TypeOK
    BY DEF IInv
  <1> QED
    BY <1>1, InvariantHolds, PTL

\* A host reported as a success runs the validated target and nothing else.
THEOREM SuccessIsRealHolds == Spec => []SuccessIsReal
  <1>1. IInv => SuccessIsReal
    BY DEF IInv
  <1> QED
    BY <1>1, InvariantHolds, PTL

\* A host that is neither a success nor a failed rollback is as it was.
THEOREM OnlyReportedDamageHolds == Spec => []OnlyReportedDamage
  <1>1. IInv => OnlyReportedDamage
    BY DEF IInv
  <1> QED
    BY <1>1, InvariantHolds, PTL

\* The activated plugin does not run beside the legacy one.
THEOREM NeverBothRunningHolds == Spec => []NeverBothRunning
  <1>1. IInv => NeverBothRunning
    BY DEF IInv, Evidence, NeverBothRunning
  <1> QED
    BY <1>1, InvariantHolds, PTL

-----------------------------------------------------------------------------
(* Action properties.                                                      *)

\* Everything a step can do to the plugins of a host, and at which step.
Switched(id) ==
    /\ Present(site[host][id])
    /\ \E on \in BOOLEAN :
          /\ site'[host][id] = [site[host][id] EXCEPT !.enabled = on]
          /\ on /\ id = "new" => step = "enable" \/ (step = "rollback-enabled" /\ ~Migrating)

Removed(id) == site'[host][id] = Absent /\ (id = "legacy" => step = "legacy-uninstall")

Replaced(id) ==
    /\ site'[host][id].ref # "none"
    /\ site'[host]["new"].ref = "target" /\ id = "new" =>
          step = "install" \/ (step = "rollback-install" /\ previous["new"].ref = "target")

OnlyHere(id) ==
    /\ \A h \in Hosts : h # host => site'[h] = site[h]
    /\ \A i \in Ids : i # id => site'[host][i] = site[host][i]

LEMMA SiteChanges ==
    ASSUME IInv, Next
    PROVE  \/ site' = site
           \/ \E id \in Ids :
                 /\ OnlyHere(id)
                 /\ \/ site'[host][id] = site[host][id]
                    \/ Switched(id) \/ Removed(id) \/ Replaced(id)
  <1>0. TypeOK /\ Undo \in Steps /\ \A s \in BackSteps \cup ForwardSteps : s \in Steps
    BY UndoSteps DEF IInv, BackSteps, ForwardSteps, Steps
  <1>1. CASE \/ NextHost \/ Preflight \/ Interrupt
             \/ Metadata \/ Validate \/ EnabledMetadata \/ Activate \/ MigrationMetadata
             \/ RollbackVerifyAbsent \/ RollbackActivate \/ RollbackVerify
             \/ Succeed \/ Restored \/ Unrestored
    BY <1>1 DEF NextHost, Preflight, Interrupt, Metadata, Validate, EnabledMetadata,
                Activate, MigrationMetadata, RollbackVerifyAbsent, RollbackActivate,
                RollbackVerify, Succeed, Restored, Unrestored, Finish, Read
  <1>2. CASE Stage \/ LegacyDisable \/ EnableTarget \/ RollbackEnabled \/ RollbackDisable
    <2>1. PICK id \in Ids, on \in BOOLEAN, ok \in Steps, failed \in Steps :
              /\ Enable(id, on, ok, failed)
              /\ on /\ id = "new" => step = "enable" \/ (step = "rollback-enabled" /\ ~Migrating)
      <3>1. /\ "metadata" \in Steps /\ "enable" \in Steps /\ "enabled-metadata" \in Steps
            /\ "rollback-activate" \in Steps /\ "rollback-disable" \in Steps
            /\ "unrestored" \in Steps /\ Undo \in Steps
        BY UndoSteps DEF Steps
      <3>2. CASE Stage
        BY <3>1, <3>2 DEF Stage, Ids
      <3>3. CASE LegacyDisable
        BY <3>1, <3>3 DEF LegacyDisable, Ids
      <3>4. CASE EnableTarget
        BY <3>1, <3>4 DEF EnableTarget, Ids
      <3>5. CASE RollbackEnabled
        <4>1. /\ PreviousId \in Ids /\ previous[PreviousId].enabled \in BOOLEAN
              /\ PreviousId = "new" => ~Migrating
          BY DEF PreviousId, Ids, IInv, TypeOK, Identities
        <4> QED
          BY <3>1, <3>5, <4>1 DEF RollbackEnabled
      <3>6. CASE RollbackDisable
        BY <3>1, <3>6 DEF RollbackDisable, Ids
      <3> QED
        BY <1>2, <3>2, <3>3, <3>4, <3>5, <3>6
    <2>2. /\ \A h \in Hosts : h # host => site'[h] = site[h]
          /\ \A i \in Ids : i # id => site'[host][i] = site[host][i]
          /\ \/ site'[host][id] = site[host][id]
             \/ /\ Present(site[host][id])
                /\ site'[host][id] = [site[host][id] EXCEPT !.enabled = on]
      BY <1>0, <2>1, EnableEffect
    <2> QED
      BY <2>1, <2>2 DEF OnlyHere, Switched
  <1>3. CASE LegacyUninstall \/ RollbackUninstall \/ RollbackUninstallNew
    <2>1. PICK id \in Ids, ok \in Steps, failed \in Steps :
              /\ Uninstall(id, ok, failed) /\ ok # failed
              /\ id = "legacy" => step = "legacy-uninstall"
      <3>1. /\ "migration-metadata" \in Steps /\ "rollback-verify-absent" \in Steps
            /\ "rollback-install" \in Steps /\ "rollback-disable" \in Steps
            /\ Undo \in Steps /\ Undo # "migration-metadata"
        BY UndoSteps DEF Steps
      <3>2. CASE LegacyUninstall
        BY <3>1, <3>2 DEF LegacyUninstall, Ids
      <3>3. CASE RollbackUninstall
        BY <3>1, <3>3 DEF RollbackUninstall, Ids
      <3>4. CASE RollbackUninstallNew
        BY <3>1, <3>4 DEF RollbackUninstallNew, Ids
      <3> QED
        BY <1>3, <3>2, <3>3, <3>4
    <2>2. /\ \A h \in Hosts : h # host => site'[h] = site[h]
          /\ \A i \in Ids : i # id => site'[host][i] = site[host][i]
          /\ site'[host][id] = site[host][id] \/ site'[host][id] = Absent
      BY <1>0, <2>1, UninstallEffect
    <2> QED
      BY <2>1, <2>2 DEF OnlyHere, Removed
  <1>4. CASE InstallTarget \/ RollbackInstall
    <2>1. PICK ref \in Commits, ok \in Steps, failed \in Steps :
              /\ Install(ref, ok, failed) /\ ok # failed
              /\ ref = "target" =>
                    step = "install" \/ (step = "rollback-install" /\ previous["new"].ref = "target")
      <3>1. /\ "stage" \in Steps /\ "rollback-enabled" \in Steps
            /\ "rollback-disable" \in Steps /\ Undo \in Steps /\ Undo # "stage"
        BY UndoSteps DEF Steps
      <3>2. CASE InstallTarget
        BY <3>1, <3>2 DEF InstallTarget, Commits
      <3>3. CASE RollbackInstall
        <4>1. /\ previous[PreviousId].ref \in Commits
              /\ previous[PreviousId].ref = "target" => previous["new"].ref = "target"
          BY <3>3 DEF RollbackInstall, IInv, Commits, Evidence, Fresh, PreviousId,
                      Migrating, Open
        <4> QED
          BY <3>1, <3>3, <4>1 DEF RollbackInstall
      <3> QED
        BY <1>4, <3>2, <3>3
    <2>2. ref \in Refs /\ IdOf(ref) \in Ids /\ ref # "none"
      BY <2>1 DEF Refs, Commits, IdOf, Ids
    <2>3. /\ \A h \in Hosts : h # host => site'[h] = site[h]
          /\ \A i \in Ids : i # IdOf(ref) => site'[host][i] = site[host][i]
          /\ \/ site'[host][IdOf(ref)] = site[host][IdOf(ref)]
             \/ site'[host][IdOf(ref)].ref = ref
      BY <1>0, <2>1, <2>2, InstallEffect
    <2> QED
      BY <2>1, <2>2, <2>3 DEF OnlyHere, Replaced
  <1> QED
    BY <1>1, <1>2, <1>3, <1>4 DEF Next, Forward, Back

\* The legacy plugin is removed only when the validated new one is running.
THEOREM LegacyKeptUntilReplacedHolds == Spec => LegacyKeptUntilReplaced
  <1> DEFINE Kept ==
        \A h \in Hosts :
          Present(site[h]["legacy"]) /\ ~Present(site'[h]["legacy"]) =>
              Valid(site[h]["new"]) /\ site[h]["new"].enabled
  <1>1. ASSUME IInv, Next PROVE Kept
    <2> SUFFICES ASSUME NEW h \in Hosts,
                        Present(site[h]["legacy"]), ~Present(site'[h]["legacy"])
                 PROVE  Valid(site[h]["new"]) /\ site[h]["new"].enabled
      OBVIOUS
    <2>1. PICK id \in Ids : /\ OnlyHere(id)
                            /\ \/ site'[host][id] = site[host][id]
                               \/ Switched(id) \/ Removed(id) \/ Replaced(id)
      BY <1>1, SiteChanges
    <2>2. h = host /\ id = "legacy"
      BY <2>1 DEF OnlyHere, Ids
    <2>3. ~Replaced(id)
      BY <2>2 DEF Replaced, Present
    <2>4. ~Switched(id)
      <3>1. site[host][id] \in Plugins
        BY <1>1, <2>2 DEF IInv, TypeOK
      <3>2. SUFFICES ASSUME NEW on \in BOOLEAN,
                            site'[host][id] = [site[host][id] EXCEPT !.enabled = on]
                     PROVE  FALSE
        BY DEF Switched
      <3>3. site'[host][id].ref = site[host][id].ref
        BY <3>1, <3>2, PluginsMade
      <3> QED
        BY <2>2, <3>3 DEF Present
    <2>5. step = "legacy-uninstall"
      BY <2>1, <2>2, <2>3, <2>4 DEF Removed
    <2> QED
      BY <1>1, <2>2, <2>5 DEF IInv, Evidence, Here
  <1>2. UNCHANGED vars => Kept
    BY DEF vars, Present
  <1>3. IInv /\ [Next]_vars => [Kept]_vars
    BY <1>1, <1>2
  <1> QED
    BY <1>3, InvariantHolds, PTL DEF Spec, LegacyKeptUntilReplaced

\* The target is switched on only once it is validated, or put back.
THEOREM ActivatedOnlyValidHolds == Spec => ActivatedOnlyValid
  <1> DEFINE Known ==
        \A h \in Hosts :
          /\ site[h]["new"].ref = "target" /\ ~site[h]["new"].enabled
          /\ site'[h]["new"].ref = "target" /\ site'[h]["new"].enabled
          => \/ Valid(site'[h]["new"])
             \/ start[h]["new"].ref = "target"
             \/ "rollback-install" \in lies
  <1>1. ASSUME IInv, Next PROVE Known
    <2> SUFFICES ASSUME NEW h \in Hosts,
                        site[h]["new"].ref = "target", ~site[h]["new"].enabled,
                        site'[h]["new"].ref = "target", site'[h]["new"].enabled,
                        "rollback-install" \notin lies,
                        start[h]["new"].ref # "target"
                 PROVE  Valid(site'[h]["new"])
      OBVIOUS
    <2>1. PICK id \in Ids : /\ OnlyHere(id)
                            /\ \/ site'[host][id] = site[host][id]
                               \/ Switched(id) \/ Removed(id) \/ Replaced(id)
      BY <1>1, SiteChanges
    <2>2. h = host /\ id = "new" /\ site[host]["new"] \in Plugins
      BY <1>1, <2>1 DEF OnlyHere, Ids, IInv, TypeOK
    <2>3. ~Removed(id)
      BY <2>2 DEF Removed, Absent
    <2>4. ASSUME Replaced(id) PROVE FALSE
      <3>1. step = "install" \/ (step = "rollback-install" /\ previous["new"].ref = "target")
        BY <2>2, <2>4 DEF Replaced
      <3>2. start[host] = previous
        BY <1>1, <3>1 DEF IInv, Recorded, Open
      <3>3. step = "install" /\ previous["new"].ref # "target"
        BY <2>2, <3>1, <3>2
      <3>4. Identity(Here)["new"].ref = site[host]["new"].ref
        BY DEF Identity, Here, Ids
      <3>5. Identity(Here) = previous
        BY <1>1, <3>3 DEF IInv, Evidence
      <3> QED
        BY <2>2, <3>3, <3>4, <3>5
    <2>5. Switched(id)
      BY <2>1, <2>2, <2>3, <2>4
    <2>6. PICK on \in BOOLEAN :
              /\ site'[host][id] = [site[host][id] EXCEPT !.enabled = on]
              /\ on /\ id = "new" =>
                    step = "enable" \/ (step = "rollback-enabled" /\ ~Migrating)
      BY <2>5 DEF Switched
    <2>7. /\ site'[host]["new"].enabled = on
          /\ site'[host]["new"].ref = site[host]["new"].ref
          /\ site'[host]["new"].labelled = site[host]["new"].labelled
          /\ site'[host]["new"].faithful = site[host]["new"].faithful
      BY <2>2, <2>6, PluginsMade
    <2>8. CASE step = "enable"
      <3>1. Valid(site[host]["new"])
        BY <1>1, <2>8 DEF IInv, Evidence, Here
      <3> QED
        BY <2>2, <2>7, <3>1 DEF Valid, Labelled
    <2>9. CASE step = "rollback-enabled" /\ ~Migrating
      <3>1. start[host] = previous
        BY <1>1, <2>9 DEF IInv, Recorded, Open
      <3>2. site[host]["new"].ref = previous["new"].ref
        BY <1>1, <2>9 DEF IInv, Evidence, PreviousId, Here
      <3> QED
        BY <2>2, <3>1, <3>2
    <2> QED
      BY <2>2, <2>6, <2>7, <2>8, <2>9
  <1>2. UNCHANGED vars => Known
    BY DEF vars
  <1>3. IInv /\ [Next]_vars => [Known]_vars
    BY <1>1, <1>2
  <1> QED
    BY <1>3, InvariantHolds, PTL DEF Spec, ActivatedOnlyValid
=============================================================================
