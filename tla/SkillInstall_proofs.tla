------------------------- MODULE SkillInstall_proofs -------------------------
(***************************************************************************)
(* Proofs about the skill installer, for any number of installers, targets *)
(* and files: the types, and one inductive invariant behind the three      *)
(* safety properties.  It says of each installer what it holds at each     *)
(* step (its staged copy, its backup, the exception on its way out), and   *)
(* of every file of the user where it is kept.                             *)
(***************************************************************************)
EXTENDS SkillInstall, SequenceTheorems, TLAPS

-----------------------------------------------------------------------------
(* Trees.                                                                  *)

LEMMA TreeFacts ==
  /\ Missing \in Trees
  /\ \A tree \in Trees : Overlaid(tree) \in Trees
  /\ \A tree \in Trees, f \in Files, c \in Contents :
        [tree EXCEPT ![f] = c] \in Trees
BY DEF Missing, Trees, Contents, Overlaid

LEMMA BeginningsAreTrees == Beginnings \subseteq Trees
BY TreeFacts DEF Beginnings, Foreign, Installed, Trees, Contents

-----------------------------------------------------------------------------
(* Types.                                                                  *)

\* An installer at work has a target.
HasTarget == \A i \in Installers : pc[i] \notin {"idle", "done"} => target[i] \in Targets

\* What the installer's bookkeeping does to the types.
LEMMA FinishTypes ==
  ASSUME TypeOK, NEW i \in Installers,
         NEW o \in {"killed", "installed", "failed", "interrupted", "retained"},
         Finish(i, o)
  PROVE  /\ said' \in [Installers -> {"none", "current", "killed", "installed",
                                      "failed", "interrupted", "retained"}]
         /\ staged' \in [Installers -> Trees]
         /\ backup' \in [Installers -> Trees]
         /\ listing' \in [Installers -> SUBSET Files]
         /\ raised' \in [Installers -> {"none", "retained"} \cup Exceptions]
         /\ target' \in [Installers -> Targets \cup {Nowhere}]
         /\ before' \in [Installers -> Trees]
         /\ seen' \in [Installers -> SUBSET Extras]
         /\ \A j \in Installers \ {i} : target'[j] = target[j]
BY TreeFacts DEF Finish, TypeOK

LEMMA NextTargetTypes ==
  ASSUME TypeOK, NEW i \in Installers, NEW o, NextTarget(i, o)
  PROVE  /\ pc' \in [Installers -> PCs]
         /\ todo' \in [Installers -> Seq(Targets)]
         /\ pc'[i] \in {"idle", "done"}
         /\ \A j \in Installers \ {i} : pc'[j] = pc[j]
<1>1. CASE UNCHANGED todo /\ \E l \in {"idle", "done"} : Go(i, l)
  BY <1>1 DEF Go, TypeOK, PCs
<1>2. CASE Len(todo[i]) > 1 /\ todo' = [todo EXCEPT ![i] = Tail(@)] /\ Go(i, "idle")
  <2>1. todo[i] \in Seq(Targets) /\ todo[i] # <<>>
    BY <1>2 DEF TypeOK
  <2>2. Tail(todo[i]) \in Seq(Targets)
    BY <2>1
  <2>3. QED
    BY <1>2, <2>2 DEF Go, TypeOK, PCs
<1>3. QED
  BY <1>1, <1>2 DEF NextTarget

\* An installer at work goes on to l, with or without an exception.
LEMMA GoTypes ==
  ASSUME TypeOK, HasTarget, NEW i \in Installers, pc[i] \notin {"idle", "done"},
         target' = target, NEW l \in PCs
  PROVE  /\ Go(i, l) => pc' \in [Installers -> PCs] /\ HasTarget'
         /\ \A e \in {"none", "retained"} \cup Exceptions : Raise(i, e, l) =>
               /\ pc' \in [Installers -> PCs] /\ HasTarget'
               /\ raised' \in [Installers -> {"none", "retained"} \cup Exceptions]
<1>1. Go(i, l) => pc' \in [Installers -> PCs] /\ HasTarget'
  BY DEF Go, TypeOK, HasTarget
<1>2. QED
  BY <1>1 DEF Raise, TypeOK

LEMMA PutTypes ==
  ASSUME TypeOK, NEW i, NEW t \in Targets, NEW tree \in Trees, Put(i, t, tree)
  PROVE  /\ dest' \in [Targets -> Trees]
         /\ disturbed' \in [Installers -> BOOLEAN]
BY DEF Put, TypeOK

LEMMA OutcomeTypes ==
  ASSUME NEW e
  PROVE  Outcome(e) \in {"installed", "failed", "interrupted", "retained"}
BY DEF Outcome

LEMMA MoveTypes ==
  ASSUME TypeOK, HasTarget, NEW i \in Installers, pc[i] \notin {"idle", "done"}
  PROVE  /\ MoveOut(i) => /\ dest' \in [Targets -> Trees]
                          /\ disturbed' \in [Installers -> BOOLEAN]
                          /\ backup' \in [Installers -> Trees]
                          /\ excused' \in [Targets -> SUBSET Extras]
         /\ MoveIn(i) => /\ dest' \in [Targets -> Trees]
                         /\ disturbed' \in [Installers -> BOOLEAN]
                         /\ staged' \in [Installers -> Trees]
         /\ MoveBack(i) => /\ dest' \in [Targets -> Trees]
                           /\ disturbed' \in [Installers -> BOOLEAN]
                           /\ backup' \in [Installers -> Trees]
<1>1. target[i] \in Targets /\ dest[target[i]] \in Trees
  BY DEF HasTarget, TypeOK
<1>2. Overlooked(i) \subseteq Extras
  BY DEF Overlooked, Owned
<1>3. staged[i] \in Trees /\ backup[i] \in Trees
  BY DEF TypeOK
<1>4. MoveOut(i) => /\ dest' \in [Targets -> Trees]
                    /\ disturbed' \in [Installers -> BOOLEAN]
  BY <1>1, PutTypes, TreeFacts DEF MoveOut
<1>5. MoveOut(i) => /\ backup' \in [Installers -> Trees]
                    /\ excused' \in [Targets -> SUBSET Extras]
  BY <1>1, <1>2 DEF MoveOut, TypeOK
<1>6. QED
  BY <1>1, <1>3, <1>4, <1>5, PutTypes, TreeFacts DEF MoveIn, MoveBack, TypeOK

LEMMA StepTypes ==
  ASSUME TypeOK, HasTarget, NEW i \in Installers, Step(i)
  PROVE  TypeOK' /\ HasTarget'
<1>0. pc[i] \notin {"idle", "done"} =>
         target[i] \in Targets /\ dest[target[i]] \in Trees
  BY DEF HasTarget, TypeOK
<1>1. CASE Select(i)
  <2>1. todo[i] \in Seq(Targets) /\ todo[i] # <<>>
    BY <1>1 DEF Select, TypeOK
  <2>2. Head(todo[i]) \in Targets
    BY <2>1
  <2>3. QED
    BY <1>1, <2>2 DEF Select, Take, Go, TypeOK, HasTarget, diskVars, PCs
<1>2. ASSUME NEW t \in Targets, Pick(i, t)
      PROVE  TypeOK' /\ HasTarget'
  <2>1. CASE Status(dest[t]) = "current"
    <3>1. UNCHANGED <<pc, target, disturbed>> /\ said' = [said EXCEPT ![i] = "current"]
      BY <1>2, <2>1 DEF Pick
    <3>2. QED
      BY <1>2, <3>1 DEF Pick, TypeOK, HasTarget, diskVars
  <2>2. CASE Status(dest[t]) # "current"
    <3>1. Take(i, t, "check") /\ UNCHANGED said
      BY <1>2, <2>2 DEF Pick
    <3>2. QED
      BY <1>2, <3>1 DEF Pick, Take, Go, TypeOK, HasTarget, diskVars, PCs
  <2>3. QED
    BY <2>1, <2>2
<1>3. CASE Check(i)
  <2>1. CASE Refused(dest[target[i]])
    BY <1>3, <2>1, FinishTypes, NextTargetTypes
    DEF Check, TypeOK, HasTarget, diskVars
  <2>2. CASE ~Refused(dest[target[i]])
    BY <1>0, <1>3, <2>2 DEF Check, Go, TypeOK, HasTarget, diskVars, PCs
  <2>3. QED
    BY <2>1, <2>2
<1>4. CASE Stage(i)
  <2>1. Present(dest[target[i]]) \subseteq Files
    BY DEF Present
  <2>2. listing' \in [Installers -> SUBSET Files]
    BY <1>4, <2>1 DEF Stage, TypeOK
  <2>3. pc' \in [Installers -> PCs] /\ HasTarget'
    BY <1>4, GoTypes DEF Stage, PCs
  <2>4. QED
    BY <1>4, <2>2, <2>3 DEF Stage, TypeOK, diskVars, ghostVars
<1>5. ASSUME NEW f \in Files, CopyFile(i, f)
      PROVE  TypeOK' /\ HasTarget'
  <2>1. dest[target[i]][f] \in Contents
    BY <1>0, <1>5 DEF CopyFile, Trees
  <2>2. [staged[i] EXCEPT ![f] = dest[target[i]][f]] \in Trees
    BY <2>1, TreeFacts DEF TypeOK
  <2>3. staged' \in [Installers -> Trees]
    BY <1>5, <2>2 DEF CopyFile, TypeOK
  <2>4. listing' \in [Installers -> SUBSET Files] /\ seen' \in [Installers -> SUBSET Extras]
    <3>1. listing[i] \ {f} \subseteq Files /\ seen[i] \cup ({f} \cap Extras) \subseteq Extras
      BY DEF TypeOK
    <3>2. /\ listing' = listing \/ listing' = [listing EXCEPT ![i] = listing[i] \ {f}]
          /\ seen' = seen \/ seen' = [seen EXCEPT ![i] = seen[i] \cup ({f} \cap Extras)]
      BY <1>5 DEF CopyFile
    <3>3. listing' \in [Installers -> SUBSET Files]
      BY <3>1, <3>2 DEF TypeOK
    <3>4. seen' \in [Installers -> SUBSET Extras]
      BY <3>1, <3>2 DEF TypeOK
    <3>5. QED
      BY <3>3, <3>4
  <2>5. \/ Raise(i, "error", "clean")
        \/ raised' = raised /\ \E l \in {"overlay", "copy"} : Go(i, l)
    BY <1>5 DEF CopyFile
  <2>6. /\ pc' \in [Installers -> PCs] /\ HasTarget'
        /\ raised' \in [Installers -> {"none", "retained"} \cup Exceptions]
    BY <1>5, <2>5, GoTypes DEF CopyFile, PCs, Exceptions, TypeOK
  <2>7. QED
    BY <1>5, <2>3, <2>4, <2>6 DEF CopyFile, TypeOK, diskVars
<1>6. CASE Overlay(i)
  <2>1. staged' \in [Installers -> Trees]
    BY <1>6, TreeFacts DEF Overlay, TypeOK
  <2>2. QED
    BY <1>6, <2>1, GoTypes DEF Overlay, TypeOK, diskVars, ghostVars, PCs
<1>7. CASE Look(i)
  BY <1>7, GoTypes DEF Look, TypeOK, diskVars, ghostVars, PCs
<1>8. CASE SwapOut(i)
  BY <1>8, MoveTypes, GoTypes DEF SwapOut, Exceptions, TypeOK, PCs
<1>9. CASE SwapIn(i)
  <2>1. Unwind(i) \in PCs
    BY DEF Unwind, PCs
  <2>2. \/ raised' = raised /\ Go(i, "clean")
        \/ \E e \in Exceptions : Raise(i, e, Unwind(i))
    BY <1>9 DEF SwapIn, Exceptions
  <2>3. /\ pc' \in [Installers -> PCs] /\ HasTarget'
        /\ raised' \in [Installers -> {"none", "retained"} \cup Exceptions]
    BY <1>9, <2>1, <2>2, GoTypes DEF SwapIn, TypeOK, PCs
  <2>4. /\ dest' \in [Targets -> Trees]
        /\ disturbed' \in [Installers -> BOOLEAN]
        /\ staged' \in [Installers -> Trees]
    BY <1>9, MoveTypes DEF SwapIn, TypeOK
  <2>5. UNCHANGED <<left, todo, target, listing, said, mishaps, before, seen, owned,
                    excused, backup>>
    BY <1>9 DEF SwapIn
  <2>6. QED
    BY <2>3, <2>4, <2>5 DEF TypeOK
<1>10. CASE Restore(i)
  BY <1>10, MoveTypes, GoTypes DEF Restore, TypeOK, PCs
<1>11. CASE Clean(i)
  <2>1. LeftBehind(i) \subseteq Trees
    BY DEF LeftBehind, TypeOK
  <2>2. left' \in [Targets -> SUBSET Trees]
    BY <1>11, <2>1 DEF Clean, TypeOK
  <2>3. PICK o \in {"installed", "failed", "interrupted", "retained"} :
           Finish(i, o) /\ NextTarget(i, o)
    BY <1>11, OutcomeTypes DEF Clean
  <2>4. HasTarget'
    BY <2>3, FinishTypes, NextTargetTypes DEF HasTarget
  <2>5. QED
    BY <1>11, <2>2, <2>3, <2>4, FinishTypes, NextTargetTypes DEF Clean, TypeOK
<1>12. QED
  BY <1>1, <1>2, <1>3, <1>4, <1>5, <1>6, <1>7, <1>8, <1>9, <1>10, <1>11 DEF Step

LEMMA TroubleTypes ==
  ASSUME TypeOK, HasTarget, NEW i \in Installers, Trouble(i)
  PROVE  TypeOK' /\ HasTarget'
<1>0. pc[i] \notin {"idle", "done"} =>
         target[i] \in Targets /\ dest[target[i]] \in Trees
  BY DEF HasTarget, TypeOK
<1>1. Unwind(i) \in PCs
  BY DEF Unwind, PCs
<1>2. CASE CopyFails(i)
  <2>1. /\ pc' \in [Installers -> PCs] /\ HasTarget'
        /\ raised' \in [Installers -> {"none", "retained"} \cup Exceptions]
    BY <1>2, GoTypes DEF CopyFails, PCs
  <2>2. QED
    BY <1>2, <2>1 DEF CopyFails, Mishap, TypeOK, diskVars, ghostVars
<1>3. CASE SwapOutFails(i)
  <2>1. \E e \in Exceptions, l \in PCs : Raise(i, e, l)
    BY <1>1, <1>3 DEF SwapOutFails, Exceptions, PCs
  <2>2. /\ pc' \in [Installers -> PCs] /\ HasTarget'
        /\ raised' \in [Installers -> {"none", "retained"} \cup Exceptions]
    BY <1>3, <2>1, GoTypes DEF SwapOutFails
  <2>3. /\ dest' \in [Targets -> Trees]
        /\ disturbed' \in [Installers -> BOOLEAN]
        /\ backup' \in [Installers -> Trees]
        /\ excused' \in [Targets -> SUBSET Extras]
    BY <1>3, MoveTypes DEF SwapOutFails, TypeOK
  <2>4. QED
    BY <1>3, <2>2, <2>3 DEF SwapOutFails, Mishap, TypeOK
<1>4. CASE SwapInFails(i)
  <2>1. \E e \in Exceptions, l \in PCs : Raise(i, e, l)
    BY <1>1, <1>4 DEF SwapInFails, Exceptions
  <2>2. /\ pc' \in [Installers -> PCs] /\ HasTarget'
        /\ raised' \in [Installers -> {"none", "retained"} \cup Exceptions]
    BY <1>4, <2>1, GoTypes DEF SwapInFails
  <2>3. /\ dest' \in [Targets -> Trees]
        /\ disturbed' \in [Installers -> BOOLEAN]
        /\ staged' \in [Installers -> Trees]
    BY <1>4, MoveTypes DEF SwapInFails, TypeOK
  <2>4. QED
    BY <1>4, <2>2, <2>3 DEF SwapInFails, Mishap, TypeOK
<1>5. CASE RestoreFails(i)
  <2>1. Owned(backup[i]) \subseteq Extras
    BY DEF Owned
  <2>2. /\ excused' \in [Targets -> SUBSET Extras]
        /\ dest' \in [Targets -> Trees]
        /\ disturbed' \in [Installers -> BOOLEAN]
        /\ backup' \in [Installers -> Trees]
    BY <1>5, <2>1, MoveTypes DEF RestoreFails, TypeOK
  <2>3. \E e \in {"none", "retained"} \cup Exceptions, l \in PCs : Raise(i, e, l)
    BY <1>5 DEF RestoreFails, Exceptions, PCs
  <2>4. /\ pc' \in [Installers -> PCs] /\ HasTarget'
        /\ raised' \in [Installers -> {"none", "retained"} \cup Exceptions]
    BY <1>5, <2>3, GoTypes DEF RestoreFails
  <2>5. QED
    BY <1>5, <2>2, <2>4 DEF RestoreFails, Mishap, TypeOK
<1>6. CASE Kill(i)
  <2>1. left' \in [Targets -> SUBSET Trees]
    BY <1>6 DEF Kill, TypeOK
  <2>2. QED
    BY <1>6, <2>1, FinishTypes
    DEF Kill, Mishap, Go, TypeOK, HasTarget, PCs
<1>7. QED
  BY <1>2, <1>3, <1>4, <1>5, <1>6 DEF Trouble

LEMMA UserTypes ==
  ASSUME TypeOK, HasTarget, NEW t \in Targets, NEW f \in Extras, UserAdds(t, f)
  PROVE  TypeOK' /\ HasTarget'
<1>1. [dest[t] EXCEPT ![f] = "own"] \in Trees
  BY TreeFacts DEF TypeOK, Files, Contents
<1>2. dest' \in [Targets -> Trees] /\ disturbed' \in [Installers -> BOOLEAN]
  BY <1>1, PutTypes DEF UserAdds
<1>3. QED
  BY <1>2 DEF UserAdds, TypeOK, HasTarget, jobVars

LEMMA TypesHold == Spec => [](TypeOK /\ HasTarget)
<1>1. Init => TypeOK /\ HasTarget
  <2> SUFFICES ASSUME Init PROVE TypeOK /\ HasTarget
    OBVIOUS
  <2>1. dest \in [Targets -> Trees]
    BY BeginningsAreTrees DEF Init
  <2>2. Orders \cup {<<>>} \subseteq Seq(Targets)
    <3>1. ASSUME NEW s \in Orders PROVE s \in Seq(Targets)
      <4>1. PICK n \in {1, 2} : s \in [1..n -> Targets]
        BY <3>1 DEF Orders
      <4>2. n \in Nat
        OBVIOUS
      <4>3. QED
        BY <4>1, <4>2, SeqDef
    <3>2. <<>> \in Seq(Targets)
      OBVIOUS
    <3>3. QED
      BY <3>1, <3>2
  <2>3. todo \in [Installers -> Seq(Targets)]
    BY <2>2 DEF Init
  <2>4. owned \in [Targets -> SUBSET Extras]
    BY DEF Init, Owned
  <2>5. QED
    BY <2>1, <2>3, <2>4, TreeFacts DEF Init, TypeOK, HasTarget, PCs
<1>2. TypeOK /\ HasTarget /\ [Next]_vars => TypeOK' /\ HasTarget'
  <2> SUFFICES ASSUME TypeOK, HasTarget, [Next]_vars
               PROVE  TypeOK' /\ HasTarget'
    OBVIOUS
  <2>1. CASE UNCHANGED vars
    BY <2>1 DEF vars, diskVars, jobVars, ghostVars, TypeOK, HasTarget
  <2>2. CASE Next
    BY <2>2, StepTypes, TroubleTypes, UserTypes DEF Next
  <2>3. QED
    BY <2>1, <2>2
<1>3. QED
  BY <1>1, <1>2, PTL DEF Spec

\* Every variable keeps its type.
THEOREM TypeCorrect == Spec => []TypeOK
BY TypesHold, PTL

-----------------------------------------------------------------------------
(* The inductive invariant.                                                *)

\* One version, and nothing but the user's own files beside it.
Whole(tree) == Uniform(tree) /\ \A f \in Extras : tree[f] \in {"absent", "own"}

OnDisk ==
    /\ \A t \in Targets : Whole(dest[t])
    /\ \A i \in Installers : Whole(backup[i])

NotMovedPCs == {"idle", "check", "stage", "copy", "overlay", "look", "out", "done"}
OverlaidPCs == {"look", "out", "in"}

\* What i has in its hands: nothing is moved out before "out", the staged
\* copy holds the files of the user that it has seen, and then the bundled
\* ones, and an exception is on its way only to the handlers.
JobOK(i) ==
    /\ pc[i] \in NotMovedPCs => backup[i] = Missing
    /\ pc[i] \notin {"restore", "clean"} => raised[i] = "none"
    /\ pc[i] = "restore" => raised[i] \in Exceptions
    /\ pc[i] \in {"idle", "check", "stage", "done"} =>
          staged[i] = Missing /\ seen[i] = {}
    /\ pc[i] \in {"copy", "overlay"} \cup OverlaidPCs =>
          \A f \in seen[i] : staged[i][f] = "own"
    /\ pc[i] \in OverlaidPCs => \A f \in Source : staged[i][f] = "new"
    /\ \A f \in Extras : staged[i][f] \in {"absent", "own"}
    /\ pc[i] = "in" => Owned(backup[i]) \subseteq seen[i] \cup excused[target[i]]

Without(tree, missing) ==
    [f \in Files |-> IF f \in missing THEN "absent" ELSE tree[f]]

\* OutcomeIsTrue for one installer.
Told(i) ==
    /\ raised[i] = "none" => dest[target[i]] = Overlaid(before[i])
    /\ raised[i] = "error" => dest[target[i]] = before[i]
    /\ raised[i] = "retained" =>
          backup[i] = before[i] /\ dest[target[i]] \in {Missing, Overlaid(before[i])}
    /\ raised[i] = "interrupt" =>
          dest[target[i]] \in {before[i], Overlaid(before[i])} \/ backup[i] = before[i]

\* What i knows of a destination that nobody else has touched since its check.
Knows(i) ==
    /\ pc[i] \in {"stage", "copy", "overlay", "look", "out"} =>
          dest[target[i]] = before[i]
    /\ pc[i] = "copy" => staged[i] = Without(before[i], listing[i])
    /\ pc[i] = "overlay" => staged[i] = before[i]
    /\ pc[i] \in OverlaidPCs => staged[i] = Overlaid(before[i])
    /\ pc[i] = "in" => dest[target[i]] = Missing /\ backup[i] = before[i]
    /\ pc[i] = "restore" =>
          /\ backup[i] = before[i]
          /\ dest[target[i]] \in {Missing, Overlaid(before[i])}
          /\ raised[i] = "error" => dest[target[i]] = Missing
    /\ pc[i] = "clean" => Told(i)

Truth(i) == ~disturbed[i] => Knows(i)

\* The backup of i will not be thrown away with f in it.
Keeps(i, t, f) ==
    /\ target[i] = t
    /\ backup[i][f] = "own"
    /\ pc[i] \in {"in", "restore"} \/ (pc[i] = "clean" /\ raised[i] = "retained")

Kept ==
    \A t \in Targets : \A f \in owned[t] \ excused[t] :
        \/ dest[t][f] = "own"
        \/ \E i \in Installers : Keeps(i, t, f)
        \/ \E tree \in left[t] : tree[f] = "own"

IInv ==
    /\ OnDisk
    /\ \A i \in Installers : JobOK(i) /\ Truth(i)
    /\ Kept

-----------------------------------------------------------------------------
(* What a step of one installer does to the others.                        *)

SameJob(j) ==
    /\ pc'[j] = pc[j] /\ target'[j] = target[j] /\ raised'[j] = raised[j]
    /\ listing'[j] = listing[j] /\ staged'[j] = staged[j] /\ backup'[j] = backup[j]
    /\ before'[j] = before[j] /\ seen'[j] = seen[j]

\* Their work is their own, a changed destination disturbs whoever works on
\* it, and nothing that was excused or left is taken back.
Apart(i) ==
    /\ \A j \in Installers \ {i} :
          /\ SameJob(j)
          /\ pc[j] \notin {"idle", "done"} =>
                \/ disturbed'[j]
                \/ disturbed'[j] = disturbed[j] /\ dest'[target[j]] = dest[target[j]]
    /\ \A t \in Targets : excused[t] \subseteq excused'[t] /\ left[t] \subseteq left'[t]
    /\ owned' = owned

LEMMA OthersKeep ==
  ASSUME HasTarget, IInv, NEW i, Apart(i), NEW j \in Installers \ {i}
  PROVE  JobOK(j)' /\ Truth(j)'
<1>1. JobOK(j) /\ Truth(j) /\ SameJob(j)
  BY DEF IInv, Apart
<1>2. pc[j] \notin {"idle", "done"} =>
         /\ excused[target[j]] \subseteq excused'[target[j]]
         /\ disturbed'[j] \/ (disturbed'[j] = disturbed[j]
                              /\ dest'[target[j]] = dest[target[j]])
  BY DEF HasTarget, Apart
<1>3. JobOK(j)'
  BY <1>1, <1>2 DEF JobOK, SameJob
<1>4. CASE pc[j] \in {"idle", "done"}
  BY <1>1, <1>3, <1>4 DEF Truth, Knows, OverlaidPCs, SameJob
<1>5. CASE pc[j] \notin {"idle", "done"}
  BY <1>1, <1>2, <1>3, <1>5 DEF Truth, Knows, Told, SameJob
<1>6. QED
  BY <1>3, <1>4, <1>5

\* A step keeps the invariant if it keeps i's part of it and moves a file of
\* the user only to where it is kept.
LEMMA StepKeeps ==
  ASSUME TypeOK, HasTarget, IInv, NEW i \in Installers, Apart(i),
         JobOK(i)', Truth(i)', OnDisk',
         \A t \in Targets : \A f \in Extras \ excused'[t] :
            /\ dest[t][f] = "own" => dest'[t][f] = "own" \/ Keeps(i, t, f)'
            /\ Keeps(i, t, f) => \/ dest'[t][f] = "own"
                                \/ Keeps(i, t, f)'
                                \/ \E tree \in left'[t] : tree[f] = "own"
  PROVE  IInv'
<1>1. \A j \in Installers : JobOK(j)' /\ Truth(j)'
  BY OthersKeep
<1>2. ASSUME NEW t \in Targets, NEW f \in owned'[t] \ excused'[t]
      PROVE  \/ dest'[t][f] = "own"
             \/ \E j \in Installers : Keeps(j, t, f)'
             \/ \E tree \in left'[t] : tree[f] = "own"
  <2>1. f \in owned[t] \ excused[t] /\ f \in Extras \ excused'[t]
    BY <1>2 DEF Apart, TypeOK
  <2>2. \A j \in Installers \ {i} : Keeps(j, t, f) => Keeps(j, t, f)'
    BY DEF Apart, SameJob, Keeps
  <2>3. left[t] \subseteq left'[t]
    BY DEF Apart
  <2>4. \/ dest[t][f] = "own"
        \/ \E j \in Installers : Keeps(j, t, f)
        \/ \E tree \in left[t] : tree[f] = "own"
    BY <2>1 DEF IInv, Kept
  <2>5. CASE dest[t][f] = "own"
    BY <2>1, <2>5
  <2>6. CASE \E j \in Installers : Keeps(j, t, f)
    BY <2>1, <2>2, <2>6
  <2>7. CASE \E tree \in left[t] : tree[f] = "own"
    BY <2>3, <2>7
  <2>8. QED
    BY <2>4, <2>5, <2>6, <2>7
<1>3. QED
  BY <1>1, <1>2 DEF IInv, Kept

\* The files stay where they are.
LEMMA QuietStep ==
  ASSUME TypeOK, HasTarget, IInv, NEW i \in Installers, Apart(i),
         JobOK(i)', Truth(i)', dest' = dest, backup'[i] \in {backup[i], Missing},
         pc[i] \in NotMovedPCs \/ \A t, f : Keeps(i, t, f) => Keeps(i, t, f)'
  PROVE  IInv'
<1>1. Whole(Missing)
  BY DEF Whole, Uniform, Missing, Contents, Files
<1>2. OnDisk'
  BY <1>1 DEF OnDisk, IInv, Apart, SameJob
<1>3. \A t, f : Keeps(i, t, f) => Keeps(i, t, f)'
  BY DEF Keeps, NotMovedPCs
<1>4. QED
  BY <1>2, <1>3, StepKeeps

-----------------------------------------------------------------------------
(* The steps that move nothing.                                            *)

LEMMA FinishFacts ==
  ASSUME TypeOK, NEW i \in Installers, NEW o, Finish(i, o)
  PROVE  /\ \A j \in Installers \ {i} :
               /\ target'[j] = target[j] /\ raised'[j] = raised[j]
               /\ listing'[j] = listing[j] /\ staged'[j] = staged[j]
               /\ backup'[j] = backup[j] /\ before'[j] = before[j]
               /\ seen'[j] = seen[j]
         /\ staged'[i] = Missing /\ backup'[i] = Missing
         /\ raised'[i] = "none" /\ seen'[i] = {}
BY DEF Finish, TypeOK

\* Between two installations nothing is claimed.
LEMMA RestKeeps ==
  ASSUME TypeOK, NEW i \in Installers, NEW o, Finish(i, o), pc'[i] \in {"idle", "done"}
  PROVE  JobOK(i)' /\ Truth(i)'
<1>1. \A f \in Extras : Missing[f] = "absent"
  BY DEF Missing, Files
<1>2. JobOK(i)'
  BY <1>1, FinishFacts DEF JobOK, NotMovedPCs, OverlaidPCs
<1>3. Truth(i)'
  BY DEF Truth, Knows, OverlaidPCs
<1>4. QED
  BY <1>2, <1>3

LEMMA GoFacts ==
  ASSUME TypeOK, NEW i \in Installers, NEW l
  PROVE  /\ Go(i, l) => pc'[i] = l /\ \A j \in Installers \ {i} : pc'[j] = pc[j]
         /\ \A e : Raise(i, e, l) =>
               /\ pc'[i] = l /\ raised'[i] = e
               /\ \A j \in Installers \ {i} : pc'[j] = pc[j] /\ raised'[j] = raised[j]
BY DEF Go, Raise, TypeOK

\* i as the invariant knows it.
LEMMA JobFacts ==
  ASSUME TypeOK, HasTarget, IInv, NEW i \in Installers
  PROVE  /\ JobOK(i) /\ Truth(i)
         /\ disturbed[i] \in BOOLEAN
         /\ pc[i] \notin {"idle", "done"} =>
               /\ target[i] \in Targets
               /\ dest[target[i]] \in Trees /\ Whole(dest[target[i]])
         /\ before[i] \in Trees /\ staged[i] \in Trees /\ backup[i] \in Trees
         /\ Whole(backup[i])
BY DEF TypeOK, HasTarget, IInv, OnDisk

LEMMA TakeKeeps ==
  ASSUME TypeOK, HasTarget, IInv, NEW i \in Installers, pc[i] = "idle",
         NEW t \in Targets, Take(i, t, "check"),
         UNCHANGED <<diskVars, listing, staged, backup, raised, before, seen, owned,
                     excused>>
  PROVE  IInv'
<1>1. /\ pc'[i] = "check"
      /\ \A j \in Installers \ {i} : /\ pc'[j] = pc[j] /\ target'[j] = target[j]
                                     /\ disturbed'[j] = disturbed[j]
  BY GoFacts DEF Take, TypeOK
<1>2. Apart(i)
  BY <1>1 DEF Apart, SameJob, diskVars
<1>3. JobOK(i)'
  BY <1>1, JobFacts DEF JobOK, NotMovedPCs, OverlaidPCs
<1>4. Truth(i)'
  BY <1>1 DEF Truth, Knows, OverlaidPCs
<1>5. QED
  BY <1>2, <1>3, <1>4, QuietStep DEF diskVars, NotMovedPCs

LEMMA SelectKeeps ==
  ASSUME TypeOK, HasTarget, IInv, NEW i \in Installers, Select(i)
  PROVE  IInv'
<1>1. todo[i] \in Seq(Targets) /\ todo[i] # <<>>
  BY DEF Select, TypeOK
<1>2. Head(todo[i]) \in Targets
  BY <1>1
<1>3. QED
  BY <1>2, TakeKeeps DEF Select

LEMMA PickKeeps ==
  ASSUME TypeOK, HasTarget, IInv, NEW i \in Installers, NEW t \in Targets, Pick(i, t)
  PROVE  IInv'
<1>1. CASE Status(dest[t]) = "current"
  <2>1. UNCHANGED <<diskVars, pc, target, listing, staged, backup, raised, before, seen,
                    disturbed, owned, excused>>
    BY <1>1 DEF Pick
  <2>2. QED
    BY <2>1 DEF diskVars, IInv, OnDisk, JobOK, Truth, Knows, Told, Kept, Keeps
<1>2. CASE Status(dest[t]) # "current"
  <2>1. Take(i, t, "check")
    BY <1>2 DEF Pick
  <2>2. QED
    BY <2>1, TakeKeeps DEF Pick
<1>3. QED
  BY <1>1, <1>2

LEMMA CheckKeeps ==
  ASSUME TypeOK, HasTarget, IInv, NEW i \in Installers, Check(i)
  PROVE  IInv'
<1>1. CASE Refused(dest[target[i]])
  <2>1. /\ pc[i] = "check" /\ Finish(i, "failed") /\ NextTarget(i, "failed")
        /\ disturbed' = [disturbed EXCEPT ![i] = FALSE]
        /\ UNCHANGED <<diskVars, owned, excused>>
    BY <1>1 DEF Check
  <2>2. Apart(i)
    BY <2>1, FinishFacts, NextTargetTypes DEF Apart, SameJob, diskVars, TypeOK
  <2>3. JobOK(i)' /\ Truth(i)' /\ backup'[i] = Missing
    BY <2>1, FinishFacts, RestKeeps, NextTargetTypes
  <2>4. QED
    BY <2>1, <2>2, <2>3, QuietStep DEF diskVars, NotMovedPCs
<1>2. CASE ~Refused(dest[target[i]])
  <2>1. /\ pc[i] = "check" /\ Go(i, "stage")
        /\ before' = [before EXCEPT ![i] = dest[target[i]]]
        /\ disturbed' = [disturbed EXCEPT ![i] = FALSE]
        /\ UNCHANGED <<diskVars, target, listing, staged, backup, raised, seen, owned,
                       excused>>
    BY <1>2 DEF Check
  <2>2. pc'[i] = "stage" /\ before'[i] = dest[target[i]]
    BY <2>1, GoFacts DEF TypeOK
  <2>3. Apart(i)
    BY <2>1, GoFacts DEF Apart, SameJob, diskVars, TypeOK
  <2>4. JobOK(i)'
    BY <2>1, <2>2, JobFacts DEF JobOK, NotMovedPCs, OverlaidPCs
  <2>5. Truth(i)'
    BY <2>1, <2>2 DEF Truth, Knows, OverlaidPCs, diskVars
  <2>6. QED
    BY <2>1, <2>3, <2>4, <2>5, QuietStep DEF diskVars, NotMovedPCs
<1>3. QED
  BY <1>1, <1>2

LEMMA StageKeeps ==
  ASSUME TypeOK, HasTarget, IInv, NEW i \in Installers, Stage(i)
  PROVE  IInv'
<1>1. /\ pc[i] = "stage"
      /\ UNCHANGED <<diskVars, target, staged, backup, raised, ghostVars>>
      /\ \/ Exists(dest[target[i]])
            /\ listing' = [listing EXCEPT ![i] = Present(dest[target[i]])] /\ Go(i, "copy")
         \/ ~Exists(dest[target[i]]) /\ listing' = listing /\ Go(i, "overlay")
  BY DEF Stage
<1>2. /\ pc'[i] = "copy" => listing'[i] = Present(dest[target[i]])
      /\ pc'[i] = "overlay" => dest[target[i]] = Missing
      /\ pc'[i] \in {"copy", "overlay"}
  BY <1>1, GoFacts DEF TypeOK, Exists
<1>3. Apart(i)
  BY <1>1, GoFacts DEF Apart, SameJob, diskVars, ghostVars, TypeOK
<1>4. JobOK(i)'
  BY <1>1, <1>2, JobFacts DEF JobOK, NotMovedPCs, OverlaidPCs, ghostVars
<1>5. Missing = Without(dest[target[i]], Present(dest[target[i]]))
  BY DEF Missing, Without, Present
<1>6. Truth(i)'
  BY <1>1, <1>2, <1>5, JobFacts DEF Truth, Knows, JobOK, OverlaidPCs, diskVars, ghostVars
<1>7. QED
  BY <1>1, <1>3, <1>4, <1>6, QuietStep DEF diskVars, NotMovedPCs

\* An exception before anything was moved out.
LEMMA RaiseKeeps ==
  ASSUME TypeOK, HasTarget, IInv, NEW i \in Installers, NEW e \in Exceptions,
         pc[i] \in {"stage", "copy", "overlay", "look", "out"}, Raise(i, e, "clean"),
         UNCHANGED <<diskVars, target, listing, staged, backup, ghostVars>>
  PROVE  IInv'
<1>1. /\ pc'[i] = "clean" /\ raised'[i] = e
      /\ \A j \in Installers \ {i} : pc'[j] = pc[j] /\ raised'[j] = raised[j]
  BY GoFacts
<1>2. Apart(i)
  BY <1>1 DEF Apart, SameJob, diskVars, ghostVars
<1>3. JobOK(i)'
  BY <1>1, JobFacts DEF JobOK, NotMovedPCs, OverlaidPCs
<1>4. Truth(i)'
  <2> SUFFICES ASSUME ~disturbed'[i] PROVE Knows(i)'
    BY DEF Truth
  <2>1. dest[target[i]] = before[i]
    BY JobFacts DEF Truth, Knows, ghostVars
  <2>2. Told(i)'
    BY <1>1, <2>1 DEF Told, Exceptions, diskVars, ghostVars
  <2>3. QED
    BY <1>1, <2>2 DEF Knows, OverlaidPCs
<1>5. pc[i] \in NotMovedPCs
  BY DEF NotMovedPCs
<1>6. QED
  BY <1>2, <1>3, <1>4, <1>5, QuietStep DEF diskVars

LEMMA CopyFileKeeps ==
  ASSUME TypeOK, HasTarget, IInv, NEW i \in Installers, NEW f \in Files, CopyFile(i, f)
  PROVE  IInv'
<1>1. /\ pc[i] = "copy" /\ f \in listing[i]
      /\ UNCHANGED <<diskVars, target, backup, before, disturbed, owned, excused>>
  BY DEF CopyFile
<1>2. CASE dest[target[i]][f] = "absent"
  <2>1. Raise(i, "error", "clean") /\ UNCHANGED <<listing, staged, seen>>
    BY <1>2 DEF CopyFile
  <2>2. QED
    BY <1>1, <2>1, RaiseKeeps DEF Exceptions, ghostVars
<1>3. CASE dest[target[i]][f] # "absent"
  <2> DEFINE content == dest[target[i]][f]
  <2>1. /\ staged' = [staged EXCEPT ![i] = [staged[i] EXCEPT ![f] = content]]
        /\ listing' = [listing EXCEPT ![i] = listing[i] \ {f}]
        /\ seen' = [seen EXCEPT ![i] = seen[i] \cup ({f} \cap Extras)]
        /\ Go(i, IF listing'[i] = {} THEN "overlay" ELSE "copy")
        /\ raised' = raised
    BY <1>3 DEF CopyFile
  <2>2. /\ staged'[i] = [staged[i] EXCEPT ![f] = content]
        /\ listing'[i] = listing[i] \ {f}
        /\ seen'[i] = seen[i] \cup ({f} \cap Extras)
        /\ pc'[i] = IF listing'[i] = {} THEN "overlay" ELSE "copy"
    BY <2>1, GoFacts DEF TypeOK
  <2>3. Apart(i)
    BY <1>1, <2>1, GoFacts DEF Apart, SameJob, diskVars, TypeOK
  <2>4. /\ f \in Extras => content = "own"
        /\ \A g \in Files : staged'[i][g] = IF g = f THEN content ELSE staged[i][g]
        /\ DOMAIN staged[i] = Files /\ before[i] \in [Files -> Contents]
    BY <1>1, <1>3, <2>2, JobFacts DEF Whole, Trees
  <2>5. seen[i] \subseteq Extras /\ Extras \subseteq Files
    BY DEF TypeOK, Files
  <2>6. JobOK(i)'
    <3>1. /\ \A g \in seen[i] : staged[i][g] = "own"
          /\ \A g \in Extras : staged[i][g] \in {"absent", "own"}
          /\ backup[i] = Missing /\ raised[i] = "none"
      BY <1>1, JobFacts DEF JobOK, NotMovedPCs
    <3>2. /\ \A g \in seen'[i] : staged'[i][g] = "own"
          /\ \A g \in Extras : staged'[i][g] \in {"absent", "own"}
      BY <2>2, <2>4, <2>5, <3>1
    <3>3. pc'[i] \in {"overlay", "copy"} /\ backup'[i] = Missing /\ raised'[i] = "none"
      BY <1>1, <2>1, <2>2, <3>1
    <3>4. QED
      BY <3>2, <3>3 DEF JobOK, OverlaidPCs
  <2>7. Truth(i)'
    <3> SUFFICES ASSUME ~disturbed'[i] PROVE Knows(i)'
      BY DEF Truth
    <3>1. dest[target[i]] = before[i] /\ staged[i] = Without(before[i], listing[i])
      BY <1>1, JobFacts DEF Truth, Knows
    <3>2. staged'[i] = Without(before[i], listing[i] \ {f})
      BY <2>2, <3>1 DEF Without
    <3>3. listing[i] \ {f} = {} => staged'[i] = before[i]
      BY <2>4, <3>2 DEF Without
    <3>4. QED
      BY <1>1, <2>2, <3>1, <3>2, <3>3 DEF Knows, OverlaidPCs, diskVars
  <2>8. QED
    BY <1>1, <2>3, <2>6, <2>7, QuietStep DEF diskVars, NotMovedPCs
<1>4. QED
  BY <1>2, <1>3

LEMMA OverlayKeeps ==
  ASSUME TypeOK, HasTarget, IInv, NEW i \in Installers, Overlay(i)
  PROVE  IInv'
<1>1. /\ pc[i] = "overlay" /\ pc'[i] = "look"
      /\ staged'[i] = Overlaid(staged[i])
      /\ UNCHANGED <<diskVars, target, listing, backup, raised, ghostVars>>
  BY GoFacts DEF Overlay, TypeOK
<1>2. Apart(i)
  BY <1>1, GoFacts DEF Overlay, Apart, SameJob, diskVars, ghostVars, TypeOK
<1>3. /\ \A f \in Source : staged'[i][f] = "new"
      /\ \A f \in Extras : staged'[i][f] = staged[i][f]
  BY <1>1, FilesDistinct DEF Overlaid, Files
<1>4. seen[i] \subseteq Extras
  BY DEF TypeOK
<1>5. JobOK(i)'
  BY <1>1, <1>3, <1>4, JobFacts DEF JobOK, NotMovedPCs, OverlaidPCs, ghostVars
<1>6. Truth(i)'
  BY <1>1, JobFacts DEF Truth, Knows, OverlaidPCs, diskVars, ghostVars
<1>7. QED
  BY <1>1, <1>2, <1>5, <1>6, QuietStep DEF diskVars, NotMovedPCs

LEMMA LookKeeps ==
  ASSUME TypeOK, HasTarget, IInv, NEW i \in Installers, Look(i)
  PROVE  IInv'
<1>1. /\ pc[i] = "look"
      /\ pc'[i] = IF Exists(dest[target[i]]) THEN "out" ELSE "in"
      /\ UNCHANGED <<diskVars, target, listing, staged, backup, raised, ghostVars>>
  BY GoFacts DEF Look
<1>2. Apart(i)
  BY <1>1, GoFacts DEF Look, Apart, SameJob, diskVars, ghostVars
<1>3. Owned(Missing) = {}
  BY DEF Owned, Missing, Files
<1>4. JobOK(i)'
  BY <1>1, <1>3, JobFacts DEF JobOK, NotMovedPCs, OverlaidPCs, ghostVars
<1>5. Truth(i)'
  BY <1>1, JobFacts
  DEF Truth, Knows, JobOK, NotMovedPCs, OverlaidPCs, Exists, diskVars, ghostVars
<1>6. QED
  BY <1>1, <1>2, <1>4, <1>5, QuietStep DEF diskVars, NotMovedPCs

LEMMA CopyFailsKeeps ==
  ASSUME TypeOK, HasTarget, IInv, NEW i \in Installers, CopyFails(i)
  PROVE  IInv'
<1>1. PICK e \in Exceptions : Raise(i, e, "clean")
  BY DEF CopyFails
<1>2. QED
  BY <1>1, RaiseKeeps DEF CopyFails

-----------------------------------------------------------------------------
(* The three renames.                                                      *)

LEMMA MissingFacts ==
  /\ Whole(Missing) /\ Owned(Missing) = {}
  /\ \A f \in Files : Missing[f] = "absent"
BY DEF Whole, Uniform, Owned, Missing, Contents, Files

\* A destination changes, and everybody else who works on it is disturbed.
LEMMA MoveApart ==
  ASSUME TypeOK, HasTarget, NEW i \in Installers, pc[i] \notin {"idle", "done"},
         NEW tree, Put(i, target[i], tree), \A j \in Installers \ {i} : SameJob(j),
         \A t \in Targets : excused[t] \subseteq excused'[t] /\ left[t] \subseteq left'[t],
         owned' = owned
  PROVE  /\ Apart(i)
         /\ dest'[target[i]] = tree
         /\ \A t \in Targets \ {target[i]} : dest'[t] = dest[t]
         /\ disturbed'[i] = disturbed[i]
<1>1. target[i] \in Targets /\ dest \in [Targets -> Trees]
  BY DEF HasTarget, TypeOK
<1>2. /\ dest'[target[i]] = tree
      /\ \A t \in Targets \ {target[i]} : dest'[t] = dest[t]
  BY <1>1 DEF Put
<1>3. \A j \in Installers : disturbed[j] \in BOOLEAN
  BY DEF TypeOK
<1>4. \A j \in Installers :
         disturbed'[j] = (disturbed[j] \/ (j # i /\ target[j] = target[i]))
  BY DEF Put
<1>5. disturbed'[i] = disturbed[i]
  BY <1>3, <1>4
<1>6. ASSUME NEW j \in Installers \ {i}, pc[j] \notin {"idle", "done"}
      PROVE  \/ disturbed'[j]
             \/ disturbed'[j] = disturbed[j] /\ dest'[target[j]] = dest[target[j]]
  <2>1. target[j] \in Targets
    BY <1>6 DEF HasTarget
  <2>2. QED
    BY <1>2, <1>3, <1>4, <2>1
<1>7. QED
  BY <1>2, <1>5, <1>6 DEF Apart

\* os.replace(destination, backup), with or without Ctrl+C after it.
LEMMA MoveOutKeeps ==
  ASSUME TypeOK, HasTarget, IInv, NEW i \in Installers, pc[i] = "out", MoveOut(i),
         \/ Go(i, "in") /\ raised' = raised
         \/ Raise(i, "interrupt", "restore"),
         UNCHANGED <<left, target, listing, staged, before, seen, owned>>
  PROVE  IInv'
<1>1. /\ \/ pc'[i] = "in" /\ raised'[i] = raised[i]
         \/ pc'[i] = "restore" /\ raised'[i] = "interrupt"
      /\ \A j \in Installers \ {i} : pc'[j] = pc[j] /\ raised'[j] = raised[j]
  BY GoFacts
<1>2. /\ backup'[i] = dest[target[i]]
      /\ \A j \in Installers \ {i} : backup'[j] = backup[j]
      /\ \A t \in Targets : excused[t] \subseteq excused'[t]
      /\ Overlooked(i) \subseteq excused'[target[i]]
  BY JobFacts DEF MoveOut, TypeOK
<1>3. \A j \in Installers \ {i} : SameJob(j)
  BY <1>1, <1>2 DEF SameJob
<1>4. /\ Apart(i)
      /\ dest'[target[i]] = Missing
      /\ \A t \in Targets \ {target[i]} : dest'[t] = dest[t]
      /\ disturbed'[i] = disturbed[i]
  BY <1>2, <1>3, MoveApart DEF MoveOut
<1>5. OnDisk'
  <2>1. Whole(dest[target[i]])
    BY JobFacts
  <2>2. \A t \in Targets : Whole(dest'[t])
    BY <1>4, MissingFacts DEF IInv, OnDisk
  <2>3. \A j \in Installers : Whole(backup'[j])
    BY <1>2, <2>1 DEF IInv, OnDisk
  <2>4. QED
    BY <2>2, <2>3 DEF OnDisk, Whole, Uniform
<1>6. JobOK(i)'
  <2>1. Owned(backup'[i]) \subseteq seen[i] \cup excused'[target[i]]
    BY <1>2 DEF Overlooked
  <2>2. /\ raised[i] = "none"
        /\ \A f \in seen[i] : staged[i][f] = "own"
        /\ \A f \in Source : staged[i][f] = "new"
        /\ \A f \in Extras : staged[i][f] \in {"absent", "own"}
    BY JobFacts DEF JobOK, OverlaidPCs
  <2>3. QED
    BY <1>1, <2>1, <2>2 DEF JobOK, NotMovedPCs, OverlaidPCs, Exceptions, Owned
<1>7. Truth(i)'
  <2> SUFFICES ASSUME ~disturbed'[i] PROVE Knows(i)'
    BY DEF Truth
  <2>1. dest[target[i]] = before[i] /\ staged[i] = Overlaid(before[i])
    BY <1>4, JobFacts DEF Truth, Knows, OverlaidPCs
  <2>2. QED
    BY <1>1, <1>2, <1>4, <2>1 DEF Knows, OverlaidPCs
<1>8. ASSUME NEW t \in Targets, NEW f \in Extras, dest[t][f] = "own"
      PROVE  dest'[t][f] = "own" \/ Keeps(i, t, f)'
  BY <1>1, <1>2, <1>4, <1>8 DEF Keeps
<1>9. \A t, f : ~Keeps(i, t, f)
  BY DEF Keeps
<1>10. QED
  BY <1>4, <1>5, <1>6, <1>7, <1>8, <1>9, StepKeeps

\* os.replace(staged, destination), with or without Ctrl+C after it.
LEMMA MoveInKeeps ==
  ASSUME TypeOK, HasTarget, IInv, NEW i \in Installers, pc[i] = "in", MoveIn(i),
         \/ Go(i, "clean") /\ raised' = raised
         \/ Raise(i, "interrupt", Unwind(i)),
         UNCHANGED <<left, target, listing, backup, before, seen, owned, excused>>
  PROVE  IInv'
<1>0. raised[i] = "none"
  BY JobFacts DEF JobOK
<1>1. /\ \/ pc'[i] = "clean" /\ raised'[i] \in {"none", "interrupt"}
         \/ pc'[i] = "restore" /\ raised'[i] = "interrupt"
      /\ \A j \in Installers \ {i} : pc'[j] = pc[j] /\ raised'[j] = raised[j]
  BY <1>0, GoFacts DEF Unwind
<1>2. /\ staged'[i] = Missing
      /\ \A j \in Installers \ {i} : staged'[j] = staged[j]
  BY DEF MoveIn, TypeOK
<1>3. \A j \in Installers \ {i} : SameJob(j)
  BY <1>1, <1>2 DEF SameJob
<1>4. /\ Apart(i)
      /\ dest'[target[i]] = staged[i]
      /\ \A t \in Targets \ {target[i]} : dest'[t] = dest[t]
      /\ disturbed'[i] = disturbed[i]
  BY <1>3, MoveApart DEF MoveIn
<1>5. /\ \A f \in seen[i] : staged[i][f] = "own"
      /\ \A f \in Source : staged[i][f] = "new"
      /\ \A f \in Extras : staged[i][f] \in {"absent", "own"}
      /\ Owned(backup[i]) \subseteq seen[i] \cup excused[target[i]]
  BY JobFacts DEF JobOK, OverlaidPCs
<1>6. OnDisk'
  <2>1. Whole(staged[i])
    BY <1>5 DEF Whole, Uniform, Contents
  <2>2. QED
    BY <1>4, <2>1 DEF IInv, OnDisk, Whole, Uniform
<1>7. JobOK(i)'
  BY <1>1, <1>2, MissingFacts DEF JobOK, NotMovedPCs, OverlaidPCs, Exceptions, Files
<1>8. Truth(i)'
  <2> SUFFICES ASSUME ~disturbed'[i] PROVE Knows(i)'
    BY DEF Truth
  <2>1. /\ dest'[target[i]] = Overlaid(before[i])
        /\ backup[i] = before[i]
    BY <1>4, JobFacts DEF Truth, Knows, OverlaidPCs
  <2>2. QED
    BY <1>1, <2>1 DEF Knows, Told, OverlaidPCs
<1>9. ASSUME NEW t \in Targets, NEW f \in Extras, dest[t][f] = "own"
      PROVE  dest'[t][f] = "own"
  BY <1>4, <1>9, MissingFacts DEF MoveIn, Exists, Files
<1>10. ASSUME NEW t \in Targets, NEW f \in Extras \ excused'[t], Keeps(i, t, f)
       PROVE  dest'[t][f] = "own"
  <2>1. t = target[i] /\ f \in Owned(backup[i]) /\ f \notin excused[t]
    BY <1>10 DEF Keeps, Owned
  <2>2. QED
    BY <1>4, <1>5, <2>1
<1>11. QED
  BY <1>4, <1>6, <1>7, <1>8, <1>9, <1>10, StepKeeps

\* os.replace(backup, destination), with or without Ctrl+C after it.
LEMMA MoveBackKeeps ==
  ASSUME TypeOK, HasTarget, IInv, NEW i \in Installers, pc[i] = "restore", MoveBack(i),
         \/ Go(i, "clean") /\ raised' = raised
         \/ Raise(i, "interrupt", "clean"),
         UNCHANGED <<left, target, listing, staged, before, seen, owned, excused>>
  PROVE  IInv'
<1>0. raised[i] \in Exceptions
  BY JobFacts DEF JobOK
<1>1. /\ pc'[i] = "clean" /\ raised'[i] \in Exceptions
      /\ \A j \in Installers \ {i} : pc'[j] = pc[j] /\ raised'[j] = raised[j]
  BY <1>0, GoFacts DEF Exceptions
<1>2. /\ backup'[i] = Missing
      /\ \A j \in Installers \ {i} : backup'[j] = backup[j]
  BY DEF MoveBack, TypeOK
<1>3. \A j \in Installers \ {i} : SameJob(j)
  BY <1>1, <1>2 DEF SameJob
<1>4. /\ Apart(i)
      /\ dest'[target[i]] = backup[i]
      /\ \A t \in Targets \ {target[i]} : dest'[t] = dest[t]
      /\ disturbed'[i] = disturbed[i]
  BY <1>3, MoveApart DEF MoveBack
<1>5. OnDisk'
  BY <1>2, <1>4, MissingFacts, JobFacts DEF IInv, OnDisk, Whole, Uniform
<1>6. JobOK(i)'
  BY <1>1, JobFacts DEF JobOK, NotMovedPCs, OverlaidPCs
<1>7. Truth(i)'
  BY <1>1, <1>4, JobFacts DEF Truth, Knows, Told, OverlaidPCs, Exceptions
<1>8. ASSUME NEW t \in Targets, NEW f \in Extras, dest[t][f] = "own"
      PROVE  dest'[t][f] = "own"
  BY <1>4, <1>8, MissingFacts DEF MoveBack, Exists, Files
<1>9. ASSUME NEW t \in Targets, NEW f \in Extras, Keeps(i, t, f)
      PROVE  dest'[t][f] = "own"
  BY <1>4, <1>9 DEF Keeps
<1>10. QED
  BY <1>4, <1>5, <1>6, <1>7, <1>8, <1>9, StepKeeps

\* An exception between the renames, or one that ends the restoration, while
\* what was moved out stays in the backup.
LEMMA HandOnKeeps ==
  ASSUME TypeOK, HasTarget, IInv, NEW i \in Installers, NEW e, NEW l, Raise(i, e, l),
         UNCHANGED <<diskVars, target, listing, staged, backup, before, seen, disturbed,
                     owned>>,
         \A t \in Targets : excused[t] \subseteq excused'[t],
         \/ /\ pc[i] = "in" /\ e \in Exceptions
            /\ l = IF Exists(backup[i]) THEN "restore" ELSE "clean"
         \/ /\ pc[i] = "restore" /\ l = "clean"
            /\ \/ e = "retained"
               \/ e = "interrupt" /\ Owned(backup[i]) \subseteq excused'[target[i]]
  PROVE  IInv'
<1>1. /\ pc'[i] = l /\ raised'[i] = e
      /\ \A j \in Installers \ {i} : pc'[j] = pc[j] /\ raised'[j] = raised[j]
  BY GoFacts
<1>2. Apart(i)
  BY <1>1 DEF Apart, SameJob, diskVars
<1>3. l \in {"restore", "clean"}
  OBVIOUS
<1>4. JobOK(i)'
  BY <1>1, <1>3, JobFacts DEF JobOK, NotMovedPCs, OverlaidPCs
<1>5. Truth(i)'
  <2> SUFFICES ASSUME ~disturbed'[i] PROVE Knows(i)'
    BY DEF Truth
  <2>1. /\ backup[i] = before[i]
        /\ dest[target[i]] \in {Missing, Overlaid(before[i])}
        /\ pc[i] = "in" => dest[target[i]] = Missing
    BY JobFacts DEF Truth, Knows
  <2>2. CASE l = "restore"
    BY <1>1, <2>1, <2>2 DEF Knows, OverlaidPCs, diskVars
  <2>3. CASE l = "clean"
    <3>1. e = "error" => dest[target[i]] = before[i]
      BY <2>1, <2>3 DEF Exists
    <3>2. e # "none"
      BY DEF Exceptions
    <3>3. Told(i)'
      BY <1>1, <2>1, <3>1, <3>2 DEF Told, diskVars
    <3>4. QED
      BY <1>1, <2>3, <3>3 DEF Knows, OverlaidPCs
  <2>4. QED
    BY <1>3, <2>2, <2>3
<1>6. OnDisk'
  BY DEF OnDisk, Whole, Uniform, IInv, diskVars
<1>7. ASSUME NEW t \in Targets, NEW f \in Extras \ excused'[t], Keeps(i, t, f)
      PROVE  Keeps(i, t, f)'
  <2>1. t = target[i] /\ f \in Owned(backup[i]) /\ backup[i][f] = "own"
    BY <1>7 DEF Keeps, Owned
  <2>2. Exists(backup[i])
    BY <2>1, MissingFacts DEF Exists, Files
  <2>3. l = "restore" \/ (l = "clean" /\ e = "retained")
    BY <2>1, <2>2
  <2>4. QED
    BY <1>1, <2>1, <2>3 DEF Keeps
<1>8. QED
  BY <1>2, <1>4, <1>5, <1>6, <1>7, StepKeeps DEF diskVars

LEMMA SwapOutKeeps ==
  ASSUME TypeOK, HasTarget, IInv, NEW i \in Installers, SwapOut(i) \/ SwapOutFails(i)
  PROVE  IInv'
<1>1. /\ pc[i] = "out"
      /\ UNCHANGED <<left, target, listing, staged, before, seen, owned>>
  BY DEF SwapOut, SwapOutFails
<1>2. \/ \E e \in Exceptions : /\ Raise(i, e, "clean")
                               /\ UNCHANGED <<dest, backup, disturbed, excused>>
      \/ /\ MoveOut(i)
         /\ \/ Go(i, "in") /\ raised' = raised
            \/ Raise(i, "interrupt", Unwind(i))
  BY DEF SwapOut, SwapOutFails, Exceptions
<1>3. MoveOut(i) => Unwind(i) = "restore"
  BY <1>1 DEF MoveOut, Unwind, TypeOK
<1>4. QED
  BY <1>1, <1>2, <1>3, RaiseKeeps, MoveOutKeeps DEF diskVars, ghostVars

LEMMA SwapInKeeps ==
  ASSUME TypeOK, HasTarget, IInv, NEW i \in Installers, SwapIn(i) \/ SwapInFails(i)
  PROVE  IInv'
<1>1. /\ pc[i] = "in"
      /\ UNCHANGED <<left, target, listing, backup, before, seen, owned, excused>>
  BY DEF SwapIn, SwapInFails
<1>2. \/ \E e \in Exceptions : /\ Raise(i, e, Unwind(i))
                               /\ UNCHANGED <<dest, staged, disturbed>>
      \/ /\ MoveIn(i)
         /\ \/ Go(i, "clean") /\ raised' = raised
            \/ Raise(i, "interrupt", Unwind(i))
  BY DEF SwapIn, SwapInFails, Exceptions
<1>3. Unwind(i) = IF Exists(backup[i]) THEN "restore" ELSE "clean"
  BY <1>1 DEF Unwind
<1>4. CASE \E e \in Exceptions : /\ Raise(i, e, Unwind(i))
                                 /\ UNCHANGED <<dest, staged, disturbed>>
  BY <1>1, <1>3, <1>4, HandOnKeeps DEF diskVars
<1>5. QED
  BY <1>1, <1>2, <1>4, MoveInKeeps

LEMMA RestoreKeeps ==
  ASSUME TypeOK, HasTarget, IInv, NEW i \in Installers, Restore(i) \/ RestoreFails(i)
  PROVE  IInv'
<1>1. /\ pc[i] = "restore"
      /\ UNCHANGED <<left, target, listing, staged, before, seen, owned>>
  BY DEF Restore, RestoreFails
<1>2. CASE /\ MoveBack(i) /\ excused' = excused
           /\ \/ Go(i, "clean") /\ raised' = raised
              \/ Raise(i, "interrupt", "clean")
  BY <1>1, <1>2, MoveBackKeeps
<1>3. CASE /\ Raise(i, "retained", "clean")
           /\ UNCHANGED <<dest, backup, disturbed, excused>>
  BY <1>1, <1>3, HandOnKeeps DEF diskVars
<1>4. CASE /\ Raise(i, "interrupt", "clean")
           /\ excused' = [excused EXCEPT ![target[i]] = @ \cup Owned(backup[i])]
           /\ UNCHANGED <<dest, backup, disturbed>>
  <2>1. /\ \A t \in Targets : excused[t] \subseteq excused'[t]
        /\ Owned(backup[i]) \subseteq excused'[target[i]]
    BY <1>1, <1>4, JobFacts DEF TypeOK
  <2>2. QED
    BY <1>1, <1>4, <2>1, HandOnKeeps DEF diskVars
<1>5. QED
  BY <1>2, <1>3, <1>4 DEF Restore, RestoreFails

-----------------------------------------------------------------------------
(* The end of an installation, and the user.                               *)

\* install_skill is over: what its backup would keep is on the disk for good.
LEMMA EndKeeps ==
  ASSUME TypeOK, HasTarget, IInv, NEW i \in Installers, NEW o, NEW rest,
         pc[i] \notin {"idle", "done"}, Finish(i, o), pc'[i] \in {"idle", "done"},
         \A j \in Installers \ {i} : pc'[j] = pc[j],
         left' = [left EXCEPT ![target[i]] = @ \cup rest],
         UNCHANGED <<dest, disturbed, owned, excused>>,
         \A t \in Targets, f \in Extras : Keeps(i, t, f) => backup[i] \in rest
  PROVE  IInv'
<1>1. /\ target[i] \in Targets
      /\ rest \subseteq left'[target[i]]
      /\ \A t \in Targets : left[t] \subseteq left'[t]
  BY JobFacts DEF TypeOK
<1>2. Apart(i)
  BY <1>1, FinishFacts DEF Apart, SameJob
<1>3. JobOK(i)' /\ Truth(i)'
  BY RestKeeps
<1>4. OnDisk'
  BY FinishFacts, MissingFacts DEF OnDisk, IInv, Whole, Uniform
<1>5. ASSUME NEW t \in Targets, NEW f \in Extras, Keeps(i, t, f)
      PROVE  \E tree \in left'[t] : tree[f] = "own"
  BY <1>1, <1>5 DEF Keeps
<1>6. QED
  BY <1>2, <1>3, <1>4, <1>5, StepKeeps

LEMMA CleanKeeps ==
  ASSUME TypeOK, HasTarget, IInv, NEW i \in Installers, Clean(i)
  PROVE  IInv'
<1>1. /\ pc'[i] \in {"idle", "done"}
      /\ \A j \in Installers \ {i} : pc'[j] = pc[j]
  BY NextTargetTypes DEF Clean
<1>2. \A t, f : Keeps(i, t, f) => backup[i] \in LeftBehind(i)
  BY DEF Clean, Keeps, LeftBehind
<1>3. QED
  BY <1>1, <1>2, EndKeeps DEF Clean

LEMMA KillKeeps ==
  ASSUME TypeOK, HasTarget, IInv, NEW i \in Installers, Kill(i)
  PROVE  IInv'
<1>1. /\ pc'[i] \in {"idle", "done"}
      /\ \A j \in Installers \ {i} : pc'[j] = pc[j]
  BY GoFacts DEF Kill
<1>2. ASSUME NEW t \in Targets, NEW f \in Extras, Keeps(i, t, f)
      PROVE  backup[i] \in {b \in {backup[i]} : Exists(b)}
  <2>1. backup[i][f] = "own"
    BY <1>2 DEF Keeps
  <2>2. backup[i] # Missing
    BY <2>1, MissingFacts DEF Files
  <2>3. QED
    BY <2>2 DEF Exists
<1>3. QED
  BY <1>1, <1>2, EndKeeps DEF Kill

LEMMA UserAddsKeeps ==
  ASSUME TypeOK, HasTarget, IInv, NEW t \in Targets, NEW f \in Extras, UserAdds(t, f)
  PROVE  IInv'
<1>1. /\ dest'[t] = [dest[t] EXCEPT ![f] = "own"]
      /\ \A u \in Targets \ {t} : dest'[u] = dest[u]
      /\ UNCHANGED <<left, jobVars, before, seen, excused>>
      /\ owned' = [owned EXCEPT ![t] = @ \cup {f}]
  BY DEF UserAdds, Put, TypeOK
<1>2. /\ f \notin Source
      /\ dest'[t][f] = "own"
      /\ \A g \in Files \ {f} : dest'[t][g] = dest[t][g]
  BY <1>1, FilesDistinct DEF TypeOK, Trees, Files
<1>3. \A j \in Installers :
         disturbed'[j] \/ (target[j] # t /\ disturbed'[j] = disturbed[j])
  <2>1. \A j \in Installers : disturbed[j] \in BOOLEAN /\ j # Nowhere
    BY NowhereIsNothing DEF TypeOK
  <2>2. \A j \in Installers :
           disturbed'[j] = (disturbed[j] \/ (j # Nowhere /\ target[j] = t))
    BY DEF UserAdds, Put
  <2>3. QED
    BY <2>1, <2>2
<1>4. OnDisk'
  <2>1. Whole(dest[t]) /\ Source \subseteq Files \ {f} /\ Extras \subseteq Files
    BY <1>2 DEF IInv, OnDisk, Files
  <2>2. Whole(dest'[t])
    BY <1>2, <2>1 DEF Whole, Uniform
  <2>3. \A u \in Targets : Whole(dest'[u])
    BY <1>1, <2>2 DEF IInv, OnDisk
  <2>4. QED
    BY <1>1, <2>3 DEF IInv, OnDisk, Whole, Uniform, jobVars
<1>5. ASSUME NEW j \in Installers PROVE JobOK(j)' /\ Truth(j)'
  <2>1. JobOK(j)'
    BY <1>1 DEF IInv, JobOK, jobVars
  <2>2. CASE pc[j] \in {"idle", "done"}
    BY <1>1, <2>1, <2>2 DEF Truth, Knows, OverlaidPCs, jobVars
  <2>3. CASE pc[j] \notin {"idle", "done"}
    <3>1. target[j] \in Targets
      BY <2>3 DEF HasTarget
    <3>2. disturbed'[j] \/ (disturbed'[j] = disturbed[j]
                            /\ dest'[target[j]] = dest[target[j]])
      BY <1>1, <1>3, <3>1
    <3>3. QED
      BY <1>1, <2>1, <3>2 DEF IInv, Truth, Knows, Told, jobVars
  <2>4. QED
    BY <2>1, <2>2, <2>3
<1>6. ASSUME NEW u \in Targets, NEW g \in owned'[u] \ excused'[u]
      PROVE  \/ dest'[u][g] = "own"
             \/ \E j \in Installers : Keeps(j, u, g)'
             \/ \E tree \in left'[u] : tree[g] = "own"
  <2>1. CASE u = t /\ g = f
    BY <1>2, <2>1
  <2>2. CASE ~(u = t /\ g = f)
    <3>1. g \in owned[u] \ excused[u] /\ g \in Files
      BY <1>1, <1>6, <2>2 DEF TypeOK, Files
    <3>2. dest[u][g] = "own" => dest'[u][g] = "own"
      BY <1>1, <1>2, <3>1
    <3>3. \A j \in Installers : Keeps(j, u, g) => Keeps(j, u, g)'
      BY <1>1 DEF Keeps, jobVars
    <3>4. QED
      BY <1>1, <3>1, <3>2, <3>3 DEF IInv, Kept
  <2>3. QED
    BY <2>1, <2>2
<1>7. QED
  BY <1>4, <1>5, <1>6 DEF IInv, Kept

-----------------------------------------------------------------------------
(* The theorems.                                                           *)

LEMMA InvariantHolds == Spec => []IInv
<1>1. Init => IInv
  <2> SUFFICES ASSUME Init PROVE IInv
    OBVIOUS
  <2>1. \A tree \in Beginnings : Whole(tree)
    BY MissingFacts, FilesDistinct
    DEF Beginnings, Foreign, Installed, Whole, Uniform, Contents, Files
  <2>2. OnDisk
    BY <2>1, MissingFacts DEF Init, OnDisk
  <2>3. \A i \in Installers : JobOK(i) /\ Truth(i)
    BY MissingFacts
    DEF Init, JobOK, Truth, Knows, NotMovedPCs, OverlaidPCs, Files
  <2>4. Kept
    BY DEF Init, Kept, Owned
  <2>5. QED
    BY <2>2, <2>3, <2>4 DEF IInv
<1>2. TypeOK /\ HasTarget /\ IInv /\ [Next]_vars => IInv'
  <2> SUFFICES ASSUME TypeOK, HasTarget, IInv, [Next]_vars
               PROVE  IInv'
    OBVIOUS
  <2>1. CASE UNCHANGED vars
    BY <2>1 DEF vars, diskVars, jobVars, ghostVars, IInv, OnDisk, JobOK, Truth, Knows,
       Told, Kept, Keeps
  <2>2. ASSUME NEW i \in Installers, Step(i) PROVE IInv'
    BY <2>2, SelectKeeps, PickKeeps, CheckKeeps, StageKeeps, CopyFileKeeps, OverlayKeeps,
       LookKeeps, SwapOutKeeps, SwapInKeeps, RestoreKeeps, CleanKeeps DEF Step
  <2>3. ASSUME NEW i \in Installers, Trouble(i) PROVE IInv'
    BY <2>3, CopyFailsKeeps, SwapOutKeeps, SwapInKeeps, RestoreKeeps, KillKeeps
    DEF Trouble
  <2>4. QED
    BY <2>1, <2>2, <2>3, UserAddsKeeps DEF Next
<1>3. QED
  BY <1>1, <1>2, TypesHold, PTL DEF Spec

\* A destination never holds a mixture of two versions or a part of one: it
\* only changes by a rename of a tree that was completed elsewhere, or by a
\* file of the user's own.
THEOREM NeverMixedHolds == Spec => []NeverMixed
<1>1. IInv => NeverMixed
  BY DEF IInv, OnDisk, Whole, NeverMixed
<1>2. QED
  BY <1>1, InvariantHolds, PTL

\* No file of the user is lost outside the two known windows: it goes from the
\* destination to the backup, and from there back, into the staged copy that
\* replaces it, or into a backup that stays on the disk.
THEOREM LocalFilesKeptHolds == Spec => []LocalFilesKept
<1>1. IInv => LocalFilesKept
  BY DEF IInv, Kept, Keeps, LocalFilesKept
<1>2. QED
  BY <1>1, InvariantHolds, PTL

\* What install_skill reports of a destination nobody else worked on is so.
THEOREM OutcomeIsTrueHolds == Spec => []OutcomeIsTrue
<1>1. TypeOK /\ IInv => OutcomeIsTrue
  <2> SUFFICES ASSUME TypeOK, IInv, NEW i \in Installers, pc[i] = "clean", ~disturbed[i]
               PROVE  LET now == dest[target[i]] IN
        CASE raised[i] = "none"      -> now = Overlaid(before[i])
          [] raised[i] = "error"     -> now = before[i]
          [] raised[i] = "retained"  -> /\ backup[i] = before[i]
                                        /\ now \in {Missing, Overlaid(before[i])}
          [] raised[i] = "interrupt" -> \/ now \in {before[i], Overlaid(before[i])}
                                        \/ backup[i] = before[i]
    BY DEF OutcomeIsTrue
  <2>1. Told(i)
    BY DEF IInv, Truth, Knows
  <2>2. raised[i] \in {"none", "retained", "error", "interrupt"}
    BY DEF TypeOK, Exceptions
  <2>3. QED
    BY <2>1, <2>2 DEF Told
<1>2. QED
  BY <1>1, InvariantHolds, TypesHold, PTL

=============================================================================
