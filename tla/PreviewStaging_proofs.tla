------------------------ MODULE PreviewStaging_proofs ------------------------
(***************************************************************************)
(* Proofs about install previews: the staging is always cleaned up, and,   *)
(* when the previews of an ADOM run in one container, the lock keeps them  *)
(* apart and every diff is complete.                                       *)
(***************************************************************************)
EXTENDS PreviewStaging, TLAPS

(* What _adom_preview_lock needs: the lock files are shared by the threads *)
(* and processes of one container only.                                    *)
OneContainer == \A p, q \in Preview : AdomOf[p] = AdomOf[q] => HomeOf[p] = HomeOf[q]

-----------------------------------------------------------------------------
(* The inductive invariant                                                 *)

(* A preview holds its lock during its cycle, and only then.               *)
LocksHeld ==
    /\ \A p \in Preview : pc[p] \in Cycle => lock[LockOf(p)] = p
    /\ \A k \in Container \X Adom : lock[k] # Free => k = LockOf(lock[k]) /\ pc[lock[k]] \in Cycle

(* What is staged is being worked on, or was left behind.                  *)
StagedOrLeft ==
    \A a \in Adom : a \notin left /\ context[a] # NoContext =>
        \E p \in Preview : AdomOf[p] = a /\ pc[p] \in Cycle

StagingIInv == PreviewTypeOK /\ LocksHeld /\ StagedOrLeft

(* During its cycle a preview finds its own context.                       *)
ContextsAreOwn ==
    \A p \in Preview :
        /\ pc[p] \in {"staging", "generate"} => MyContext(p, FALSE)
        /\ pc[p] \in {"generating", "fetch"} => MyContext(p, TRUE)

(* The diffs fetched are those of the packages dealt with.                 *)
Dealt(p, rest) ==
    /\ diff[p] = {v \in pkg_vdoms[p] \cap Pending : PackageOf[v] \notin refused[p] \cup rest}
    /\ refused[p] \cap rest = {}

Packages(p) == {PackageOf[v] : v \in pkg_vdoms[p]}

Progress(p) ==
    /\ todo[p] \subseteq Packages(p)
    /\ pc[p] \in {"idle", "assigning", "waiting"} => diff[p] = {} /\ refused[p] = {} /\ ~raising[p]
    /\ pc[p] = "waiting" => todo[p] = Packages(p)
    /\ pc[p] = "stage" => Dealt(p, todo[p]) /\ ~raising[p]
    /\ pc[p] \in Cycle \ {"stage", "cancel"} =>
          /\ Dealt(p, todo[p] \cup {current[p]}) /\ ~raising[p]
          /\ current[p] \in Packages(p) \ todo[p]
    /\ pc[p] = "cancel" /\ ~raising[p] => Dealt(p, todo[p])
    /\ pc[p] \in {"parsing", "stepping", "result", "storing", "done"} => Dealt(p, {})

PreviewIInv == StagingIInv /\ ContextsAreOwn /\ \A p \in Preview : Progress(p)

-----------------------------------------------------------------------------
(* Staging                                                                 *)

LEMMA Homes == \A p \in Preview : LockOf(p) \in Container \X Adom /\ AdomOf[p] \in Adom /\ VdomsOf[p] \in SUBSET Vdom
BY PreviewAssumption DEF LockOf

LEMMA StagingInit == PreviewInit => StagingIInv
BY PreviewAssumption DEF PreviewInit, StagingIInv, PreviewTypeOK, LocksHeld, StagedOrLeft, Stages, Cycle

(* The steps that touch neither the locks nor the staging.                 *)
Outside(p) ==
    \/ pending_changes_preview(p) \/ get_package_info(p) \/ _run(p) \/ Age(p) \/ pending_changes_task_status

LEMMA OutsideStep ==
    ASSUME PreviewTypeOK, NEW p \in Preview, Outside(p)
    PROVE  /\ UNCHANGED <<lock, context, current, raising, diff, refused, left>>
           /\ pc' = pc \/ \E s \in Stages \ Cycle : pc[p] \notin Cycle /\ pc' = [pc EXCEPT ![p] = s]
BY DEF Outside, pending_changes_preview, get_package_info, _run, _read_task, _write_task, Age,
       pending_changes_task_status, PreviewTo, Stages, Cycle, Storing, Ended

LEMMA OutsideType ==
    ASSUME PreviewTypeOK, NEW p \in Preview, Outside(p)
    PROVE  PreviewTypeOK'
<1>1. pc' \in [Preview -> Stages]
  BY OutsideStep DEF PreviewTypeOK
<1>2. todo' \in [Preview -> SUBSET Package]
  <2>1. \/ todo' = todo
        \/ \E learnt \in SUBSET VdomsOf[p] : todo' = [todo EXCEPT ![p] = {PackageOf[v] : v \in learnt}]
    BY DEF Outside, pending_changes_preview, get_package_info, _run, _read_task, _write_task, Age,
           pending_changes_task_status
  <2>2. \A learnt \in SUBSET VdomsOf[p] : {PackageOf[v] : v \in learnt} \in SUBSET Package
    BY Homes, PreviewAssumption
  <2>3. QED
    BY <2>1, <2>2 DEF PreviewTypeOK
<1>a. pkg_vdoms' \in [Preview -> SUBSET Vdom]
  BY Homes DEF PreviewTypeOK, Outside, pending_changes_preview, get_package_info, _run, _read_task,
         _write_task, Age, pending_changes_task_status
<1>3. task' \in [Preview -> {"none", "running", "done", "error"}]
  BY DEF PreviewTypeOK, Outside, pending_changes_preview, get_package_info, _run, _read_task,
         _write_task, Age, pending_changes_task_status, _evict_old_tasks
<1>4. old' \subseteq Preview
  BY DEF PreviewTypeOK, Outside, pending_changes_preview, get_package_info, _run, _read_task,
         _write_task, Age, pending_changes_task_status
<1>5. \A q \in Preview : pc'[q] \in Cycle \ {"stage"} => current'[q] \in Package
  BY OutsideStep DEF PreviewTypeOK
<1>6. QED
  BY <1>1, <1>2, <1>a, <1>3, <1>4, <1>5, OutsideStep DEF PreviewTypeOK

LEMMA OutsideKeepsStaging ==
    ASSUME StagingIInv, NEW p \in Preview, Outside(p)
    PROVE  StagingIInv'
<1>1. PreviewTypeOK /\ PreviewTypeOK'
  BY OutsideType DEF StagingIInv
<1>2. UNCHANGED <<lock, context, left>> /\ \A q \in Preview : pc'[q] \in Cycle <=> pc[q] \in Cycle
  BY <1>1, OutsideStep DEF PreviewTypeOK
<1>3. LocksHeld'
  BY <1>1, <1>2 DEF StagingIInv, LocksHeld, LockOf, PreviewTypeOK
<1>4. StagedOrLeft'
  BY <1>2 DEF StagingIInv, StagedOrLeft
<1>5. QED
  BY <1>1, <1>3, <1>4 DEF StagingIInv

LEMMA LockKeepsStaging ==
    ASSUME StagingIInv, NEW p \in Preview, _adom_preview_lock(p)
    PROVE  StagingIInv'
<1>0. PreviewTypeOK /\ LocksHeld /\ StagedOrLeft
  BY DEF StagingIInv
<1>1. /\ UNCHANGED <<context, pkg_vdoms, todo, current, raising, diff, task, old, refused, left>>
      /\ \/ lock[LockOf(p)] = Free /\ lock' = [lock EXCEPT ![LockOf(p)] = p] /\ pc' = [pc EXCEPT ![p] = "stage"]
         \/ lock' = lock /\ pc' = [pc EXCEPT ![p] = "failure"]
      /\ pc[p] = "waiting"
  BY DEF _adom_preview_lock, PreviewTo
<1>2. PreviewTypeOK'
  BY <1>0, <1>1, Homes DEF PreviewTypeOK, Stages, Cycle, Storing
<1>3. LocksHeld'
  <2>1. \A q \in Preview : LockOf(q)' = LockOf(q)
    BY DEF LockOf
  <2>2. pc'[p] \in Cycle => lock[LockOf(p)] = Free /\ lock' = [lock EXCEPT ![LockOf(p)] = p]
    BY <1>0, <1>1 DEF PreviewTypeOK, Cycle
  <2>3. pc'[p] \notin Cycle => lock' = lock
    BY <1>0, <1>1 DEF PreviewTypeOK, Cycle
  <2>4. \A q \in Preview \ {p} : pc'[q] = pc[q]
    BY <1>0, <1>1 DEF PreviewTypeOK
  <2>5. pc[p] \notin Cycle
    BY <1>1 DEF Cycle
  <2>6. ASSUME NEW q \in Preview, pc'[q] \in Cycle
        PROVE  lock'[LockOf(q)] = q
    <3>1. q # p => lock[LockOf(q)] = q
      BY <1>0, <2>4, <2>6 DEF LocksHeld
    <3>2. q # p => lock[LockOf(q)] # Free
      BY <3>1, PreviewAssumption
    <3>3. lock \in [Container \X Adom -> Preview \cup {Free}] /\ LockOf(p) \in Container \X Adom
      BY <1>0, Homes DEF PreviewTypeOK
    <3>4. CASE q = p
      BY <2>2, <2>6, <3>3, <3>4
    <3>5. CASE q # p
      <4>1. LockOf(q) \in Container \X Adom /\ lock[LockOf(q)] = q /\ q # Free
        BY <3>1, <3>2, <3>5, Homes
      <4>2. CASE pc'[p] \in Cycle
        <5>1. LockOf(q) # LockOf(p)
          BY <2>2, <4>1, <4>2
        <5>2. QED
          BY <2>2, <3>3, <4>1, <4>2, <5>1
      <4>3. CASE pc'[p] \notin Cycle
        BY <2>3, <4>1, <4>3
      <4>4. QED
        BY <4>2, <4>3
    <3>6. QED
      BY <3>4, <3>5
  <2>7. ASSUME NEW k \in Container \X Adom, lock'[k] # Free
        PROVE  k = LockOf(lock'[k]) /\ pc'[lock'[k]] \in Cycle
    <3>1. lock \in [Container \X Adom -> Preview \cup {Free}] /\ LockOf(p) \in Container \X Adom
      BY <1>0, Homes DEF PreviewTypeOK
    <3>2. CASE lock'[k] = lock[k]
      <4>1. k = LockOf(lock[k]) /\ pc[lock[k]] \in Cycle /\ lock[k] \in Preview
        BY <1>0, <2>7, <3>1, <3>2 DEF LocksHeld
      <4>2. QED
        BY <2>4, <2>5, <3>2, <4>1
    <3>3. CASE lock'[k] # lock[k]
      <4>1. pc'[p] \in Cycle /\ k = LockOf(p) /\ lock'[k] = p
        BY <2>2, <2>3, <3>1, <3>3
      <4>2. QED
        BY <4>1
    <3>4. QED
      BY <3>2, <3>3
  <2>8. QED
    BY <2>1, <2>6, <2>7 DEF LocksHeld, LockOf
<1>4. StagedOrLeft'
  BY <1>0, <1>1 DEF StagedOrLeft, PreviewTypeOK, Cycle
<1>5. QED
  BY <1>2, <1>3, <1>4 DEF StagingIInv

(* The steps of a cycle before its cancel.                                 *)
Inside(p) == StagePackage(p) \/ PollStage(p) \/ GenerateDiff(p) \/ PollPreview(p) \/ _fetch_result(p)

LEMMA InsideStep ==
    ASSUME PreviewTypeOK, NEW p \in Preview, Inside(p)
    PROVE  /\ UNCHANGED <<lock, pkg_vdoms, task, old>>
           /\ pc[p] \in Cycle
           /\ \E s \in Cycle \ {"stage"} : pc' = [pc EXCEPT ![p] = s]
           /\ context' = context \/ \E c \in Context : context' = [context EXCEPT ![AdomOf[p]] = c]
           /\ left' = left \/ left' = left \ {AdomOf[p]}
<1> USE DEF Skip, PreviewTo, Cycle
<1>0. \A k \in Package, g \in BOOLEAN : Staged(p, k, g) \in Context
  BY DEF Staged, Context
<1>1. CASE StagePackage(p)
  BY <1>0, <1>1 DEF StagePackage, PreviewTypeOK
<1>2. CASE PollStage(p) \/ PollPreview(p) \/ _fetch_result(p)
  BY <1>2 DEF PollStage, PollPreview, _fetch_result, _poll
<1>3. CASE GenerateDiff(p)
  <2>1. current[p] \in Package
    BY <1>3 DEF GenerateDiff, PreviewTypeOK
  <2>2. QED
    BY <1>0, <1>3, <2>1 DEF GenerateDiff
<1>4. QED
  BY <1>1, <1>2, <1>3 DEF Inside

LEMMA InsideType ==
    ASSUME PreviewTypeOK, NEW p \in Preview, Inside(p)
    PROVE  PreviewTypeOK'
<1>1. UNCHANGED <<lock, pkg_vdoms, task, old>> /\ pc' \in [Preview -> Stages] /\ left' \subseteq Adom
  BY InsideStep DEF PreviewTypeOK, Stages
<1>2. context' \in [Adom -> Context \cup {NoContext}]
  BY InsideStep, Homes DEF PreviewTypeOK
<1>3. /\ todo' = todo \/ \E k \in todo[p] : todo' = [todo EXCEPT ![p] = @ \ {k}]
      /\ \/ current' = current /\ pc[p] # "stage"
         \/ \E k \in todo[p] : current' = [current EXCEPT ![p] = k]
  BY DEF Inside, StagePackage, PollStage, GenerateDiff, PollPreview, _fetch_result, _poll, Skip
<1>a. \A k \in todo[p] : k \in Package
  BY DEF PreviewTypeOK
<1>b. pc[p] \in Cycle \ {"stage"} => current[p] \in Package
  BY DEF PreviewTypeOK
<1>4. /\ todo' \in [Preview -> SUBSET Package]
      /\ current' \in [Preview -> Package \cup {NoPackage}]
      /\ current'[p] \in Package
  <2>1. todo \in [Preview -> SUBSET Package] /\ current \in [Preview -> Package \cup {NoPackage}]
    BY DEF PreviewTypeOK
  <2>2. todo' \in [Preview -> SUBSET Package]
    BY <1>3, <2>1
  <2>3. current' \in [Preview -> Package \cup {NoPackage}]
    BY <1>3, <1>a, <2>1
  <2>4. pc[p] \in Cycle
    BY InsideStep
  <2>5. current'[p] \in Package
    BY <1>3, <1>a, <1>b, <2>1, <2>4
  <2>6. QED
    BY <2>2, <2>3, <2>5
<1>5. \A q \in Preview : pc'[q] \in Cycle \ {"stage"} => current'[q] \in Package
  BY <1>3, <1>4, InsideStep DEF PreviewTypeOK
<1>6. /\ raising' \in [Preview -> BOOLEAN]
      /\ diff' \in [Preview -> SUBSET Vdom]
      /\ refused' \in [Preview -> SUBSET Package]
  <2>1. raising' = raising \/ raising' = [raising EXCEPT ![p] = TRUE]
    BY DEF Inside, StagePackage, PollStage, GenerateDiff, PollPreview, _fetch_result, _poll, Skip
  <2>2. \/ diff' = diff
        \/ \E V \in SUBSET Vdom : diff' = [diff EXCEPT ![p] = @ \cup V]
    <3>1. ScopeOf(p, current[p]) \cap Pending \in SUBSET Vdom
      BY PreviewAssumption
    <3>2. QED
      BY <3>1 DEF Inside, StagePackage, PollStage, GenerateDiff, PollPreview, _fetch_result, _poll, Skip, Cycle
  <2>3. refused' = refused \/ \E k \in Package : refused' = [refused EXCEPT ![p] = @ \cup {k}]
    BY <1>a, <1>b DEF Inside, StagePackage, PollStage, GenerateDiff, PollPreview, _fetch_result, _poll, Skip, Cycle
  <2>4. raising \in [Preview -> BOOLEAN] /\ diff \in [Preview -> SUBSET Vdom] /\ refused \in [Preview -> SUBSET Package]
    BY DEF PreviewTypeOK
  <2>5. raising' \in [Preview -> BOOLEAN]
    BY <2>1, <2>4
  <2>6. diff' \in [Preview -> SUBSET Vdom]
    BY <2>2, <2>4
  <2>7. refused' \in [Preview -> SUBSET Package]
    BY <2>3, <2>4
  <2>8. QED
    BY <2>5, <2>6, <2>7
<1>7. QED
  BY <1>1, <1>2, <1>4, <1>5, <1>6 DEF PreviewTypeOK

LEMMA InsideKeepsStaging ==
    ASSUME StagingIInv, NEW p \in Preview, Inside(p)
    PROVE  StagingIInv'
<1>0. PreviewTypeOK /\ LocksHeld /\ StagedOrLeft /\ PreviewTypeOK'
  BY InsideType DEF StagingIInv
<1>1. /\ UNCHANGED lock
      /\ \A q \in Preview : pc'[q] \in Cycle <=> pc[q] \in Cycle
      /\ \A a \in Adom \ {AdomOf[p]} : context'[a] = context[a] /\ (a \in left' <=> a \in left)
      /\ pc'[p] \in Cycle
  BY <1>0, InsideStep DEF PreviewTypeOK
<1>2. LocksHeld'
  BY <1>0, <1>1 DEF LocksHeld, LockOf, PreviewTypeOK
<1>3. StagedOrLeft'
  <2> SUFFICES ASSUME NEW a \in Adom, a \notin left', context'[a] # NoContext
               PROVE  \E q \in Preview : AdomOf[q] = a /\ pc'[q] \in Cycle
    BY DEF StagedOrLeft
  <2>1. CASE a = AdomOf[p]
    BY <1>1, <2>1
  <2>2. CASE a # AdomOf[p]
    BY <1>0, <1>1, <2>2 DEF StagedOrLeft
  <2>3. QED
    BY <2>1, <2>2
<1>4. QED
  BY <1>0, <1>2, <1>3 DEF StagingIInv

LEMMA CancelKeepsStaging ==
    ASSUME StagingIInv, NEW p \in Preview, CancelInstall(p)
    PROVE  StagingIInv'
<1>0. PreviewTypeOK /\ LocksHeld /\ StagedOrLeft /\ AdomOf[p] \in Adom /\ LockOf(p) \in Container \X Adom
  BY Homes DEF StagingIInv
<1>1. /\ pc[p] = "cancel"
      /\ UNCHANGED <<pkg_vdoms, todo, current, raising, diff, task, old, refused>>
      /\ \/ lock' = [lock EXCEPT ![LockOf(p)] = Free] /\ \E s \in {"failure", "parsing"} : pc' = [pc EXCEPT ![p] = s]
         \/ lock' = lock /\ pc' = [pc EXCEPT ![p] = "stage"]
      /\ \/ context' = [context EXCEPT ![AdomOf[p]] = NoContext] /\ left' = left \ {AdomOf[p]}
         \/ context' = context /\ left' = left \cup {AdomOf[p]}
  BY DEF CancelInstall, NextCycle, PreviewTo
<1>2. PreviewTypeOK'
  BY <1>0, <1>1 DEF PreviewTypeOK, Stages, Cycle, Storing
<1>a. Free \notin Preview
  BY PreviewAssumption
<1>3. LocksHeld'
  <2>0. \A q \in Preview : LockOf(q)' = LockOf(q) /\ LockOf(q) \in Container \X Adom
    BY Homes DEF LockOf
  <2>1. CASE lock' = lock
    BY <1>0, <1>1, <2>0, <2>1 DEF LocksHeld, PreviewTypeOK, Cycle
  <2>2. CASE lock' = [lock EXCEPT ![LockOf(p)] = Free]
    <3>1. \A q \in Preview : pc[q] \in Cycle => lock[LockOf(q)] = q
      BY <1>0 DEF LocksHeld
    <3>2. \A q \in Preview : pc'[q] \in Cycle => pc[q] \in Cycle /\ (q = p => lock' = lock)
      BY <1>0, <1>1 DEF PreviewTypeOK, Cycle
    <3>3. ASSUME NEW q \in Preview, pc'[q] \in Cycle
          PROVE  lock'[LockOf(q)] = q
      <4>1. lock[LockOf(p)] = p
        BY <1>1, <3>1 DEF Cycle
      <4>2. lock[LockOf(q)] = q /\ LockOf(q) \in Container \X Adom /\ LockOf(p) \in Container \X Adom
        BY <2>0, <3>1, <3>2, <3>3
      <4>3. CASE q = p
        BY <3>2, <3>3, <4>2, <4>3
      <4>4. CASE q # p
        BY <1>0, <2>2, <4>1, <4>2, <4>4 DEF PreviewTypeOK
      <4>5. QED
        BY <4>3, <4>4
    <3>4. ASSUME NEW k \in Container \X Adom, lock'[k] # Free
          PROVE  k = LockOf(lock'[k]) /\ pc'[lock'[k]] \in Cycle
      <4>1. k # LockOf(p) /\ lock'[k] = lock[k]
        BY <1>0, <2>2, <3>4 DEF PreviewTypeOK
      <4>2. k = LockOf(lock[k]) /\ pc[lock[k]] \in Cycle /\ lock[k] \in Preview /\ lock[k] # p
        BY <1>0, <3>4, <4>1 DEF LocksHeld, PreviewTypeOK
      <4>3. QED
        BY <1>0, <1>1, <4>1, <4>2 DEF PreviewTypeOK
    <3>5. QED
      BY <2>0, <3>3, <3>4 DEF LocksHeld
  <2>3. QED
    BY <1>1, <2>1, <2>2
<1>4. StagedOrLeft'
  BY <1>0, <1>1 DEF StagedOrLeft, PreviewTypeOK, Cycle
<1>5. QED
  BY <1>2, <1>3, <1>4 DEF StagingIInv

LEMMA RestartKeepsStaging ==
    ASSUME StagingIInv, NEW c \in Container, Restart(c)
    PROVE  StagingIInv'
<1>0. PreviewTypeOK /\ LocksHeld /\ StagedOrLeft
  BY DEF StagingIInv
<1> DEFINE dead == {p \in Preview : HomeOf[p] = c /\ pc[p] \notin {"idle"} \cup Ended}
<1>1. /\ pc' = [p \in Preview |-> IF p \in dead THEN "gone" ELSE pc[p]]
      /\ lock' = [k \in Container \X Adom |-> IF k[1] = c THEN Free ELSE lock[k]]
      /\ left' = left \cup {AdomOf[p] : p \in {q \in dead : pc[q] \in Cycle}}
      /\ UNCHANGED <<context, pkg_vdoms, todo, current, raising, diff, task, old, refused>>
  BY DEF Restart
<1>2. PreviewTypeOK'
  <2>1. pc' \in [Preview -> Stages] /\ \A q \in Preview : pc'[q] \in Cycle => pc[q] \in Cycle /\ pc'[q] = pc[q]
    BY <1>0, <1>1 DEF PreviewTypeOK, Stages, Ended, Cycle
  <2>2. lock' \in [Container \X Adom -> Preview \cup {Free}]
    BY <1>0, <1>1 DEF PreviewTypeOK
  <2>3. left' \subseteq Adom
    BY <1>0, <1>1, Homes DEF PreviewTypeOK
  <2>4. QED
    BY <1>0, <1>1, <2>1, <2>2, <2>3 DEF PreviewTypeOK
<1>3. \A q \in Preview : pc[q] \in Cycle => (q \in dead <=> HomeOf[q] = c)
  BY DEF Cycle, Ended
<1>4. LocksHeld'
  <2>1. ASSUME NEW q \in Preview, pc'[q] \in Cycle
        PROVE  lock'[LockOf(q)] = q
    <3>1. pc[q] \in Cycle /\ HomeOf[q] # c
      BY <1>1, <1>3, <2>1 DEF Cycle
    <3>2. lock[LockOf(q)] = q /\ LockOf(q)[1] # c
      BY <1>0, <3>1 DEF LocksHeld, LockOf
    <3>3. QED
      BY <1>1, <3>2, Homes
  <2>2. ASSUME NEW k \in Container \X Adom, lock'[k] # Free
        PROVE  k = LockOf(lock'[k]) /\ pc'[lock'[k]] \in Cycle
    <3>1. k[1] # c /\ lock'[k] = lock[k] /\ lock[k] \in Preview
      BY <1>0, <1>1, <2>2 DEF PreviewTypeOK
    <3>2. k = LockOf(lock[k]) /\ pc[lock[k]] \in Cycle
      BY <1>0, <2>2, <3>1 DEF LocksHeld
    <3>3. HomeOf[lock[k]] # c
      BY <3>1, <3>2 DEF LockOf
    <3>4. QED
      BY <1>1, <1>3, <3>1, <3>2, <3>3
  <2>3. QED
    BY <2>1, <2>2 DEF LocksHeld, LockOf
<1>5. StagedOrLeft'
  <2> SUFFICES ASSUME NEW a \in Adom, a \notin left', context'[a] # NoContext
               PROVE  \E q \in Preview : AdomOf[q] = a /\ pc'[q] \in Cycle
    BY DEF StagedOrLeft
  <2>1. PICK q \in Preview : AdomOf[q] = a /\ pc[q] \in Cycle
    BY <1>0, <1>1 DEF StagedOrLeft
  <2>2. q \notin dead
    BY <1>1, <2>1
  <2>3. QED
    BY <1>1, <2>1, <2>2
<1>6. QED
  BY <1>2, <1>4, <1>5 DEF StagingIInv

LEMMA StagingStep == StagingIInv /\ [PreviewNext]_previewVars => StagingIInv'
<1> SUFFICES ASSUME StagingIInv, [PreviewNext]_previewVars
             PROVE  StagingIInv'
  OBVIOUS
<1>1. ASSUME NEW p \in Preview, pending_changes_preview(p) \/ PreviewStep(p) \/ Age(p)
      PROVE  StagingIInv'
  BY <1>1, OutsideKeepsStaging, LockKeepsStaging, InsideKeepsStaging, CancelKeepsStaging
     DEF PreviewStep, Outside, Inside
<1>2. CASE pending_changes_task_status
  BY <1>2 DEF pending_changes_task_status, _evict_old_tasks, StagingIInv, PreviewTypeOK, LocksHeld, LockOf, StagedOrLeft
<1>3. ASSUME NEW c \in Container, Restart(c)
      PROVE  StagingIInv'
  BY <1>3, RestartKeepsStaging
<1>4. CASE UNCHANGED previewVars
  BY <1>4 DEF previewVars, StagingIInv, PreviewTypeOK, LocksHeld, LockOf, StagedOrLeft
<1>5. QED
  BY <1>1, <1>2, <1>3, <1>4 DEF PreviewNext

(* The type invariant of install previews.                                 *)
THEOREM PreviewTypeCorrect == PreviewSpec => []PreviewTypeOK
<1>1. StagingIInv => PreviewTypeOK
  BY DEF StagingIInv
<1>2. QED
  BY <1>1, StagingInit, StagingStep, PTL DEF PreviewSpec

(* StagingEndsClean, for any number of containers: once no preview holds a *)
(* lock of an ADOM, nothing is staged there but what a refused cancel or a *)
(* restart left behind.                                                    *)
THEOREM StagingIsCleaned == PreviewSpec => []StagingEndsClean
<1>1. StagingIInv => StagingEndsClean
  <2> SUFFICES ASSUME StagingIInv, NEW a \in Adom, \A c \in Container : lock[<<c, a>>] = Free, a \notin left,
                      context[a] # NoContext
               PROVE  FALSE
    BY DEF StagingEndsClean
  <2>1. PICK p \in Preview : AdomOf[p] = a /\ pc[p] \in Cycle
    BY DEF StagingIInv, StagedOrLeft
  <2>2. lock[<<HomeOf[p], a>>] = p /\ HomeOf[p] \in Container
    BY <2>1, PreviewAssumption DEF StagingIInv, LocksHeld, LockOf
  <2>3. QED
    BY <2>2, PreviewAssumption
<1>2. QED
  BY <1>1, StagingInit, StagingStep, PTL DEF PreviewSpec

-----------------------------------------------------------------------------
(* Diffs                                                                   *)

StepOf(p) == pending_changes_preview(p) \/ PreviewStep(p) \/ Age(p)

LEMMA DiffInit == PreviewInit => ContextsAreOwn /\ \A p \in Preview : Progress(p)
BY DEF PreviewInit, ContextsAreOwn, Progress, Dealt, Cycle

(* Two previews of one ADOM are never in their cycles together.            *)
LEMMA Alone ==
    ASSUME OneContainer, LocksHeld, NEW p \in Preview, NEW q \in Preview,
           pc[p] \in Cycle, pc[q] \in Cycle, AdomOf[p] = AdomOf[q]
    PROVE  p = q
BY DEF OneContainer, LocksHeld, LockOf

(* A step of a preview changes its own state, and the context of its ADOM  *)
(* during its cycle.                                                       *)
LEMMA OwnStateOnly ==
    ASSUME PreviewTypeOK, NEW p \in Preview, StepOf(p), NEW q \in Preview, q # p
    PROVE  /\ pc'[q] = pc[q] /\ pkg_vdoms'[q] = pkg_vdoms[q] /\ todo'[q] = todo[q] /\ current'[q] = current[q]
           /\ raising'[q] = raising[q] /\ diff'[q] = diff[q] /\ refused'[q] = refused[q]
<1> USE DEF PreviewTypeOK, PreviewTo, Skip
<1>1. CASE pending_changes_preview(p) \/ get_package_info(p) \/ _run(p) \/ Age(p)
  BY <1>1 DEF pending_changes_preview, get_package_info, _run, _read_task, _write_task, Age
<1>2. CASE _adom_preview_lock(p)
  BY <1>2 DEF _adom_preview_lock
<1>3. CASE StagePackage(p)
  BY <1>3 DEF StagePackage
<1>4. CASE PollStage(p) \/ PollPreview(p)
  BY <1>4 DEF PollStage, PollPreview, _poll
<1>5. CASE GenerateDiff(p) \/ _fetch_result(p)
  BY <1>5 DEF GenerateDiff, _fetch_result
<1>6. CASE CancelInstall(p)
  BY <1>6 DEF CancelInstall, NextCycle
<1>7. QED
  BY <1>1, <1>2, <1>3, <1>4, <1>5, <1>6 DEF StepOf, PreviewStep

LEMMA OwnContextOnly ==
    ASSUME PreviewTypeOK, NEW p \in Preview, StepOf(p)
    PROVE  \/ context' = context
           \/ pc[p] \in Cycle /\ \A a \in Adom \ {AdomOf[p]} : context'[a] = context[a]
<1>1. CASE Outside(p)
  BY <1>1, OutsideStep
<1>2. CASE Inside(p)
  BY <1>2, InsideStep, Homes DEF PreviewTypeOK
<1>3. CASE _adom_preview_lock(p)
  BY <1>3 DEF _adom_preview_lock
<1>4. CASE CancelInstall(p)
  BY <1>4, Homes DEF CancelInstall, PreviewTypeOK, Cycle
<1>5. QED
  BY <1>1, <1>2, <1>3, <1>4 DEF StepOf, PreviewStep, Outside, Inside

(* A preview meets its own context after each step of its cycle.           *)
OwnContext(p) ==
    /\ pc[p] \in {"staging", "generate"} => MyContext(p, FALSE)
    /\ pc[p] \in {"generating", "fetch"} => MyContext(p, TRUE)

LEMMA OwnContextStep ==
    ASSUME PreviewTypeOK, NEW p \in Preview, OwnContext(p), StepOf(p)
    PROVE  OwnContext(p)'
<1>0. AdomOf[p] \in Adom
  BY Homes
<1>1. CASE Outside(p)
  <2>1. pc'[p] \notin Cycle \/ pc'[p] = pc[p]
    BY <1>1, OutsideStep DEF PreviewTypeOK
  <2>2. QED
    BY <1>1, <2>1, OutsideStep DEF OwnContext, MyContext, Staged, Cycle
<1>2. CASE _adom_preview_lock(p) \/ CancelInstall(p)
  BY <1>2 DEF _adom_preview_lock, CancelInstall, NextCycle, PreviewTo, PreviewTypeOK, OwnContext
<1>3. CASE StagePackage(p)
  <2>1. CASE pc'[p] = "cancel"
    BY <2>1 DEF OwnContext
  <2>2. CASE pc'[p] # "cancel"
    <3>1. PICK k \in todo[p] : current' = [current EXCEPT ![p] = k]
                               /\ context' = [context EXCEPT ![AdomOf[p]] = Staged(p, k, FALSE)]
                               /\ pc' = [pc EXCEPT ![p] = "staging"]
      BY <1>3, <2>2 DEF StagePackage, Skip, PreviewTo, PreviewTypeOK
    <3>2. current'[p] = k /\ context'[AdomOf[p]] = Staged(p, k, FALSE) /\ pc'[p] = "staging"
      BY <1>0, <3>1 DEF PreviewTypeOK
    <3>3. QED
      BY <3>2 DEF OwnContext, MyContext, Staged
  <2>3. QED
    BY <2>1, <2>2
<1>4. CASE PollStage(p) \/ PollPreview(p)
  BY <1>4 DEF PollStage, PollPreview, _poll, PreviewTo, PreviewTypeOK, OwnContext, MyContext, Staged
<1>5. CASE GenerateDiff(p)
  <2>1. CASE pc'[p] = "cancel"
    BY <2>1 DEF OwnContext
  <2>2. CASE pc'[p] # "cancel"
    <3>1. context' = [context EXCEPT ![AdomOf[p]] = Staged(p, current[p], TRUE)] /\ current' = current
          /\ pc' = [pc EXCEPT ![p] = "generating"]
      BY <1>5, <2>2 DEF GenerateDiff, Skip, PreviewTo, PreviewTypeOK, OwnContext
    <3>2. QED
      BY <1>0, <3>1 DEF PreviewTypeOK, OwnContext, MyContext, Staged
  <2>3. QED
    BY <2>1, <2>2
<1>6. CASE _fetch_result(p)
  BY <1>6 DEF _fetch_result, Skip, PreviewTo, PreviewTypeOK, OwnContext
<1>7. QED
  BY <1>1, <1>2, <1>3, <1>4, <1>5, <1>6 DEF StepOf, PreviewStep, Outside

LEMMA ContextsStep ==
    ASSUME OneContainer, StagingIInv, ContextsAreOwn, NEW p \in Preview, StepOf(p)
    PROVE  ContextsAreOwn'
<1>0. PreviewTypeOK /\ LocksHeld /\ \A q \in Preview : OwnContext(q)
  BY DEF StagingIInv, ContextsAreOwn, OwnContext
<1> SUFFICES ASSUME NEW q \in Preview
             PROVE  OwnContext(q)'
  BY DEF ContextsAreOwn, OwnContext
<1>1. CASE q = p
  BY <1>0, <1>1, OwnContextStep
<1>2. CASE q # p
  <2>1. pc'[q] = pc[q] /\ current'[q] = current[q]
    BY <1>0, <1>2, OwnStateOnly
  <2>2. pc[q] \in Cycle => context'[AdomOf[q]] = context[AdomOf[q]]
    BY <1>0, <1>2, Alone, Homes, OwnContextOnly
  <2>3. QED
    BY <1>0, <2>1, <2>2 DEF OwnContext, MyContext, Staged, Cycle
<1>3. QED
  BY <1>1, <1>2

(* What a preview has fetched, package by package.                         *)
LEMMA ProgressStep ==
    ASSUME PreviewTypeOK, NEW p \in Preview, OwnContext(p), Progress(p), StepOf(p)
    PROVE  Progress(p)'
<1>0. /\ VdomsOf[p] \in SUBSET Vdom /\ todo[p] \subseteq Packages(p)
      /\ pc[p] \in Cycle \ {"stage"} => current[p] \in Package
      /\ pc \in [Preview -> Stages] /\ todo \in [Preview -> SUBSET Package]
      /\ current \in [Preview -> Package \cup {NoPackage}] /\ raising \in [Preview -> BOOLEAN]
      /\ pkg_vdoms \in [Preview -> SUBSET Vdom] /\ PackageOf \in [Vdom -> Package]
      /\ diff \in [Preview -> SUBSET Vdom] /\ refused \in [Preview -> SUBSET Package]
  BY Homes, PreviewAssumption DEF PreviewTypeOK, Progress
<1> USE DEF PreviewTo, Dealt, Cycle, Packages
<1>1. CASE pending_changes_preview(p)
  BY <1>0, <1>1 DEF pending_changes_preview, Progress
<1>2. CASE Age(p)
  BY <1>0, <1>2 DEF Age, Progress
<1>3. CASE _run(p)
  <2>1. /\ UNCHANGED <<pkg_vdoms, todo, current, raising, diff, refused>>
        /\ \/ /\ pc[p] \in {"parsing", "stepping", "result", "storing"}
              /\ \E s \in {"stepping", "result", "storing", "done"} : pc' = [pc EXCEPT ![p] = s]
           \/ \E t \in {"storingError", "failed"} : pc' = [pc EXCEPT ![p] = t]
    BY <1>3 DEF _run, _read_task, _write_task
  <2>2. QED
    BY <1>0, <2>1 DEF Progress
<1>4. CASE get_package_info(p)
  BY <1>0, <1>4 DEF get_package_info, Progress
<1>5. CASE _adom_preview_lock(p)
  BY <1>0, <1>5 DEF _adom_preview_lock, Progress
<1>6. CASE StagePackage(p)
  <2>1. PICK k \in todo[p] :
          /\ current' = [current EXCEPT ![p] = k]
          /\ todo' = [todo EXCEPT ![p] = @ \ {k}]
          /\ UNCHANGED <<pkg_vdoms, raising, diff>>
          /\ \/ refused' = [refused EXCEPT ![p] = @ \cup {k}] /\ pc' = [pc EXCEPT ![p] = "cancel"]
             \/ refused' = refused /\ pc' = [pc EXCEPT ![p] = "staging"]
    BY <1>6 DEF StagePackage, Skip
  <2>2. pc[p] = "stage" /\ Dealt(p, todo[p]) /\ ~raising[p]
    BY <1>6 DEF StagePackage, Progress
  <2>3. /\ pkg_vdoms'[p] = pkg_vdoms[p] /\ current'[p] = k /\ todo'[p] = todo[p] \ {k} /\ raising'[p] = raising[p] /\ diff'[p] = diff[p]
        /\ \/ refused'[p] = refused[p] \cup {k} /\ pc'[p] = "cancel"
           \/ refused'[p] = refused[p] /\ pc'[p] = "staging"
    BY <1>0, <2>1
  <2>4. QED
    BY <1>0, <2>2, <2>3 DEF Progress
<1>7. CASE PollStage(p) \/ PollPreview(p)
  <2>1. /\ UNCHANGED <<pkg_vdoms, todo, current, diff, refused>>
        /\ pc[p] \in {"staging", "generating"}
        /\ \/ raising' = raising /\ pc' = [pc EXCEPT ![p] = IF pc[p] = "staging" THEN "generate" ELSE "fetch"]
           \/ raising' = [raising EXCEPT ![p] = TRUE] /\ pc' = [pc EXCEPT ![p] = "cancel"]
    BY <1>7 DEF PollStage, PollPreview, _poll
  <2>2. QED
    BY <1>0, <2>1 DEF Progress
<1>8. CASE GenerateDiff(p)
  <2>1. /\ UNCHANGED <<pkg_vdoms, todo, current, raising, diff>>
        /\ pc[p] = "generate"
        /\ \/ refused' = refused /\ pc' = [pc EXCEPT ![p] = "generating"]
           \/ refused' = [refused EXCEPT ![p] = @ \cup {current[p]}] /\ pc' = [pc EXCEPT ![p] = "cancel"]
    BY <1>8 DEF GenerateDiff, Skip
  <2>2. QED
    BY <1>0, <2>1 DEF Progress
<1>9. CASE _fetch_result(p)
  <2>1. MyContext(p, TRUE)
    BY <1>9 DEF _fetch_result, OwnContext
  <2>2. /\ UNCHANGED <<pkg_vdoms, todo, current, raising>>
        /\ pc[p] = "fetch"
        /\ pc' = [pc EXCEPT ![p] = "cancel"]
        /\ \/ refused' = [refused EXCEPT ![p] = @ \cup {current[p]}] /\ diff' = diff
           \/ refused' = refused /\ diff' = [diff EXCEPT ![p] = @ \cup (ScopeOf(p, current[p]) \cap Pending)]
    BY <1>9, <2>1 DEF _fetch_result, Skip
  <2>3. QED
    BY <1>0, <2>2 DEF Progress, ScopeOf
<1>10. CASE CancelInstall(p)
  <2>1. /\ UNCHANGED <<pkg_vdoms, todo, current, raising, diff, refused>>
        /\ pc[p] = "cancel"
        /\ \/ pc' = [pc EXCEPT ![p] = "failure"]
           \/ ~raising[p] /\ todo[p] = {} /\ pc' = [pc EXCEPT ![p] = "parsing"]
           \/ ~raising[p] /\ pc' = [pc EXCEPT ![p] = "stage"]
    BY <1>10 DEF CancelInstall, NextCycle
  <2>2. QED
    BY <1>0, <2>1 DEF Progress
<1>11. QED
  BY <1>1, <1>2, <1>3, <1>4, <1>5, <1>6, <1>7, <1>8, <1>9, <1>10 DEF StepOf, PreviewStep

LEMMA PreviewIInvStep == OneContainer /\ PreviewIInv /\ [PreviewNext]_previewVars => PreviewIInv'
<1> SUFFICES ASSUME OneContainer, PreviewIInv, [PreviewNext]_previewVars
             PROVE  PreviewIInv'
  OBVIOUS
<1>0. PreviewTypeOK /\ StagingIInv' /\ \A p \in Preview : OwnContext(p) /\ Progress(p)
  BY StagingStep DEF PreviewIInv, StagingIInv, ContextsAreOwn, OwnContext
<1> USE DEF PreviewIInv
<1>1. ASSUME NEW p \in Preview, StepOf(p)
      PROVE  PreviewIInv'
  <2>1. ContextsAreOwn'
    BY <1>1, ContextsStep
  <2>2. ASSUME NEW q \in Preview
        PROVE  Progress(q)'
    <3>1. CASE q = p
      BY <1>0, <1>1, <3>1, ProgressStep
    <3>2. CASE q # p
      BY <1>0, <1>1, <3>2, OwnStateOnly DEF Progress, Dealt, Packages
    <3>3. QED
      BY <3>1, <3>2
  <2>3. QED
    BY <1>0, <2>1, <2>2
<1>2. CASE pending_changes_task_status
  BY <1>0, <1>2 DEF pending_changes_task_status, ContextsAreOwn, MyContext, Staged, Progress, Dealt, Packages
<1>3. ASSUME NEW c \in Container, Restart(c)
      PROVE  PreviewIInv'
  <2>1. /\ UNCHANGED <<context, pkg_vdoms, todo, current, raising, diff, refused>>
        /\ \A q \in Preview : pc'[q] = "gone" \/ pc'[q] = pc[q]
    BY <1>3 DEF Restart
  <2>2. QED
    BY <1>0, <2>1 DEF ContextsAreOwn, MyContext, Staged, Progress, Dealt, Packages, Cycle
<1>4. CASE UNCHANGED previewVars
  BY <1>0, <1>4 DEF previewVars, ContextsAreOwn, MyContext, Staged, Progress, Dealt, Packages
<1>5. QED
  BY <1>1, <1>2, <1>3, <1>4 DEF PreviewNext, StepOf

(* DiffComplete, when the previews of an ADOM share a container and so a   *)
(* lock file: a finished preview shows the diff of every VDOM with pending *)
(* changes whose package it learnt and was not refused.                    *)
THEOREM DiffsAreComplete == OneContainer => (PreviewSpec => []DiffComplete)
<1>1. PreviewInit => PreviewIInv
  BY StagingInit, DiffInit DEF PreviewIInv
<1>2. PreviewIInv => DiffComplete
  <2> SUFFICES ASSUME PreviewIInv, NEW p \in Preview, pc[p] = "done"
               PROVE  diff[p] = {v \in pkg_vdoms[p] \cap Pending : PackageOf[v] \notin refused[p]}
    BY DEF DiffComplete
  <2>1. Dealt(p, {})
    BY DEF PreviewIInv, Progress
  <2>2. QED
    BY <2>1 DEF Dealt
<1> SUFFICES ASSUME OneContainer
             PROVE  PreviewSpec => []DiffComplete
  OBVIOUS
<1>3. PreviewIInv /\ [PreviewNext]_previewVars => PreviewIInv'
  BY PreviewIInvStep
<1>4. QED
  BY <1>1, <1>2, <1>3, PTL DEF PreviewSpec
=============================================================================
