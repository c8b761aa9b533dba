--------------------------- MODULE PreviewStaging ---------------------------
(***************************************************************************)
(* Install previews.  A preview stages each package of a device on the     *)
(* FortiManager, has the diff generated, fetches it and cancels the        *)
(* staging.  The FortiManager keeps one staging context per ADOM and a new *)
(* staging replaces it, so the previews of an ADOM take turns: they hold a *)
(* file lock, which the threads and processes of one container share and   *)
(* other containers do not see.  The page follows a preview through a      *)
(* task file, which any worker may evict when it is old.                   *)
(***************************************************************************)
EXTENDS Naturals, FiniteSets

CONSTANTS
    Preview,         \* requests for a preview, each of one device
    Adom,            \* administrative domains
    Container,       \* running instances of the application
    Package, Vdom,   \* policy packages, and the VDOMs of the devices
    AdomOf, HomeOf,  \* the ADOM of a preview's device and the container that runs it
    VdomsOf,         \* the VDOMs of the preview's device that have a package
    PackageOf,       \* the package assigned to each of them
    Pending,         \* the VDOMs where its installation would change something
    NoPackage, NoContext, Free

ASSUME PreviewAssumption ==
    /\ AdomOf \in [Preview -> Adom]
    /\ HomeOf \in [Preview -> Container]
    /\ VdomsOf \in [Preview -> SUBSET Vdom]
    /\ PackageOf \in [Vdom -> Package]
    /\ IsFiniteSet(Package)
    /\ Pending \subseteq Vdom
    /\ NoPackage \notin Package
    /\ Free \notin Preview

VARIABLES
    lock,      \* the holder of the lock file of a container and an ADOM
    context,   \* FortiManager: the staging context of an ADOM
    pc,        \* where each preview stands
    pkg_vdoms, \* the VDOMs whose package was learnt, the scope of the staging
    todo,      \* the packages still to stage
    current,   \* the package in its staging cycle
    raising,   \* the cycle ends with an error that ends the preview
    diff,      \* raw_parts: the VDOMs whose diff was fetched
    task,      \* the status in the task file, "none" without a file
    old,       \* the task files past _TASK_TTL_SECS
    refused,   \* history: packages for which FortiManager refused a call of the cycle
    left       \* history: ADOMs whose last cancel FortiManager refused, or whose canceller crashed

previewVars == <<lock, context, pc, pkg_vdoms, todo, current, raising, diff, task, old, refused, left>>

Context == [owner : Preview, package : Package, generated : BOOLEAN]

Cycle   == {"stage", "staging", "generate", "generating", "fetch", "cancel"}
Storing == {"parsing", "stepping", "result", "storing", "failure", "storingError"}
Ended   == {"done", "failed", "gone"}
Stages  == {"idle", "assigning", "waiting"} \cup Cycle \cup Storing \cup Ended

PreviewTypeOK ==
    /\ lock \in [Container \X Adom -> Preview \cup {Free}]
    /\ context \in [Adom -> Context \cup {NoContext}]
    /\ pc \in [Preview -> Stages]
    /\ pkg_vdoms \in [Preview -> SUBSET Vdom]
    /\ todo \in [Preview -> SUBSET Package]
    /\ current \in [Preview -> Package \cup {NoPackage}]
    /\ \A p \in Preview : pc[p] \in Cycle \ {"stage"} => current[p] \in Package
    /\ raising \in [Preview -> BOOLEAN]
    /\ diff \in [Preview -> SUBSET Vdom]
    /\ task \in [Preview -> {"none", "running", "done", "error"}]
    /\ old \subseteq Preview
    /\ refused \in [Preview -> SUBSET Package]
    /\ left \subseteq Adom

PreviewInit ==
    /\ lock = [k \in Container \X Adom |-> Free]
    /\ context = [a \in Adom |-> NoContext]
    /\ pc = [p \in Preview |-> "idle"]
    /\ pkg_vdoms = [p \in Preview |-> {}]
    /\ todo = [p \in Preview |-> {}]
    /\ current = [p \in Preview |-> NoPackage]
    /\ raising = [p \in Preview |-> FALSE]
    /\ diff = [p \in Preview |-> {}]
    /\ task = [p \in Preview |-> "none"]
    /\ old = {}
    /\ refused = [p \in Preview |-> {}]
    /\ left = {}

LockOf(p) == <<HomeOf[p], AdomOf[p]>>

Own(p)   == lock[LockOf(p)] = p
PreviewTo(p, stage) == pc' = [pc EXCEPT ![p] = stage]

-----------------------------------------------------------------------------
(* Task files                                                              *)

(* Every visit drops the files created more than _TASK_TTL_SECS ago,       *)
(* whatever status they hold.                                              *)
_evict_old_tasks(q) == IF q \in old THEN "none" ELSE task[q]

pending_changes_preview(p) ==
    /\ pc[p] = "idle"
    /\ task' = [q \in Preview |-> IF q = p THEN "running" ELSE _evict_old_tasks(q)]
    /\ PreviewTo(p, "assigning")
    /\ UNCHANGED <<lock, context, pkg_vdoms, todo, current, raising, diff, old, refused, left>>

pending_changes_task_status ==
    /\ task' = [q \in Preview |-> _evict_old_tasks(q)]
    /\ UNCHANGED <<lock, context, pc, pkg_vdoms, todo, current, raising, diff, old, refused, left>>

(* Ten minutes pass.                                                       *)
Age(p) ==
    /\ pc[p] # "idle"
    /\ old' = old \cup {p}
    /\ UNCHANGED <<lock, context, pc, pkg_vdoms, todo, current, raising, diff, task, refused, left>>

(* A status is stored by reading the file, which must still be there, and  *)
(* writing it back: an eviction in between brings an old file back.        *)
_read_task(p, from, found, absent) ==
    /\ pc[p] = from
    /\ PreviewTo(p, IF task[p] = "none" THEN absent ELSE found)
    /\ UNCHANGED <<lock, context, pkg_vdoms, todo, current, raising, diff, task, old, refused, left>>

_write_task(p, from, status, next) ==
    /\ pc[p] = from
    /\ task' = [task EXCEPT ![p] = status]
    /\ PreviewTo(p, next)
    /\ UNCHANGED <<lock, context, pkg_vdoms, todo, current, raising, diff, old, refused, left>>

_run(p) ==
    \/ _read_task(p, "parsing", "stepping", "result")
    \/ _write_task(p, "stepping", "running", "result")
    \/ _read_task(p, "result", "storing", "done")
    \/ _write_task(p, "storing", "done", "done")
    \/ _read_task(p, "failure", "storingError", "failed")
    \/ _write_task(p, "storingError", "error", "failed")

-----------------------------------------------------------------------------
(* get_install_preview                                                     *)

(* The packages of the VDOMs are asked for before the lock is taken.  A    *)
(* call that fails is an empty answer: a VDOM without a package, or a      *)
(* device without VDOMs, of which only root is then asked.  The preview    *)
(* goes on with the VDOMs it learnt the package of, and has nothing to     *)
(* stage without one.  What can end it here is the login and the           *)
(* inventory, which come before.                                           *)
get_package_info(p) ==
    /\ pc[p] = "assigning"
    /\ \/ \E learnt \in SUBSET VdomsOf[p] :
             /\ pkg_vdoms' = [pkg_vdoms EXCEPT ![p] = learnt]
             /\ todo' = [todo EXCEPT ![p] = {PackageOf[v] : v \in learnt}]
             /\ PreviewTo(p, IF learnt = {} THEN "parsing" ELSE "waiting")
       \/ /\ PreviewTo(p, "failure")
          /\ UNCHANGED <<pkg_vdoms, todo>>
    /\ UNCHANGED <<lock, context, current, raising, diff, task, old, refused, left>>

(* Mutant of _adom_preview_lock: the lock is taken whoever holds it.       *)
_adom_preview_lock_shared(p) ==
    /\ pc[p] = "waiting"
    /\ \/ /\ lock' = [lock EXCEPT ![LockOf(p)] = p]
          /\ PreviewTo(p, "stage")
       \/ /\ ~ Own(p)
          /\ lock[LockOf(p)] # Free
          /\ PreviewTo(p, "failure")
          /\ UNCHANGED lock
    /\ UNCHANGED <<context, pkg_vdoms, todo, current, raising, diff, task, old, refused, left>>

(* The lock is tried every quarter of a second; a preview that finds it    *)
(* taken at its deadline fails.                                            *)
_adom_preview_lock(p) ==
    /\ pc[p] = "waiting"
    /\ \/ /\ lock[LockOf(p)] = Free
          /\ lock' = [lock EXCEPT ![LockOf(p)] = p]
          /\ PreviewTo(p, "stage")
       \/ /\ lock[LockOf(p)] # Free
          /\ PreviewTo(p, "failure")
          /\ UNCHANGED lock
    /\ UNCHANGED <<context, pkg_vdoms, todo, current, raising, diff, task, old, refused, left>>

Staged(p, k, generated) == [owner |-> p, package |-> k, generated |-> generated]

(* A call of the cycle that FortiManager refuses skips the package: the    *)
(* cycle goes straight to its cancel.                                      *)
Skip(p, k) ==
    /\ refused' = [refused EXCEPT ![p] = @ \cup {k}]
    /\ PreviewTo(p, "cancel")
    /\ UNCHANGED <<lock, context, pkg_vdoms, raising, diff, task, old, left>>

(* Step 1: install/package.  The new context replaces the ADOM's.          *)
StagePackage(p) ==
    /\ pc[p] = "stage"
    /\ \E k \in todo[p] :
          /\ current' = [current EXCEPT ![p] = k]
          /\ todo' = [todo EXCEPT ![p] = @ \ {k}]
          /\ \/ Skip(p, k)
             \/ /\ context' = [context EXCEPT ![AdomOf[p]] = Staged(p, k, FALSE)]
                /\ left' = left \ {AdomOf[p]}
                /\ PreviewTo(p, "staging")
                /\ UNCHANGED <<lock, pkg_vdoms, raising, diff, task, old, refused>>

(* The poll of a task ends when the task does, or at the deadline.  A task *)
(* that failed or timed out fails the whole preview, after the cancel.     *)
_poll(p, from, next) ==
    /\ pc[p] = from
    /\ \/ /\ PreviewTo(p, next)
          /\ UNCHANGED raising
       \/ /\ raising' = [raising EXCEPT ![p] = TRUE]
          /\ PreviewTo(p, "cancel")

MyContext(p, generated) == context[AdomOf[p]] = Staged(p, current[p], generated)

PollStage(p) ==
    /\ _poll(p, "staging", "generate")
    /\ UNCHANGED <<lock, context, pkg_vdoms, todo, current, diff, task, old, refused, left>>

(* Step 2: install/preview generates the diff of whatever is staged.       *)
GenerateDiff(p) ==
    /\ pc[p] = "generate"
    /\ \/ Skip(p, current[p]) /\ UNCHANGED <<pkg_vdoms, todo, current>>
       \/ /\ context' = IF MyContext(p, FALSE)
                        THEN [context EXCEPT ![AdomOf[p]] = Staged(p, current[p], TRUE)] ELSE context
          /\ PreviewTo(p, "generating")
          /\ UNCHANGED <<lock, pkg_vdoms, todo, current, raising, diff, task, old, refused, left>>

PollPreview(p) ==
    /\ _poll(p, "generating", "fetch")
    /\ UNCHANGED <<lock, context, pkg_vdoms, todo, current, diff, task, old, refused, left>>

ScopeOf(p, k) == {v \in pkg_vdoms[p] : PackageOf[v] = k}

(* Step 3: preview/result, which is empty when the context is not the      *)
(* preview's any more, and for a VDOM without changes.                     *)
_fetch_result(p) ==
    /\ pc[p] = "fetch"
    /\ \/ Skip(p, current[p]) /\ UNCHANGED <<pkg_vdoms, todo, current>>
       \/ /\ diff' = IF MyContext(p, TRUE)
                     THEN [diff EXCEPT ![p] = @ \cup (ScopeOf(p, current[p]) \cap Pending)] ELSE diff
          /\ PreviewTo(p, "cancel")
          /\ UNCHANGED <<lock, context, pkg_vdoms, todo, current, raising, task, old, refused, left>>

(* After the cycle: the next package, or the lock is released.             *)
NextCycle(p) ==
    IF raising[p] \/ todo[p] = {}
    THEN /\ lock' = [lock EXCEPT ![LockOf(p)] = Free]
         /\ PreviewTo(p, IF raising[p] THEN "failure" ELSE "parsing")
    ELSE /\ PreviewTo(p, "stage")
         /\ UNCHANGED lock

(* Mutant of CancelInstall: only a cycle that went well is cancelled.      *)
CancelAfterSuccess(p) ==
    /\ pc[p] = "cancel"
    /\ IF raising[p]
       THEN UNCHANGED <<context, left>>
       ELSE \/ /\ context' = [context EXCEPT ![AdomOf[p]] = NoContext]
               /\ left' = left \ {AdomOf[p]}
            \/ /\ left' = left \cup {AdomOf[p]}
               /\ UNCHANGED context
    /\ NextCycle(p)
    /\ UNCHANGED <<pkg_vdoms, todo, current, raising, diff, task, old, refused>>

(* Step 4, in a finally block: package/cancel/install, whose failure is    *)
(* ignored.                                                                *)
CancelInstall(p) ==
    /\ pc[p] = "cancel"
    /\ \/ /\ context' = [context EXCEPT ![AdomOf[p]] = NoContext]
          /\ left' = left \ {AdomOf[p]}
       \/ /\ left' = left \cup {AdomOf[p]}
          /\ UNCHANGED context
    /\ NextCycle(p)
    /\ UNCHANGED <<pkg_vdoms, todo, current, raising, diff, task, old, refused>>

(* A container restarts: its threads are gone, its descriptors closed, and *)
(* with them its locks.  The FortiManager keeps what was staged.           *)
Restart(c) ==
    LET dead == {p \in Preview : HomeOf[p] = c /\ pc[p] \notin {"idle"} \cup Ended} IN
    /\ dead # {}
    /\ pc' = [p \in Preview |-> IF p \in dead THEN "gone" ELSE pc[p]]
    /\ lock' = [k \in Container \X Adom |-> IF k[1] = c THEN Free ELSE lock[k]]
    /\ left' = left \cup {AdomOf[p] : p \in {q \in dead : pc[q] \in Cycle}}
    /\ UNCHANGED <<context, pkg_vdoms, todo, current, raising, diff, task, old, refused>>

-----------------------------------------------------------------------------

PreviewStep(p) ==
    \/ get_package_info(p)
    \/ _adom_preview_lock(p)
    \/ StagePackage(p)
    \/ PollStage(p)
    \/ GenerateDiff(p)
    \/ PollPreview(p)
    \/ _fetch_result(p)
    \/ CancelInstall(p)
    \/ _run(p)

PreviewNext ==
    \/ \E p \in Preview : pending_changes_preview(p) \/ PreviewStep(p) \/ Age(p)
    \/ pending_changes_task_status
    \/ \E c \in Container : Restart(c)

PreviewSpec == PreviewInit /\ [][PreviewNext]_previewVars

-----------------------------------------------------------------------------
(* Properties                                                              *)

(* A finished preview shows the diff of every VDOM it learnt the package   *)
(* of that has pending changes, except for the packages FortiManager       *)
(* refused to stage, generate or hand out: no other preview's staging      *)
(* replaced one of its contexts in the middle of a cycle                   *)
(* (_adom_preview_lock).  It holds when the previews of an ADOM run in one *)
(* container.                                                              *)
DiffComplete ==
    \A p \in Preview :
        pc[p] = "done" => diff[p] = {v \in pkg_vdoms[p] \cap Pending : PackageOf[v] \notin refused[p]}

(* What the page says of a finished preview, VDOM by VDOM, is not always   *)
(* so, and no run states it: a VDOM whose lookup failed is listed with no  *)
(* pending changes.                                                        *)
EveryVdomIsAsked == \A p \in Preview : pc[p] = "done" => pkg_vdoms[p] = VdomsOf[p]

(* Nothing stays staged on the FortiManager once no preview of the ADOM    *)
(* holds the lock, unless the cancel was refused or the process died: the  *)
(* finally block cancels after every kind of failure.                      *)
StagingEndsClean ==
    \A a \in Adom :
        (\A c \in Container : lock[<<c, a>>] = Free) /\ a \notin left
        => context[a] = NoContext
=============================================================================
