------------------------- MODULE ReleaseReconciler -------------------------
(***************************************************************************)
(* The Release controller of internal/controller/release: one reconcile   *)
(* worker per Release applies the Release's desired resources to the data *)
(* plane with ownership labels, lists the live objects it owns over a set *)
(* of probed kinds, deletes the stale ones, records an inventory in       *)
(* status, and on deletion runs the finalizer protocol of                 *)
(* controller_finalize.go.                                                *)
(*                                                                         *)
(* A reconcile invocation is a sequence of blocking API calls, so it is   *)
(* split into steps (pc); user edits of the Release, other Releases'     *)
(* workers, crashes and the data plane's own finalizers interleave with   *)
(* them.  Invocations for one Release are serialised (controller-runtime *)
(* work queue), so each Release has exactly one worker.                   *)
(***************************************************************************)
EXTENDS Naturals, FiniteSets, Functions, TLC

CONSTANTS
    Release,        \* Release objects (their UIDs)
    ID,             \* resource IDs used in Release.Spec.Resources
    Obj,            \* data-plane object identities (GVK, namespace, name)
    KindOf,         \* [Obj -> Kinds]: the GVK of an object
    NsOf,           \* [Obj -> Namespaces \cup {""}]: "" when cluster-scoped
    WellKnown,      \* the hardcoded catalogue of findAllKnownGVKs
    Specs,          \* [Release -> set of spec resource lists (ID ~> Obj)]
    SelfFinalized,  \* objects carrying their own finalizers on the data plane
    MaxSpecChanges, \* bound on user edits of each Release's spec
    MaxAborts,      \* bound on failed or crashed reconcile invocations
    MaxListFaults   \* bound on per-GVK List errors

VARIABLES
    \* the Release object in the control plane
    spec,           \* Release.Spec.Resources as a function ID -> Obj
    deleting,       \* DeletionTimestamp is set
    finalizer,      \* DataPlaneCleanupFinalizer is present
    exists,         \* the Release object still exists
    inventory,      \* Release.Status.Resources: set of [id, obj]
    finalizingCond, \* the Finalizing status condition is set
    cleanupFailed,  \* the CleanupFailed status condition is set
    dirty,          \* the object changed since the worker's Get
    \* the data plane, shared by all Releases
    cluster,        \* present objects -> [rel, id, terminating]
    namespaces,     \* present namespaces -> the release-uid label they carry
    \* the per-Release reconcile worker
    pc, snapSpec, snapInv, toEnsure, toApply, live, toDelete,
    \* fault and edit budgets
    specChanges, aborts, listFaults

releaseVars == <<spec, deleting, finalizer, exists, inventory,
                 finalizingCond, cleanupFailed, dirty>>
workerVars  == <<pc, snapSpec, snapInv, toEnsure, toApply, live, toDelete>>
budgetVars  == <<specChanges, aborts, listFaults>>
vars == <<releaseVars, cluster, namespaces, workerVars, budgetVars>>

Kinds == Range(KindOf)
Label == [rel : Release, id : ID, terminating : BOOLEAN]
PC == {"idle", "ns", "nsCreate", "apply", "delete", "finList", "finDelete"}

(***************************************************************************)
(* Helpers over the Release spec and the data plane.                       *)
(***************************************************************************)
\* makeDesiredResources: one (ID, object) entry per spec resource
Entries(f) == {[id |-> i, obj |-> f[i]] : i \in DOMAIN f}
DesiredIDs(f) == DOMAIN f
KindsOf(entries) == {KindOf[e.obj] : e \in entries}

\* objects on the data plane labelled with release-uid = r
Owned(r) == {o \in DOMAIN cluster : cluster[o].rel = r}

\* the objects whose own data-plane finalizers are still running
Terminating == {o \in DOMAIN cluster : cluster[o].terminating}

(***************************************************************************)
(* Mutants (plausible bugs of the code); each is used only by a mutant run.*)
(***************************************************************************)
\* stale detection only among kinds that are still desired
findStaleResourcesSameKind(r, liveObjs, f) ==
    {o \in liveObjs : cluster[o].id \notin DesiredIDs(f)
                      /\ KindOf[o] \in KindsOf(Entries(f))}
\* the label selector matches managed-by only, not the release UID
listLiveResourcesByGVKsAnyRelease(r, gvks, failed) ==
    {o \in DOMAIN cluster : KindOf[o] \in gvks \ failed}

\* mutant: the probe set forgets the kinds of the status inventory
findAllKnownGVKsDesiredOnly(desiredKinds, appliedKinds) == desiredKinds

\* mutant: the namespaces of the desired resources are never ensured
makeDesiredNamespacesNone(f) == {}

\* makeDesiredNamespaces: the non-empty namespaces of the desired objects
makeDesiredNamespaces(f) == {NsOf[f[i]] : i \in DOMAIN f} \ {""}

(***************************************************************************)
(* findAllKnownGVKs: the union of the desired kinds and the kinds in the   *)
(* status inventory.  The well-known catalogue is added to gvkSet only     *)
(* after the returned slice has been built, so it is never probed.         *)
(***************************************************************************)
findAllKnownGVKs(desiredKinds, appliedKinds) == desiredKinds \cup appliedKinds

\* listLiveResourcesByGVKs: objects of r of the probed kinds; a List error
\* for a GVK is logged and that GVK skipped ("continue")
listLiveResourcesByGVKs(r, gvks, failed) ==
    {o \in Owned(r) : KindOf[o] \in gvks \ failed}

\* findStaleResources: live objects whose resource-ID label is not desired
findStaleResources(r, liveObjs, f) ==
    {o \in liveObjs : cluster[o].id \notin DesiredIDs(f)}

\* mutant: the applied object lacks the resource-ID tracking label
ApplyObjNoIDLabel(r, e) ==
    cluster' = (e.obj :> [rel |-> r,
                          terminating |-> e.obj \in Terminating]) @@ cluster

(***************************************************************************)
(* Server-side apply with ForceOwnership: creates the object or takes its  *)
(* labels over; an object already being deleted stays terminating.         *)
(***************************************************************************)
ApplyObj(r, e) ==
    cluster' = (e.obj :> [rel |-> r, id |-> e.id,
                          terminating |-> e.obj \in Terminating]) @@ cluster

\* Delete: an object with its own finalizers becomes terminating, any
\* other object disappears.
DeleteObj(o) ==
    cluster' = IF o \in SelfFinalized
               THEN [cluster EXCEPT ![o].terminating = TRUE]
               ELSE Restrict(cluster, DOMAIN cluster \ {o})

(***************************************************************************)
(* Reconcile entry: Get the Release, then one of the branches of           *)
(* Reconcile / ensureFinalizer / finalize.  The Get and the single Update  *)
(* of each branch are one step: the Update is optimistic, so a concurrent  *)
(* change makes it fail like a Get error, with no effect.                  *)
(***************************************************************************)
\* ensureFinalizer: add the finalizer and return so that it is persisted
EnsureFinalizer(r) ==
    /\ pc[r] = "idle" /\ exists[r] /\ ~deleting[r] /\ ~finalizer[r]
    /\ finalizer' = [finalizer EXCEPT ![r] = TRUE]
    /\ dirty' = [dirty EXCEPT ![r] = FALSE]
    /\ UNCHANGED <<spec, deleting, exists, inventory, finalizingCond,
                   cleanupFailed, cluster, namespaces, workerVars, budgetVars>>

\* the step after ensuring a namespace: the next one, or PHASE 1
AfterNamespace(rest) == IF rest = {} THEN "apply" ELSE "ns"

\* getDPClient, makeDesiredResources and makeDesiredNamespaces: take the
\* snapshot the rest of the pass works from
BeginApply(r) ==
    /\ pc[r] = "idle" /\ exists[r] /\ ~deleting[r] /\ finalizer[r]
    /\ LET nss == makeDesiredNamespaces(spec[r])
       IN /\ toEnsure' = [toEnsure EXCEPT ![r] = nss]
          /\ pc' = [pc EXCEPT ![r] = AfterNamespace(nss)]
    /\ snapSpec' = [snapSpec EXCEPT ![r] = spec[r]]
    /\ snapInv' = [snapInv EXCEPT ![r] = inventory[r]]
    /\ toApply' = [toApply EXCEPT ![r] = Entries(spec[r])]
    /\ dirty' = [dirty EXCEPT ![r] = FALSE]
    /\ UNCHANGED <<spec, deleting, finalizer, exists, inventory,
                   finalizingCond, cleanupFailed, cluster, namespaces, live,
                   toDelete, budgetVars>>

(***************************************************************************)
(* ensureNamespaces: Get each namespace; if it is missing, Create it with  *)
(* the Release's audit labels (release-uid among them).  Get and Create    *)
(* are separate calls, so another Release may create it in between; the   *)
(* Create then fails with AlreadyExists, which counts as success.          *)
(***************************************************************************)
EnsureNsGet(r) ==
    /\ pc[r] = "ns"
    /\ LET n == CHOOSE x \in toEnsure[r] : TRUE
       IN IF n \in DOMAIN namespaces
          THEN /\ toEnsure' = [toEnsure EXCEPT ![r] = @ \ {n}]
               /\ pc' = [pc EXCEPT ![r] = AfterNamespace(toEnsure'[r])]
          ELSE /\ pc' = [pc EXCEPT ![r] = "nsCreate"]
               /\ UNCHANGED toEnsure
    /\ UNCHANGED <<releaseVars, cluster, namespaces, snapSpec, snapInv,
                   toApply, live, toDelete, budgetVars>>

EnsureNsCreate(r) ==
    /\ pc[r] = "nsCreate"
    /\ LET n == CHOOSE x \in toEnsure[r] : TRUE
       IN /\ namespaces' = IF n \in DOMAIN namespaces THEN namespaces
                           ELSE (n :> r) @@ namespaces
          /\ toEnsure' = [toEnsure EXCEPT ![r] = @ \ {n}]
          /\ pc' = [pc EXCEPT ![r] = AfterNamespace(toEnsure'[r])]
    /\ UNCHANGED <<releaseVars, cluster, snapSpec, snapInv, toApply, live,
                   toDelete, budgetVars>>

\* finalize STEP 1: set the Finalizing condition and return
SetFinalizing(r) ==
    /\ pc[r] = "idle" /\ exists[r] /\ deleting[r] /\ finalizer[r]
    /\ ~finalizingCond[r]
    /\ finalizingCond' = [finalizingCond EXCEPT ![r] = TRUE]
    /\ dirty' = [dirty EXCEPT ![r] = FALSE]
    /\ UNCHANGED <<spec, deleting, finalizer, exists, inventory,
                   cleanupFailed, cluster, namespaces, workerVars, budgetVars>>

\* finalize STEP 2: the condition is already set; get the data-plane client
BeginFinalize(r) ==
    /\ pc[r] = "idle" /\ exists[r] /\ deleting[r] /\ finalizer[r]
    /\ finalizingCond[r]
    /\ pc' = [pc EXCEPT ![r] = "finList"]
    /\ snapSpec' = [snapSpec EXCEPT ![r] = spec[r]]
    /\ snapInv' = [snapInv EXCEPT ![r] = inventory[r]]
    /\ dirty' = [dirty EXCEPT ![r] = FALSE]
    /\ UNCHANGED <<spec, deleting, finalizer, exists, inventory,
                   finalizingCond, cleanupFailed, cluster, namespaces,
                   toEnsure, toApply, live, toDelete, budgetVars>>

(***************************************************************************)
(* PHASE 1: applyResources, one Patch per desired resource, in order.      *)
(***************************************************************************)
\* a Patch into a namespace that does not exist fails with NotFound
ApplyOne(r) ==
    /\ pc[r] = "apply" /\ toApply[r] # {}
    /\ LET e == CHOOSE x \in toApply[r] : TRUE
       IN IF NsOf[e.obj] \in {""} \cup DOMAIN namespaces
          THEN /\ ApplyObj(r, e)
               /\ toApply' = [toApply EXCEPT ![r] = @ \ {e}]
               /\ UNCHANGED pc
          ELSE /\ pc' = [pc EXCEPT ![r] = "idle"]
               /\ UNCHANGED <<cluster, toApply>>
    /\ UNCHANGED <<releaseVars, namespaces, snapSpec, snapInv, toEnsure,
                   live, toDelete, budgetVars>>

(***************************************************************************)
(* PHASE 2 and 3: list the live objects of the probed kinds and compute    *)
(* the stale ones.  Any subset of the GVK Lists may fail and be skipped.   *)
(***************************************************************************)
ListLive(r) ==
    /\ pc[r] = "apply" /\ toApply[r] = {}
    /\ LET gvks == findAllKnownGVKs(KindsOf(Entries(snapSpec[r])),
                                    KindsOf(snapInv[r]))
       IN \E failed \in SUBSET gvks :
            /\ failed # {} => listFaults < MaxListFaults
            /\ listFaults' = IF failed = {} THEN listFaults
                             ELSE listFaults + 1
            /\ LET objs == listLiveResourcesByGVKs(r, gvks, failed)
               IN /\ live' = [live EXCEPT ![r] = objs]
                  /\ toDelete' = [toDelete EXCEPT ![r] =
                                    findStaleResources(r, objs, snapSpec[r])]
    /\ pc' = [pc EXCEPT ![r] = "delete"]
    /\ UNCHANGED <<releaseVars, cluster, namespaces, snapSpec, snapInv,
                   toEnsure, toApply, specChanges, aborts>>

\* deleteResources, steady state and finalize STEP 4; deleting an object
\* that is already gone returns NotFound and fails the invocation
DeleteOne(r) ==
    /\ pc[r] \in {"delete", "finDelete"} /\ toDelete[r] # {}
    /\ LET o == CHOOSE x \in toDelete[r] : TRUE
       IN IF o \in DOMAIN cluster
          THEN /\ DeleteObj(o)
               /\ toDelete' = [toDelete EXCEPT ![r] = @ \ {o}]
               /\ UNCHANGED <<pc, cleanupFailed>>
          ELSE /\ pc' = [pc EXCEPT ![r] = "idle"]
               /\ cleanupFailed' = [cleanupFailed EXCEPT ![r] =
                                      @ \/ pc[r] = "finDelete"]
               /\ UNCHANGED <<cluster, toDelete>>
    /\ UNCHANGED <<spec, deleting, finalizer, exists, inventory,
                   finalizingCond, dirty, namespaces, snapSpec, snapInv,
                   toEnsure, toApply, live, budgetVars>>

\* mutant: the inventory is appended to instead of replaced
UpdateStatusAppend(r) ==
    /\ pc[r] = "delete" /\ toDelete[r] = {}
    /\ inventory' = [inventory EXCEPT ![r] = @ \cup Entries(snapSpec[r])]
    /\ pc' = [pc EXCEPT ![r] = "idle"]
    /\ UNCHANGED <<spec, deleting, finalizer, exists, finalizingCond,
                   cleanupFailed, dirty, cluster, namespaces, snapSpec,
                   snapInv, toEnsure, toApply, live, toDelete, budgetVars>>

(***************************************************************************)
(* PHASE 4: updateStatus records the inventory of the snapshot's desired   *)
(* resources; the invocation then returns (requeue after an interval).     *)
(***************************************************************************)
UpdateStatus(r) ==
    /\ pc[r] = "delete" /\ toDelete[r] = {}
    /\ inventory' = [inventory EXCEPT ![r] = Entries(snapSpec[r])]
    /\ pc' = [pc EXCEPT ![r] = "idle"]
    /\ UNCHANGED <<spec, deleting, finalizer, exists, finalizingCond,
                   cleanupFailed, dirty, cluster, namespaces, snapSpec,
                   snapInv, toEnsure, toApply, live, toDelete, budgetVars>>

(***************************************************************************)
(* finalize STEP 3: list with an empty desired set, so everything listed   *)
(* is deleted.                                                             *)
(***************************************************************************)
FinList(r) ==
    /\ pc[r] = "finList"
    /\ LET gvks == findAllKnownGVKs({}, KindsOf(snapInv[r]))
       IN \E failed \in SUBSET gvks :
            /\ failed # {} => listFaults < MaxListFaults
            /\ listFaults' = IF failed = {} THEN listFaults
                             ELSE listFaults + 1
            /\ LET objs == listLiveResourcesByGVKs(r, gvks, failed)
               IN /\ live' = [live EXCEPT ![r] = objs]
                  /\ toDelete' = [toDelete EXCEPT ![r] = objs]
    /\ pc' = [pc EXCEPT ![r] = "finDelete"]
    /\ UNCHANGED <<releaseVars, cluster, namespaces, snapSpec, snapInv,
                   toEnsure, toApply, specChanges, aborts>>

\* mutant: the finalizer is removed right after the delete calls return
FinCheckNoRequeue(r) ==
    /\ pc[r] = "finDelete" /\ toDelete[r] = {}
    /\ pc' = [pc EXCEPT ![r] = "idle"]
    /\ IF ~dirty[r]
       THEN /\ finalizer' = [finalizer EXCEPT ![r] = FALSE]
            /\ exists' = [exists EXCEPT ![r] = FALSE]
       ELSE UNCHANGED <<finalizer, exists>>
    /\ UNCHANGED <<spec, deleting, inventory, finalizingCond, cleanupFailed,
                   dirty, cluster, namespaces, snapSpec, snapInv, toEnsure,
                   toApply, live, toDelete, budgetVars>>

\* mutant: requeue while the status inventory is non-empty
FinCheckByInventory(r) ==
    /\ pc[r] = "finDelete" /\ toDelete[r] = {}
    /\ pc' = [pc EXCEPT ![r] = "idle"]
    /\ IF snapInv[r] = {} /\ ~dirty[r]
       THEN /\ finalizer' = [finalizer EXCEPT ![r] = FALSE]
            /\ exists' = [exists EXCEPT ![r] = FALSE]
       ELSE UNCHANGED <<finalizer, exists>>
    /\ UNCHANGED <<spec, deleting, inventory, finalizingCond, cleanupFailed,
                   dirty, cluster, namespaces, snapSpec, snapInv, toEnsure,
                   toApply, live, toDelete, budgetVars>>

(***************************************************************************)
(* finalize STEP 5 and 6: requeue while anything was listed, otherwise     *)
(* remove the finalizer; the Update conflicts if the Release changed since *)
(* the Get.  Without finalizers the deleted Release disappears.            *)
(***************************************************************************)
FinCheck(r) ==
    /\ pc[r] = "finDelete" /\ toDelete[r] = {}
    /\ pc' = [pc EXCEPT ![r] = "idle"]
    /\ IF live[r] = {} /\ ~dirty[r]
       THEN /\ finalizer' = [finalizer EXCEPT ![r] = FALSE]
            /\ exists' = [exists EXCEPT ![r] = FALSE]
       ELSE UNCHANGED <<finalizer, exists>>
    /\ UNCHANGED <<spec, deleting, inventory, finalizingCond, cleanupFailed,
                   dirty, cluster, namespaces, snapSpec, snapInv, toEnsure,
                   toApply, live, toDelete, budgetVars>>

(***************************************************************************)
(* Any API call of a pass may fail, or the controller may crash: the       *)
(* invocation ends and the work queue retries it.  In finalize the error   *)
(* is recorded as CleanupFailed (that status write may fail too).          *)
(***************************************************************************)
Abort(r) ==
    /\ pc[r] # "idle" /\ aborts < MaxAborts
    /\ aborts' = aborts + 1
    /\ pc' = [pc EXCEPT ![r] = "idle"]
    /\ \E rec \in BOOLEAN :
          cleanupFailed' = [cleanupFailed EXCEPT ![r] =
                              @ \/ (rec /\ pc[r] \in {"finList", "finDelete"})]
    /\ UNCHANGED <<spec, deleting, finalizer, exists, inventory,
                   finalizingCond, dirty, cluster, namespaces, snapSpec,
                   snapInv, toEnsure, toApply, live, toDelete, specChanges,
                   listFaults>>

(***************************************************************************)
(* The environment: users edit or delete the Release; objects with their   *)
(* own finalizers eventually disappear.                                    *)
(***************************************************************************)
EditSpec(r) ==
    /\ exists[r] /\ specChanges[r] < MaxSpecChanges
    /\ \E s \in Specs[r] \ {spec[r]} : spec' = [spec EXCEPT ![r] = s]
    /\ specChanges' = [specChanges EXCEPT ![r] = @ + 1]
    /\ dirty' = [dirty EXCEPT ![r] = TRUE]
    /\ UNCHANGED <<deleting, finalizer, exists, inventory, finalizingCond,
                   cleanupFailed, cluster, namespaces, workerVars, aborts,
                   listFaults>>

DeleteRelease(r) ==
    /\ exists[r] /\ ~deleting[r]
    /\ deleting' = [deleting EXCEPT ![r] = TRUE]
    /\ exists' = [exists EXCEPT ![r] = finalizer[r]]
    /\ dirty' = [dirty EXCEPT ![r] = TRUE]
    /\ UNCHANGED <<spec, finalizer, inventory, finalizingCond, cleanupFailed,
                   cluster, namespaces, workerVars, budgetVars>>

ObjFinalized(o) ==
    /\ o \in Terminating
    /\ cluster' = Restrict(cluster, DOMAIN cluster \ {o})
    /\ UNCHANGED <<releaseVars, namespaces, workerVars, budgetVars>>

-----------------------------------------------------------------------------
Init ==
    /\ spec \in {f \in [Release -> UNION {Specs[r] : r \in Release}] :
                    \A r \in Release : f[r] \in Specs[r]}
    /\ deleting = [r \in Release |-> FALSE]
    /\ finalizer = [r \in Release |-> FALSE]
    /\ exists = [r \in Release |-> TRUE]
    /\ inventory = [r \in Release |-> {}]
    /\ finalizingCond = [r \in Release |-> FALSE]
    /\ cleanupFailed = [r \in Release |-> FALSE]
    /\ dirty = [r \in Release |-> FALSE]
    /\ cluster = [o \in {} |-> CHOOSE l \in Label : TRUE]
    /\ namespaces = [n \in {} |-> CHOOSE x \in Release : TRUE]
    /\ pc = [r \in Release |-> "idle"]
    /\ snapSpec = spec
    /\ snapInv = [r \in Release |-> {}]
    /\ toEnsure = [r \in Release |-> {}]
    /\ toApply = [r \in Release |-> {}]
    /\ live = [r \in Release |-> {}]
    /\ toDelete = [r \in Release |-> {}]
    /\ specChanges = [r \in Release |-> 0]
    /\ aborts = 0
    /\ listFaults = 0

\* the reconcile worker of r: every step of one invocation
Worker(r) ==
    \/ EnsureFinalizer(r) \/ BeginApply(r) \/ SetFinalizing(r)
    \/ BeginFinalize(r) \/ EnsureNsGet(r) \/ EnsureNsCreate(r) \/ ApplyOne(r) \/ ListLive(r) \/ DeleteOne(r)
    \/ UpdateStatus(r) \/ FinList(r) \/ FinCheck(r)

Next ==
    \/ \E r \in Release : Worker(r) \/ Abort(r) \/ EditSpec(r)
                          \/ DeleteRelease(r)
    \/ \E o \in Obj : ObjFinalized(o)

\* The work queue keeps reconciling every existing Release: Reconcile ends
\* with RequeueAfter set to the stable or progressing interval (default 5m),
\* an error is retried with backoff, a status write and every edit of the
\* Release trigger a new pass, and finalize requeues after 5s.  This assumes
\* a non-zero interval: with spec.interval 0 a Release whose pass succeeded
\* is reconciled again only on an edit.  Data-plane finalizers finish.
Fairness ==
    /\ \A r \in Release : WF_vars(Worker(r))
    /\ \A o \in Obj : WF_vars(ObjFinalized(o))

Spec == Init /\ [][Next]_vars /\ Fairness

-----------------------------------------------------------------------------
TypeOK ==
    /\ \A r \in Release : spec[r] \in Specs[r] /\ snapSpec[r] \in Specs[r]
    /\ deleting \in [Release -> BOOLEAN]
    /\ finalizer \in [Release -> BOOLEAN]
    /\ exists \in [Release -> BOOLEAN]
    /\ inventory \in [Release -> SUBSET [id : ID, obj : Obj]]
    /\ finalizingCond \in [Release -> BOOLEAN]
    /\ cleanupFailed \in [Release -> BOOLEAN]
    /\ dirty \in [Release -> BOOLEAN]
    /\ DOMAIN cluster \subseteq Obj
    /\ \A o \in DOMAIN cluster : cluster[o] \in Label
    /\ DOMAIN namespaces \subseteq Range(NsOf) \ {""}
    /\ \A n \in DOMAIN namespaces : namespaces[n] \in Release
    /\ toEnsure \in [Release -> SUBSET (Range(NsOf) \ {""})]
    /\ pc \in [Release -> PC]
    /\ snapInv \in [Release -> SUBSET [id : ID, obj : Obj]]
    /\ toApply \in [Release -> SUBSET [id : ID, obj : Obj]]
    /\ live \in [Release -> SUBSET Obj]
    /\ toDelete \in [Release -> SUBSET Obj]
    /\ specChanges \in [Release -> 0..MaxSpecChanges]
    /\ aborts \in 0..MaxAborts
    /\ listFaults \in 0..MaxListFaults

(***************************************************************************)
(* Finalization completeness as spec 4.4 states it: the finalizer is       *)
(* removed only when no data-plane object carries the Release's UID, not   *)
(* even one still terminating (controller_finalize.go STEP 5/6).           *)
(***************************************************************************)
CleanupComplete ==
    \A r \in Release : ~exists[r] => Owned(r) = {}

(***************************************************************************)
(* What finalize does guarantee with reliable API calls: once the Release  *)
(* is gone, every object that carries its UID has at least been deleted.   *)
(***************************************************************************)
NothingLeftLive ==
    \A r \in Release : ~exists[r] => Owned(r) \subseteq Terminating

(***************************************************************************)
(* Under crashes and API errors the finalizer is still never removed while *)
(* an object of a kind recorded in the status inventory survives, not even *)
(* a terminating one: finalize re-lists the inventory kinds until empty.   *)
(***************************************************************************)
RecordedCleanup ==
    \A r \in Release : ~exists[r] =>
        \A o \in Owned(r) : KindOf[o] \notin KindsOf(inventory[r])

(***************************************************************************)
(* Cross-kind garbage collection: when updateStatus overwrites the         *)
(* inventory, no live object of a kind that drops out of the inventory is  *)
(* left behind un-deleted; otherwise no later pass would ever probe it.    *)
(***************************************************************************)
NoKindForgotten ==
    [][\A r \in Release : \A o \in Owned(r) :
         KindOf[o] \in KindsOf(inventory[r]) \ KindsOf(inventory'[r])
            => o \in Terminating]_inventory

(***************************************************************************)
(* Stale-set correctness and cross-kind GC (spec section 8): when a pass   *)
(* ends with updateStatus, every object carrying the Release's UID whose   *)
(* resource-ID is not in that pass's desired set has been deleted, even    *)
(* when every resource of its kind left the spec since the previous pass.  *)
(***************************************************************************)
StaleDeletedByPassEnd ==
    [][\A r \in Release :
         (pc[r] = "delete" /\ toDelete[r] = {} /\ pc'[r] = "idle") =>
            \A o \in Owned(r) :
                cluster[o].id \in DesiredIDs(snapSpec[r]) \/ o \in Terminating]_vars

\* among the kinds the spec uses, the data plane holds exactly the desired
\* objects, none being deleted, and the inventory records the spec
Converged(r) ==
    LET desiredKinds == KindsOf(Entries(spec[r]))
        ofKinds == {o \in Owned(r) : KindOf[o] \in desiredKinds}
    IN /\ {[id |-> cluster[o].id, obj |-> o] : o \in ofKinds}
            = Entries(spec[r])
       /\ ofKinds \cap Terminating = {}
       /\ inventory[r] = Entries(spec[r])

(***************************************************************************)
(* Level-triggered convergence: once users stop editing a Release that is *)
(* not being deleted, it eventually stays converged (stale IDs deleted,    *)
(* desired IDs applied and recorded) despite failed invocations.           *)
(***************************************************************************)
Converges ==
    \A r \in Release : <>[](deleting[r] \/ Converged(r))

(***************************************************************************)
(* The finalizer protocol terminates: a deleted Release eventually         *)
(* disappears, despite requeues while data-plane objects finish deleting.  *)
(***************************************************************************)
FinalizationCompletes ==
    \A r \in Release : deleting[r] ~> ~exists[r]
=============================================================================
