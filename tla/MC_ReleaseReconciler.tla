----------------------- MODULE MC_ReleaseReconciler -----------------------
(***************************************************************************)
(* Model values and definitions for checking ReleaseReconciler with TLC.   *)
(* cm is a ConfigMap (in the well-known catalogue), wid an object of a     *)
(* custom kind Widget that carries its own data-plane finalizer, so its    *)
(* deletion takes a while.  Every ID always names the same object.         *)
(***************************************************************************)
EXTENDS ReleaseReconciler

CONSTANTS r1, r2, a, b, cm1, wid1, cm2, wid2

MC_Release == {r1}
MC_Release2 == {r1, r2}
MC_ID == {a, b}
MC_Obj == {cm1, wid1}
MC_Obj2 == {cm1, wid1, cm2, wid2}
MC_KindOf == cm1 :> "ConfigMap" @@ wid1 :> "Widget"
             @@ cm2 :> "ConfigMap" @@ wid2 :> "Widget"
\* the ConfigMaps of both Releases live in one namespace, which both
\* Releases' workers ensure; the Widgets are cluster-scoped
MC_NsOf == cm1 :> "ns1" @@ wid1 :> "" @@ cm2 :> "ns1" @@ wid2 :> ""
MC_WellKnown == {"ConfigMap"}
MC_SelfFinalized == {wid1, wid2}

\* the desired lists a user moves r1 between: the ConfigMap alone, both,
\* the Widget alone (removing every ConfigMap from the spec)
SpecsOf(cm, wid) == {a :> cm, a :> cm @@ b :> wid, b :> wid}
MC_Specs == r1 :> SpecsOf(cm1, wid1)
MC_Specs2 == r1 :> SpecsOf(cm1, wid1) @@ r2 :> SpecsOf(cm2, wid2)
MC_NoSelfFinalized == {}

\* the Release lifecycle seen through the reconciler's state: gone once the
\* object no longer exists, deleting once it has a deletionTimestamp; the
\* objects it owns are those carrying its release-uid label
Lifecycle == INSTANCE ReleaseLifecycle WITH
    phase <- [r \in Release |-> IF ~exists[r] THEN "gone"
                               ELSE IF deleting[r] THEN "deleting"
                               ELSE "active"],
    desired <- spec,
    owned <- [r \in Release |-> Owned(r)]

\* The reconciler implements the lifecycle: every step of every pass,
\* finalization included, is a lifecycle step or leaves the lifecycle state
\* unchanged; above all the Release disappears only when no data-plane
\* object carries its UID, and a deleted Release with no objects left
\* eventually disappears.
LifecycleSpec == Lifecycle!Spec
=============================================================================
