-------------------------- MODULE ReleaseLifecycle --------------------------
(***************************************************************************)
(* What the Release controller promises about a Release (spec.md 4.3 and  *)
(* 4.4), with no reconcile passes, inventories or probes: a Release is     *)
(* active, then deleting, then gone; while it exists, objects named by a   *)
(* version of its spec come to carry its UID on the data plane and any     *)
(* object may be deleted; it is gone only when no object carries its UID.  *)
(* ReleaseReconciler is checked to implement this specification.           *)
(***************************************************************************)
EXTENDS FiniteSets, Functions

CONSTANTS
    Release,   \* Release objects (their UIDs)
    Obj,       \* data-plane object identities
    Specs      \* [Release -> the resource lists a Release's spec may hold]

VARIABLES
    phase,     \* [Release -> {"active", "deleting", "gone"}]
    desired,   \* the Release's current spec
    owned      \* [Release -> objects carrying the Release's UID label]

vars == <<phase, desired, owned>>

\* the objects some version of r's spec names
Objects(r) == UNION {Range(s) : s \in Specs[r]}

Init ==
    /\ phase = [r \in Release |-> "active"]
    /\ desired \in {f \in [Release -> UNION {Specs[r] : r \in Release}] :
                       \A r \in Release : f[r] \in Specs[r]}
    /\ owned = [r \in Release |-> {}]

\* a user writes a new spec (a new generation)
Edit(r) ==
    /\ phase[r] # "gone"
    /\ \E s \in Specs[r] \ {desired[r]} : desired' = [desired EXCEPT ![r] = s]
    /\ UNCHANGED <<phase, owned>>

\* an object of one of r's spec versions is applied with r's labels; an
\* object another Release labelled changes hands
Place(r, o) ==
    /\ phase[r] # "gone" /\ o \in Objects(r)
    /\ owned' = [x \in Release |-> IF x = r THEN owned[x] \cup {o}
                                   ELSE owned[x] \ {o}]
    /\ UNCHANGED <<phase, desired>>

\* an object disappears from the data plane
Remove(r, o) ==
    /\ o \in owned[r]
    /\ owned' = [owned EXCEPT ![r] = @ \ {o}]
    /\ UNCHANGED <<phase, desired>>

\* a user deletes the Release; with nothing on the data plane it may go
\* at once (no finalizer had been added yet)
Delete(r) ==
    /\ phase[r] = "active"
    /\ \/ phase' = [phase EXCEPT ![r] = "deleting"]
       \/ owned[r] = {} /\ phase' = [phase EXCEPT ![r] = "gone"]
    /\ UNCHANGED <<desired, owned>>

\* the Release object goes away: only once nothing carries its UID
Vanish(r) ==
    /\ phase[r] = "deleting" /\ owned[r] = {}
    /\ phase' = [phase EXCEPT ![r] = "gone"]
    /\ UNCHANGED <<desired, owned>>

Next ==
    \E r \in Release :
        \/ Edit(r) \/ Delete(r) \/ Vanish(r)
        \/ \E o \in Obj : Place(r, o) \/ Remove(r, o)

\* a deleted Release whose objects are gone does not linger forever
Spec == Init /\ [][Next]_vars /\ \A r \in Release : WF_vars(Vanish(r))

TypeOK ==
    /\ phase \in [Release -> {"active", "deleting", "gone"}]
    /\ \A r \in Release : desired[r] \in Specs[r]
    /\ owned \in [Release -> SUBSET Obj]
=============================================================================
