\* Two Releases sharing the data plane and reusing the same resource IDs,
\* through a spec edit each, deletion and finalization, with reliable API
\* calls and no data-plane finalizers (the settings under which findings
\* 1-3 do not arise), both racing to create one namespace: each worker
\* leaves no stale ID behind a pass, both Releases converge, and the
\* reconciler refines ReleaseLifecycle.
CONSTANTS
    r1 = r1  r2 = r2  a = a  b = b
    cm1 = cm1  wid1 = wid1  cm2 = cm2  wid2 = wid2
    Release <- MC_Release2
    ID <- MC_ID
    Obj <- MC_Obj2
    KindOf <- MC_KindOf
    NsOf <- MC_NsOf
    WellKnown <- MC_WellKnown
    Specs <- MC_Specs2
    SelfFinalized <- MC_NoSelfFinalized
    MaxSpecChanges = 1
    MaxAborts = 0
    MaxListFaults = 0
SPECIFICATION Spec
\* a deleted Release whose objects are all gone has nothing left to do
CHECK_DEADLOCK FALSE
PROPERTY StaleDeletedByPassEnd
PROPERTY LifecycleSpec
PROPERTY Converges
