\* One Release through spec edits, a failed invocation, deletion and
\* finalization: the inventory-based guarantees and termination.
CONSTANTS
    r1 = r1  r2 = r2  a = a  b = b
    cm1 = cm1  wid1 = wid1  cm2 = cm2  wid2 = wid2
    Release <- MC_Release
    ID <- MC_ID
    Obj <- MC_Obj
    KindOf <- MC_KindOf
    NsOf <- MC_NsOf
    WellKnown <- MC_WellKnown
    Specs <- MC_Specs
    SelfFinalized <- MC_SelfFinalized
    MaxSpecChanges = 3
    MaxAborts = 1
    MaxListFaults = 0
SPECIFICATION Spec
\* a deleted Release whose objects are all gone has nothing left to do
CHECK_DEADLOCK FALSE
INVARIANT TypeOK
INVARIANT RecordedCleanup
PROPERTY NoKindForgotten
PROPERTY Converges
PROPERTY FinalizationCompletes
