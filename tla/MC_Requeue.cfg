\* the requeue delay over the edge values of the interval fields
SPECIFICATION Spec
CONSTANTS
    W = 10
    Nil = Nil
    DefaultStable = 300
    DefaultProgressing = 10
    Intervals <- MC_Intervals
    MaxEdits = 1
INVARIANT RequeueMatchesSpec
