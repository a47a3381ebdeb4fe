\* Every render over the bounded inputs: each trait context Render builds
\* follows the parameter precedence of spec 4.1.
CONSTANTS
    v1 = v1  v2 = v2  t1 = t1  t2 = t2  i1 = i1  i2 = i2
    Nil = Nil
    Absent = Absent
    Malformed = Malformed
    None = None
    Leaf <- MC_Leaf
    Truthy <- MC_Truthy
    Traits <- MC_Traits
    Instances <- MC_Instances
    Deployments <- MC_Deployments
    Metadata <- MC_Metadata
    CompParams <- MC_CompParams
    CTypes <- MC_CTypes
    TraitSpecs <- MC_TraitSpecs
    MetaLabels <- MC_MetaLabels
    Primary <- MC_Primary
    KindRank <- MC_KindRank
    NameRank <- MC_NameRank
SPECIFICATION Spec
\* a render ends with its output or its first error
CHECK_DEADLOCK FALSE
INVARIANT ParametersFollowPrecedence
