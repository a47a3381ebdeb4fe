\* Three concurrent requests of well-formed clients, one transient fault.
CONSTANTS
    p1 = p1  p2 = p2  c1 = c1  c2 = c2  c3 = c3  dev = dev  prod = prod
    s1 = s1  s2 = s2  bx = bx  Other = Other  r1 = r1  r2 = r2  r3 = r3
    Project <- MC_Project
    Comp <- MC_Comp
    Env <- MC_Env
    Kind <- MC_Kind
    OtherType = Other
    SpecVal <- MC_SpecVal
    WorkloadNames <- MC_WorkloadNames
    BindingNames <- MC_BindingNames
    Req <- MC_Req3
    Requests <- MC_Requests
    InitComponents <- MC_InitComponents
    InitWorkloads <- MC_InitWorkloads
    InitBindings <- MC_InitBindings
    Pipelines <- MC_Pipelines
    InitPipeline <- MC_InitPipeline
    MaxFaults = 1
    MaxPipelineEdits = 1
SPECIFICATION Spec
\* the server stops once every request has been answered
CHECK_DEADLOCK FALSE
INVARIANT TypeOK
INVARIANT BindingUnique
INVARIANT WorkloadUnique
INVARIANT TypeResourceRefValid
INVARIANT PromoteResponseShowsTarget
