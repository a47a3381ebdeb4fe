\* Every subset of toolsets, then up to two tool calls.
CONSTANTS
    MaxCalls <- MC_MaxCalls
SPECIFICATION Spec
INVARIANT NoNilToolsetCall
CHECK_DEADLOCK FALSE
