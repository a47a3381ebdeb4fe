---------------------------- MODULE MC_McpTools ----------------------------
EXTENDS McpTools

\* Two calls: enough to reach every tool after any registration.
MC_MaxCalls == 2

=============================================================================
