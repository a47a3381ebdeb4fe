------------------------------ MODULE McpTools ------------------------------
(***************************************************************************)
(* The MCP tool registration of pkg/mcp/tools.go and the calls a client    *)
(* makes to the registered tools.                                          *)
(*                                                                         *)
(* The server is built with one handler per enabled toolset and nil for    *)
(* the others (the MCP_TOOLSETS variable chooses them).  Toolsets.Register *)
(* walks the six toolsets in a fixed order and, for each one whose handler *)
(* is not nil, runs every function of its registration list; each such     *)
(* function adds one tool whose handler calls one toolset interface.  A    *)
(* tool added twice is replaced.  The model keeps, for every tool, only    *)
(* its name and the toolset its handler calls; input schemas and           *)
(* descriptions are left out.                                              *)
(***************************************************************************)
EXTENDS Naturals, Sequences, SequencesExt, Functions

CONSTANTS
    MaxCalls    \* bound on the tool calls a client makes

\* The toolsets a server may be built with (ToolsetType, tools.go 14-24).
Toolsets == {"organization", "project", "component", "build",
             "deployment", "infrastructure"}

(***************************************************************************)
(* The Register<Tool> functions: the name of the tool each one adds and    *)
(* the toolset whose handler interface that tool's handler calls.          *)
(***************************************************************************)
RegisterGetOrganization        == [name |-> "get_organization", calls |-> "organization"]
RegisterListProjects           == [name |-> "list_projects", calls |-> "project"]
RegisterGetProject             == [name |-> "get_project", calls |-> "project"]
RegisterCreateProject          == [name |-> "create_project", calls |-> "project"]
RegisterListComponents         == [name |-> "list_components", calls |-> "component"]
RegisterGetComponent           == [name |-> "get_component", calls |-> "component"]
RegisterComponentBinding       == [name |-> "get_component_binding", calls |-> "component"]
RegisterGetComponentObserverURL == [name |-> "get_component_observer_url", calls |-> "deployment"]
RegisterGetBuildObserverURL    == [name |-> "get_build_observer_url", calls |-> "build"]
RegisterGetComponentWorkloads  == [name |-> "get_component_workloads", calls |-> "component"]
RegisterListEnvironments       == [name |-> "list_environments", calls |-> "infrastructure"]
RegisterGetEnvironments        == [name |-> "get_environment", calls |-> "infrastructure"]
RegisterListDataPlanes         == [name |-> "list_dataplanes", calls |-> "infrastructure"]
RegisterGetDataPlane           == [name |-> "get_dataplane", calls |-> "infrastructure"]
RegisterListBuildTemplates     == [name |-> "list_build_templates", calls |-> "build"]
RegisterTriggerBuild           == [name |-> "trigger_build", calls |-> "build"]
RegisterListBuilds             == [name |-> "list_builds", calls |-> "build"]
RegisterListBuildPlanes        == [name |-> "list_buildplanes", calls |-> "build"]
RegisterGetDeploymentPipeline  == [name |-> "get_deployment_pipeline", calls |-> "deployment"]

\* The registration lists, one per toolset, in the code's order.
organizationToolRegistrations == << RegisterGetOrganization >>
projectToolRegistrations ==
    << RegisterGetOrganization, RegisterListProjects, RegisterGetProject,
       RegisterCreateProject >>
componentToolRegistrations ==
    << RegisterListComponents, RegisterGetComponent, RegisterComponentBinding,
       RegisterGetComponentWorkloads >>
buildToolRegistrations ==
    << RegisterListBuildTemplates, RegisterTriggerBuild, RegisterListBuilds,
       RegisterGetBuildObserverURL, RegisterListBuildPlanes >>
deploymentToolRegistrations ==
    << RegisterGetDeploymentPipeline, RegisterGetComponentObserverURL >>
infrastructureToolRegistrations ==
    << RegisterListEnvironments, RegisterGetEnvironments,
       RegisterListDataPlanes, RegisterGetDataPlane >>

\* Every tool name any registration function can add.
ToolNames ==
    { r.name : r \in ToSet(projectToolRegistrations \o componentToolRegistrations
                           \o buildToolRegistrations \o deploymentToolRegistrations
                           \o infrastructureToolRegistrations) }

\* The outcomes a client sees: the server has no such tool, the handler
\* dereferenced a nil toolset interface, the toolset returned an error, or
\* the tool returned its text result.
Outcomes == {"unknown", "panic", "error", "result"}

VARIABLES
    enabled,   \* the toolsets whose handler interface is not nil
    step,      \* the next if-block of Register to run (1..6, 7 = done)
    tools,     \* the server's tool table: tool name -> toolset its handler calls
    calls,     \* the tool calls made so far
    last       \* the last call and what the client got back

vars == << enabled, step, tools, calls, last >>

\* Register's if-blocks in the order they run, each with its list.
RegisterOrder ==
    << <<"organization", organizationToolRegistrations>>,
       <<"project", projectToolRegistrations>>,
       <<"component", componentToolRegistrations>>,
       <<"build", buildToolRegistrations>>,
       <<"deployment", deploymentToolRegistrations>>,
       <<"infrastructure", infrastructureToolRegistrations>> >>

\* mcp.AddTool: the new tool replaces one of the same name.
AddTool(table, reg) == (reg.name :> reg.calls) @@ table

\* handleToolResult: an error from the toolset is returned as the call's
\* error, anything else as the call's text content.
handleToolResult(err) == IF err THEN "error" ELSE "result"

TypeOK ==
    /\ enabled \subseteq Toolsets
    /\ step \in 1..(Len(RegisterOrder) + 1)
    /\ \E names \in SUBSET ToolNames : tools \in [names -> Toolsets]
    /\ calls \in 0..MaxCalls
    /\ last \in {<<>>} \cup (ToolNames \X Outcomes)

\* getMCPServerToolsets: MCP_TOOLSETS, split on commas with blanks and
\* unknown names dropped, enables any subset of the toolsets (all of them
\* when the variable is empty); the server starts with no tools.
Init ==
    /\ enabled \in SUBSET Toolsets
    /\ step = 1
    /\ tools = <<>>
    /\ calls = 0
    /\ last = <<>>

\* One if-block of Toolsets.Register: when the toolset's handler is not nil,
\* every function of its registration list adds its tool.
Register ==
    /\ step <= Len(RegisterOrder)
    /\ LET block == RegisterOrder[step]
       IN  tools' = IF block[1] \in enabled
                    THEN FoldLeft(AddTool, tools, block[2])
                    ELSE tools
    /\ step' = step + 1
    /\ UNCHANGED << enabled, calls, last >>

\* A client calls a tool by name once registration is done.  The handler
\* calls its toolset interface: a nil one panics, a present one returns a
\* result or an error, which handleToolResult passes on.
CallTool ==
    /\ step > Len(RegisterOrder)
    /\ calls < MaxCalls
    /\ \E name \in ToolNames, err \in BOOLEAN :
         last' = << name,
                    CASE name \notin DOMAIN tools   -> "unknown"
                      [] tools[name] \notin enabled -> "panic"
                      [] OTHER -> handleToolResult(err) >>
    /\ calls' = calls + 1
    /\ UNCHANGED << enabled, step, tools >>

Next == Register \/ CallTool

Spec == Init /\ [][Next]_vars

(***************************************************************************)
(* No call reaches a toolset that is not enabled: a tool is registered     *)
(* only when the toolset its handler calls was included, so no registered  *)
(* tool dereferences a nil toolset interface (the rule tools_test.go's     *)
(* TestPartialToolsetRegistration states for a partial MCP_TOOLSETS).      *)
(***************************************************************************)
NoNilToolsetCall ==
    last # <<>> => last[2] # "panic"

=============================================================================
