--------------------------- MODULE MC_ComponentAPI ---------------------------
(***************************************************************************)
(* One organisation: projects p1 and p2, components c1 (p1) and c2 (p2)   *)
(* that exist and c3 that does not yet, environments dev and prod.  c1 has *)
(* a Workload created by the CLI under another name, a dev binding and a  *)
(* prod binding with a non-generated name; c2 has a dev binding.          *)
(***************************************************************************)
EXTENDS ComponentAPI

CONSTANTS p1, p2, c1, c2, c3, dev, prod, s1, s2, bx, Other, r1, r2, r3

MC_Project == {p1, p2}
MC_Comp == {c1, c2, c3}
MC_Env == {dev, prod}
MC_Kind == {"Service"}
MC_SpecVal == {s1, s2}
MC_WorkloadNames == {WorkloadName(c) : c \in MC_Comp} \cup {<<c1, "cli">>}
MC_BindingNames == {GenBindingName(c, e) : c \in MC_Comp, e \in MC_Env} \cup {bx}
MC_Req2 == {r1, r2}
MC_Req3 == {r1, r2, r3}

MC_InitComponents ==
    (c1 :> [project |-> p1, type |-> "Service"])
    @@ (c2 :> [project |-> p2, type |-> "Service"])
MC_InitWorkloads == <<c1, "cli">> :> [project |-> p1, comp |-> c1, rv |-> 1]
MC_InitBindings ==
    (<<"Service", GenBindingName(c1, dev)>> :>
        [project |-> p1, comp |-> c1, env |-> dev, spec |-> s1,
         state |-> "Active", rv |-> 1])
    @@ (<<"Service", bx>> :>
        [project |-> p1, comp |-> c1, env |-> prod, spec |-> s2,
         state |-> "Active", rv |-> 1])
    @@ (<<"Service", GenBindingName(c2, dev)>> :>
        [project |-> p2, comp |-> c2, env |-> dev, spec |-> s1,
         state |-> "Active", rv |-> 1])
MC_InitPipeline == {<<dev, prod>>}
MC_Pipelines == {MC_InitPipeline, {}}

CreateComponentReq(p, c) ==
    [op |-> "createComponent", project |-> p, comp |-> c, type |-> "Service"]
CreateWorkloadReq(p, c, o) ==
    [op |-> "createWorkload", project |-> p, comp |-> c,
     owner |-> [project |-> p, comp |-> o]]
PromoteReq(p, c, s, t) ==
    [op |-> "promote", project |-> p, comp |-> c, src |-> s, tgt |-> t]
UpdateBindingReq(p, c, b, st) ==
    [op |-> "updateBinding", project |-> p, comp |-> c, bname |-> b,
     state |-> st]

\* requests as the CLI and UI send them: a workload body owned by the
\* component in the path; c2's promotion creates its prod binding, and a
\* second copy of it is the retry of one answered 500
MC_Requests ==
    {CreateComponentReq(p1, c3), CreateWorkloadReq(p1, c1, c1),
     CreateWorkloadReq(p1, c3, c3), PromoteReq(p1, c1, dev, prod),
     PromoteReq(p2, c2, dev, prod),
     UpdateBindingReq(p1, c1, bx, "Suspend"),
     UpdateBindingReq(p1, c1, bx, "Paused")}

\* a component name that another project already uses
MC_RequestsCrossProject == {CreateComponentReq(p1, c2)}

\* a binding name of another component under c1's path
MC_RequestsForeignBinding ==
    {UpdateBindingReq(p1, c1, GenBindingName(c2, dev), "Undeploy")}

\* a workload body whose owner names another component
MC_RequestsForeignOwner == {CreateWorkloadReq(p1, c1, c2)}

=============================================================================
