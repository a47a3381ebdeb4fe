---------------------------- MODULE ComponentAPI ----------------------------
(***************************************************************************)
(* The component API of internal/openchoreo-api: the ComponentService     *)
(* operations that write to the organisation's namespace of the control   *)
(* plane (CreateComponent, CreateComponentWorkload, PromoteComponent,      *)
(* UpdateComponentBinding) and the HTTP handlers that map their errors to  *)
(* status codes.                                                           *)
(*                                                                         *)
(* Every request runs in its own goroutine, so requests interleave; each   *)
(* blocking call to the API server (Get, List, Create, Update) is one      *)
(* step.  The API server keeps names unique per kind, and Update carries  *)
(* the resourceVersion of the object it was read with, so it fails with   *)
(* Conflict if the object changed since.                                   *)
(***************************************************************************)
EXTENDS Naturals, FiniteSets, Functions, TLC

CONSTANTS
    Project,          \* projects that exist (GetProject succeeds)
    Comp,             \* component names
    Env,              \* environment names
    Kind,             \* component types with a binding/resource kind
    OtherType,        \* a component type with none (the default branches)
    SpecVal,          \* binding workload specs, abstracted to values
    WorkloadNames,    \* names a Workload may have
    BindingNames,     \* names a binding may have
    Req,              \* concurrent requests
    Requests,         \* the request records a client may send
    InitComponents, InitWorkloads, InitBindings,
    Pipelines,        \* deployment pipelines: sets of <<source, target>>
    InitPipeline,
    MaxFaults,        \* bound on transient API-server errors
    MaxPipelineEdits  \* bound on concurrent edits of the pipeline

Null == "none"
Type == Kind \cup {OtherType}

VARIABLES
    \* the API server's objects in the organisation namespace
    components,   \* name -> [project, type]
    workloads,    \* name -> [project, comp, rv]
    typeRes,      \* <<comp, kind>> -> [project, comp, workload] (Service...)
    bindings,     \* <<kind, name>> -> [project, comp, env, spec, state, rv]
    pipeline,     \* the project's DeploymentPipeline promotion paths
    \* the request goroutines
    req, pc, loc, err,
    \* history: transient faults taken, bindings each request wrote
    faulted, wroteB,
    faults, pipelineEdits

storeVars == <<components, workloads, typeRes, bindings, pipeline>>
reqVars   == <<req, pc, loc, err, faulted, wroteB>>
vars == <<storeVars, reqVars, faults, pipelineEdits>>

Loc0 == [type |-> Null, wl |-> Null, wrv |-> 0, wname |-> Null,
         spec |-> Null, tb |-> Null, trv |-> 0, bv |-> Null, envs |-> {},
         resp |-> {}]

(***************************************************************************)
(* Helpers over the store, one per lookup the code performs.              *)
(***************************************************************************)
\* componentExists: found and owned by the project
componentExists(c, p) == c \in DOMAIN components /\ components[c].project = p

\* names the code generates: "<comp>-workload" and "<comp>-<env>"
WorkloadName(c) == <<c, "workload">>
GenBindingName(c, e) == <<c, e>>

\* get<Kind>BindingCR: List the kind in the namespace, match owner and env
getBindingCR(k, c, e) ==
    {b \in DOMAIN bindings : b[1] = k /\ bindings[b].comp = c
                             /\ bindings[b].env = e}

\* mutant: the target binding is looked up by its generated name only
findTargetBindingByName(k, c, e) ==
    {<<k, GenBindingName(c, e)>>} \cap DOMAIN bindings

findTargetBinding(k, c, e) == getBindingCR(k, c, e)

\* mutant: only the source environment of each path is collected
PipelineEnvsSourcesOnly(p) == {path[1] : path \in p}

\* getEnvironmentsFromDeploymentPipeline: the sources and the targets of
\* the promotion paths
PipelineEnvs(p) == {path[1] : path \in p} \cup {path[2] : path \in p}

\* getComponentBinding: the switch on the component's type, then
\* get<Kind>Binding; its response is abstracted to the binding it shows
getComponentBinding(k, c, e) == getBindingCR(k, c, e)

\* GetComponentBindings: with no environments given, those of the pipeline;
\* an environment without a binding (ErrBindingNotFound) is skipped
GetComponentBindings(k, c, envs) ==
    LET es == IF envs = {} THEN PipelineEnvs(pipeline) ELSE envs
    IN  UNION {getComponentBinding(k, c, e) : e \in es}

\* mutant: the workload is looked up by its generated name only
findWorkloadByName(c) == {WorkloadName(c)} \cap DOMAIN workloads

\* CreateComponentWorkload: List Workloads, match Owner.ComponentName
findWorkload(c) == {w \in DOMAIN workloads : workloads[w].comp = c}

\* mutant: the new type resource always names "<comp>-workload"
WrittenWorkloadNameFixed(c, wl) == WorkloadName(c)

\* the workload the type-specific resource refers to
WrittenWorkloadName(c, wl) == IF wl = Null THEN WorkloadName(c) ELSE wl

\* create<Kind>Resource: an existing one is matched on component and project
typeResourceExists(k, c, p) ==
    \E n \in DOMAIN typeRes : n[2] = k /\ typeRes[n].comp = c
                              /\ typeRes[n].project = p

\* mutant: the body is not validated
ValidReleaseStateAny(s) == TRUE

\* UpdateBindingRequest.Validate
ValidReleaseState(s) == s \in {"Active", "Suspend", "Undeploy"}

(***************************************************************************)
(* Handlers: the error a service call returned, as an HTTP status.        *)
(***************************************************************************)
CreateComponentStatus(e) ==
    CASE e = "ok" -> 201
      [] e = "ErrProjectNotFound" -> 404
      [] e = "ErrComponentAlreadyExists" -> 409
      [] OTHER -> 500

\* the handler tests ErrReleaseBindingNotFound, which the service never
\* returns; a missing source binding is ErrBindingNotFound
PromoteComponentStatus(e) ==
    CASE e = "ok" -> 200
      [] e \in {"ErrProjectNotFound", "ErrComponentNotFound",
                "ErrDeploymentPipelineNotFound",
                "ErrReleaseBindingNotFound"} -> 404
      [] e = "ErrInvalidPromotionPath" -> 400
      [] OTHER -> 500

UpdateComponentBindingStatus(e) ==
    CASE e = "ok" -> 200
      [] e = "ErrInvalidRequest" -> 400
      [] e \in {"ErrProjectNotFound", "ErrComponentNotFound",
                "ErrBindingNotFound"} -> 404
      [] OTHER -> 500

-----------------------------------------------------------------------------
Goto(r, p) == pc' = [pc EXCEPT ![r] = p]
Finish(r, e) == /\ pc' = [pc EXCEPT ![r] = "done"]
                /\ err' = [err EXCEPT ![r] = e]
SetLoc(r, l) == loc' = [loc EXCEPT ![r] = l]

(***************************************************************************)
(* CreateComponent: GetProject and componentExists, then Create.          *)
(***************************************************************************)
CreateComponentCheck(r) ==
    LET q == req[r] IN
    /\ pc[r] = "start" /\ q.op = "createComponent"
    /\ \/ q.project \notin Project /\ Finish(r, "ErrProjectNotFound")
       \/ q.project \in Project /\ componentExists(q.comp, q.project)
          /\ Finish(r, "ErrComponentAlreadyExists")
       \/ q.project \in Project /\ ~componentExists(q.comp, q.project)
          /\ Goto(r, "ccCreate") /\ UNCHANGED err
    /\ UNCHANGED <<storeVars, req, loc, faulted, wroteB, faults, pipelineEdits>>

\* createComponentResources: the Create fails if the name is taken,
\* by the same or by another project
createComponentResources(r) ==
    LET q == req[r] IN
    /\ pc[r] = "ccCreate"
    /\ \/ q.comp \in DOMAIN components /\ Finish(r, "ErrK8sAlreadyExists")
          /\ UNCHANGED components
       \/ q.comp \notin DOMAIN components /\ Finish(r, "ok")
          /\ components' = (q.comp :> [project |-> q.project, type |-> q.type])
                           @@ components
    /\ UNCHANGED <<workloads, typeRes, bindings, pipeline, req, loc, faulted,
                   wroteB, faults, pipelineEdits>>

(***************************************************************************)
(* CreateComponentWorkload                                                 *)
(***************************************************************************)
CreateComponentWorkloadCheck(r) ==
    LET q == req[r] IN
    /\ pc[r] = "start" /\ q.op = "createWorkload"
    /\ \/ q.project \notin Project /\ Finish(r, "ErrProjectNotFound")
          /\ UNCHANGED loc
       \/ q.project \in Project /\ ~componentExists(q.comp, q.project)
          /\ Finish(r, "ErrComponentNotFound") /\ UNCHANGED loc
       \/ q.project \in Project /\ componentExists(q.comp, q.project)
          /\ SetLoc(r, [loc[r] EXCEPT !.type = components[q.comp].type])
          /\ Goto(r, "cwList") /\ UNCHANGED err
    /\ UNCHANGED <<storeVars, req, faulted, wroteB, faults, pipelineEdits>>

CreateComponentWorkloadList(r) ==
    /\ pc[r] = "cwList"
    /\ LET found == findWorkload(req[r].comp) IN
       \/ found = {} /\ SetLoc(r, [loc[r] EXCEPT !.wl = Null])
       \/ \E w \in found :
             SetLoc(r, [loc[r] EXCEPT !.wl = w, !.wrv = workloads[w].rv])
    /\ Goto(r, "cwWrite")
    /\ UNCHANGED <<storeVars, req, err, faulted, wroteB, faults, pipelineEdits>>

\* Update the found workload with the request body as its whole Spec (its
\* owner included), or Create "<comp>-workload" with the owner forced
CreateComponentWorkloadWrite(r) ==
    LET q == req[r]
        wl == loc[r].wl
    IN
    /\ pc[r] = "cwWrite"
    /\ \/ /\ wl # Null /\ workloads[wl].rv = loc[r].wrv
          /\ workloads' = [workloads EXCEPT ![wl] =
                             [project |-> q.owner.project,
                              comp |-> q.owner.comp, rv |-> @.rv + 1]]
          /\ Goto(r, "cwType") /\ UNCHANGED err
       \/ /\ wl # Null /\ workloads[wl].rv # loc[r].wrv
          /\ Finish(r, "ErrK8sConflict") /\ UNCHANGED workloads
       \/ /\ wl = Null /\ WorkloadName(q.comp) \in DOMAIN workloads
          /\ Finish(r, "ErrK8sAlreadyExists") /\ UNCHANGED workloads
       \/ /\ wl = Null /\ WorkloadName(q.comp) \notin DOMAIN workloads
          /\ workloads' = (WorkloadName(q.comp) :>
                             [project |-> q.project, comp |-> q.comp, rv |-> 1])
                          @@ workloads
          /\ Goto(r, "cwType") /\ UNCHANGED err
    /\ SetLoc(r, [loc[r] EXCEPT !.wname = WrittenWorkloadName(q.comp, wl)])
    /\ UNCHANGED <<components, typeRes, bindings, pipeline, req, faulted,
                   wroteB, faults, pipelineEdits>>

\* createTypeSpecificResource and the List half of create<Kind>Resource
createTypeSpecificResource(r) ==
    LET q == req[r]
        k == loc[r].type
    IN
    /\ pc[r] = "cwType"
    /\ \/ k \notin Kind /\ Finish(r, "ok")
       \/ k \in Kind /\ typeResourceExists(k, q.comp, q.project)
          /\ Finish(r, "ok")
       \/ k \in Kind /\ ~typeResourceExists(k, q.comp, q.project)
          /\ Goto(r, "cwTypeCreate") /\ UNCHANGED err
    /\ UNCHANGED <<storeVars, req, loc, faulted, wroteB, faults, pipelineEdits>>

\* the Create half of create<Kind>Resource, named "<comp>-<kind suffix>"
createTypeResourceCreate(r) ==
    LET q == req[r]
        n == <<q.comp, loc[r].type>>
    IN
    /\ pc[r] = "cwTypeCreate"
    /\ \/ n \in DOMAIN typeRes /\ Finish(r, "ErrK8sAlreadyExists")
          /\ UNCHANGED typeRes
       \/ n \notin DOMAIN typeRes /\ Finish(r, "ok")
          /\ typeRes' = (n :> [project |-> q.project, comp |-> q.comp,
                               workload |-> loc[r].wname]) @@ typeRes
    /\ UNCHANGED <<components, workloads, bindings, pipeline, req, loc,
                   faulted, wroteB, faults, pipelineEdits>>

(***************************************************************************)
(* PromoteComponent                                                        *)
(***************************************************************************)
\* validatePromotionPath: GetProject, Get the pipeline, look for the path
validatePromotionPath(r) ==
    LET q == req[r] IN
    /\ pc[r] = "start" /\ q.op = "promote"
    /\ \/ q.project \notin Project /\ Finish(r, "ErrProjectNotFound")
       \/ q.project \in Project /\ <<q.src, q.tgt>> \notin pipeline
          /\ Finish(r, "ErrInvalidPromotionPath")
       \/ q.project \in Project /\ <<q.src, q.tgt>> \in pipeline
          /\ Goto(r, "prGetComp") /\ UNCHANGED err
    /\ UNCHANGED <<storeVars, req, loc, faulted, wroteB, faults, pipelineEdits>>

\* GetComponent, then the switch of createOrUpdateTargetBinding
PromoteGetComponent(r) ==
    LET q == req[r] IN
    /\ pc[r] = "prGetComp"
    /\ \/ ~componentExists(q.comp, q.project)
          /\ Finish(r, "ErrComponentNotFound") /\ UNCHANGED loc
       \/ componentExists(q.comp, q.project)
          /\ components[q.comp].type \notin Kind
          /\ Finish(r, "ErrUnsupportedType") /\ UNCHANGED loc
       \/ componentExists(q.comp, q.project)
          /\ components[q.comp].type \in Kind
          /\ SetLoc(r, [loc[r] EXCEPT !.type = components[q.comp].type])
          /\ Goto(r, "prSource") /\ UNCHANGED err
    /\ UNCHANGED <<storeVars, req, faulted, wroteB, faults, pipelineEdits>>

\* createOrUpdate<Kind>Binding: read the source binding
PromoteReadSource(r) ==
    LET q == req[r]
        src == getBindingCR(loc[r].type, q.comp, q.src)
    IN
    /\ pc[r] = "prSource"
    /\ \/ src = {} /\ Finish(r, "ErrBindingNotFound") /\ UNCHANGED loc
       \/ \E b \in src : /\ SetLoc(r, [loc[r] EXCEPT !.spec = bindings[b].spec])
                         /\ Goto(r, "prTarget") /\ UNCHANGED err
    /\ UNCHANGED <<storeVars, req, faulted, wroteB, faults, pipelineEdits>>

\* ... then look for a binding already in the target environment
PromoteReadTarget(r) ==
    LET q == req[r]
        tgt == findTargetBinding(loc[r].type, q.comp, q.tgt)
    IN
    /\ pc[r] = "prTarget"
    /\ \/ tgt = {} /\ SetLoc(r, [loc[r] EXCEPT !.tb = Null])
       \/ \E b \in tgt :
             SetLoc(r, [loc[r] EXCEPT !.tb = b, !.trv = bindings[b].rv])
    /\ Goto(r, "prWrite")
    /\ UNCHANGED <<storeVars, req, err, faulted, wroteB, faults, pipelineEdits>>

\* ... then Create "<comp>-<target>" or Update the found one; either way the
\* whole Spec is the source's, so ReleaseState is reset to its zero value
PromoteWrite(r) ==
    LET q == req[r]
        tb == loc[r].tb
        New(v) == [project |-> q.project, comp |-> q.comp, env |-> q.tgt,
                   spec |-> loc[r].spec, state |-> "", rv |-> v]
        key == <<loc[r].type, GenBindingName(q.comp, q.tgt)>>
    IN
    /\ pc[r] = "prWrite"
    /\ \/ /\ tb = Null /\ key \in DOMAIN bindings
          /\ Finish(r, "ErrK8sAlreadyExists") /\ UNCHANGED <<bindings, wroteB>>
       \/ /\ tb = Null /\ key \notin DOMAIN bindings
          /\ bindings' = (key :> New(1)) @@ bindings
          /\ wroteB' = [wroteB EXCEPT ![r] = @ \cup {key}]
          /\ Goto(r, "prEnvs") /\ UNCHANGED err
       \/ /\ tb # Null /\ bindings[tb].rv = loc[r].trv
          /\ bindings' = [bindings EXCEPT ![tb] = New(@.rv + 1)]
          /\ wroteB' = [wroteB EXCEPT ![r] = @ \cup {tb}]
          /\ Goto(r, "prEnvs") /\ UNCHANGED err
       \/ /\ tb # Null /\ bindings[tb].rv # loc[r].trv
          /\ Finish(r, "ErrK8sConflict") /\ UNCHANGED <<bindings, wroteB>>
    /\ UNCHANGED <<components, workloads, typeRes, pipeline, req, loc,
                   faulted, faults, pipelineEdits>>

\* after the write, the environments of the pipeline; an error of
\* getEnvironmentsFromDeploymentPipeline is logged and replaced by the
\* source and target of the request
PromoteEnvs(r) ==
    LET q == req[r] IN
    /\ pc[r] = "prEnvs"
    /\ \/ /\ SetLoc(r, [loc[r] EXCEPT !.envs = PipelineEnvs(pipeline)])
          /\ UNCHANGED <<faulted, faults>>
       \/ /\ faults < MaxFaults
          /\ faults' = faults + 1
          /\ faulted' = [faulted EXCEPT ![r] = TRUE]
          /\ SetLoc(r, [loc[r] EXCEPT !.envs = {q.src, q.tgt}])
    /\ Goto(r, "prRespond")
    /\ UNCHANGED <<storeVars, req, err, wroteB, pipelineEdits>>

\* GetComponentBindings for those environments (GetComponent finds the
\* component this request already found: components are never deleted);
\* its errors are transient faults, answered 500 after the write
PromoteRespond(r) ==
    LET q == req[r] IN
    /\ pc[r] = "prRespond"
    /\ SetLoc(r, [loc[r] EXCEPT !.resp =
                    GetComponentBindings(loc[r].type, q.comp, loc[r].envs)])
    /\ Finish(r, "ok")
    /\ UNCHANGED <<storeVars, req, faulted, wroteB, faults, pipelineEdits>>

(***************************************************************************)
(* UpdateComponentBinding                                                  *)
(***************************************************************************)
\* the handler validates the body before calling the service
UpdateComponentBindingValidate(r) ==
    /\ pc[r] = "start" /\ req[r].op = "updateBinding"
    /\ \/ ~ValidReleaseState(req[r].state) /\ Finish(r, "ErrInvalidRequest")
       \/ ValidReleaseState(req[r].state) /\ Goto(r, "ubCheck")
          /\ UNCHANGED err
    /\ UNCHANGED <<storeVars, req, loc, faulted, wroteB, faults, pipelineEdits>>

\* GetProject, componentExists and GetComponent, then the type switch
UpdateComponentBindingCheck(r) ==
    LET q == req[r] IN
    /\ pc[r] = "ubCheck"
    /\ \/ q.project \notin Project /\ Finish(r, "ErrProjectNotFound")
          /\ UNCHANGED loc
       \/ q.project \in Project /\ ~componentExists(q.comp, q.project)
          /\ Finish(r, "ErrComponentNotFound") /\ UNCHANGED loc
       \/ q.project \in Project /\ componentExists(q.comp, q.project)
          /\ components[q.comp].type \notin Kind
          /\ Finish(r, "ErrUnsupportedType") /\ UNCHANGED loc
       \/ q.project \in Project /\ componentExists(q.comp, q.project)
          /\ components[q.comp].type \in Kind
          /\ SetLoc(r, [loc[r] EXCEPT !.type = components[q.comp].type])
          /\ Goto(r, "ubGet") /\ UNCHANGED err
    /\ UNCHANGED <<storeVars, req, faulted, wroteB, faults, pipelineEdits>>

\* Get the binding of the component's kind by the name in the path
UpdateComponentBindingGet(r) ==
    LET key == <<loc[r].type, req[r].bname>> IN
    /\ pc[r] = "ubGet"
    /\ \/ key \notin DOMAIN bindings /\ Finish(r, "ErrBindingNotFound")
          /\ UNCHANGED loc
       \/ key \in DOMAIN bindings
          /\ SetLoc(r, [loc[r] EXCEPT !.tb = key, !.trv = bindings[key].rv,
                                      !.bv = bindings[key]])
          /\ Goto(r, "ubUpdate") /\ UNCHANGED err
    /\ UNCHANGED <<storeVars, req, faulted, wroteB, faults, pipelineEdits>>

\* set Spec.ReleaseState on the binding as it was read, and Update it: the
\* resourceVersion it was read with must still be the stored one
UpdateComponentBindingWrite(r) ==
    LET key == loc[r].tb IN
    /\ pc[r] = "ubUpdate"
    /\ \/ /\ bindings[key].rv = loc[r].trv
          /\ bindings' = [bindings EXCEPT ![key] =
                            [loc[r].bv EXCEPT !.state = req[r].state,
                                              !.rv = @ + 1]]
          /\ wroteB' = [wroteB EXCEPT ![r] = @ \cup {key}]
          /\ Finish(r, "ok")
       \/ /\ bindings[key].rv # loc[r].trv
          /\ Finish(r, "ErrK8sConflict") /\ UNCHANGED <<bindings, wroteB>>
    /\ UNCHANGED <<components, workloads, typeRes, pipeline, req, loc,
                   faulted, faults, pipelineEdits>>

(***************************************************************************)
(* Faults and the environment                                              *)
(***************************************************************************)
\* any API-server call may fail; the service wraps and returns the error
Fault(r) ==
    /\ pc[r] \notin {"start", "done", "prEnvs"} /\ faults < MaxFaults
    /\ faults' = faults + 1
    /\ faulted' = [faulted EXCEPT ![r] = TRUE]
    /\ Finish(r, "ErrTransient")
    /\ UNCHANGED <<storeVars, req, loc, wroteB, pipelineEdits>>

\* a platform engineer edits the deployment pipeline
EditPipeline ==
    /\ pipelineEdits < MaxPipelineEdits
    /\ \E p \in Pipelines \ {pipeline} : pipeline' = p
    /\ pipelineEdits' = pipelineEdits + 1
    /\ UNCHANGED <<components, workloads, typeRes, bindings, reqVars, faults>>

-----------------------------------------------------------------------------
Init ==
    /\ components = InitComponents
    /\ workloads = InitWorkloads
    /\ typeRes = << >>
    /\ bindings = InitBindings
    /\ pipeline = InitPipeline
    /\ req \in [Req -> Requests]
    /\ pc = [r \in Req |-> "start"]
    /\ loc = [r \in Req |-> Loc0]
    /\ err = [r \in Req |-> Null]
    /\ faulted = [r \in Req |-> FALSE]
    /\ wroteB = [r \in Req |-> {}]
    /\ faults = 0
    /\ pipelineEdits = 0

\* every step of one request goroutine
Request(r) ==
    \/ CreateComponentCheck(r) \/ createComponentResources(r)
    \/ CreateComponentWorkloadCheck(r) \/ CreateComponentWorkloadList(r)
    \/ CreateComponentWorkloadWrite(r) \/ createTypeSpecificResource(r)
    \/ createTypeResourceCreate(r)
    \/ validatePromotionPath(r) \/ PromoteGetComponent(r)
    \/ PromoteReadSource(r) \/ PromoteReadTarget(r) \/ PromoteWrite(r)
    \/ PromoteEnvs(r) \/ PromoteRespond(r)
    \/ UpdateComponentBindingValidate(r) \/ UpdateComponentBindingCheck(r)
    \/ UpdateComponentBindingGet(r) \/ UpdateComponentBindingWrite(r)

Next ==
    \/ \E r \in Req : Request(r) \/ Fault(r)
    \/ EditPipeline

Spec == Init /\ [][Next]_vars

\* the HTTP status the client receives for a finished request
Status(r) ==
    CASE req[r].op = "createComponent" -> CreateComponentStatus(err[r])
      [] req[r].op = "promote" -> PromoteComponentStatus(err[r])
      [] req[r].op = "updateBinding" -> UpdateComponentBindingStatus(err[r])
      [] OTHER -> IF err[r] = "ok" THEN 200 ELSE 500

-----------------------------------------------------------------------------
Owner == [project : Project, comp : Comp]
Binding == [project : Project, comp : Comp, env : Env, spec : SpecVal,
            state : {"", "Active", "Suspend", "Undeploy"}, rv : Nat]

TypeOK ==
    /\ DOMAIN components \subseteq Comp
    /\ \A c \in DOMAIN components :
          components[c] \in [project : Project, type : Type]
    /\ DOMAIN workloads \subseteq WorkloadNames
    /\ \A w \in DOMAIN workloads :
          workloads[w] \in [project : Project, comp : Comp, rv : Nat]
    /\ DOMAIN typeRes \subseteq Comp \X Kind
    /\ \A n \in DOMAIN typeRes :
          typeRes[n] \in [project : Project, comp : Comp,
                          workload : WorkloadNames]
    /\ DOMAIN bindings \subseteq Kind \X BindingNames
    /\ \A b \in DOMAIN bindings : bindings[b] \in Binding
    /\ pipeline \in Pipelines
    /\ \A r \in Req : wroteB[r] \subseteq DOMAIN bindings
    /\ faults \in 0..MaxFaults /\ pipelineEdits \in 0..MaxPipelineEdits

(***************************************************************************)
(* Concurrent promotions of one component to one environment never leave  *)
(* two bindings of that kind for it there: the target is looked up by     *)
(* owner and environment, and a new one gets the deterministic name, so   *)
(* the loser of a race fails on Create (createOrUpdate<Kind>Binding).      *)
(***************************************************************************)
BindingUnique ==
    \A k \in Kind, c \in Comp, e \in Env :
        Cardinality({b \in DOMAIN bindings :
                        b[1] = k /\ bindings[b].comp = c
                        /\ bindings[b].env = e}) <= 1

(***************************************************************************)
(* Concurrent CreateComponentWorkload calls never leave a component with   *)
(* two Workloads: an existing one (whatever its name) is updated, and a    *)
(* new one is created under the deterministic name "<comp>-workload".     *)
(***************************************************************************)
WorkloadUnique ==
    \A c \in Comp :
        Cardinality({w \in DOMAIN workloads : workloads[w].comp = c}) <= 1

(***************************************************************************)
(* The Service, WebApplication or ScheduledTask that CreateComponentWorkload *)
(* creates names a Workload that exists and belongs to the same component. *)
(***************************************************************************)
TypeResourceRefValid ==
    \A n \in DOMAIN typeRes :
        /\ typeRes[n].workload \in DOMAIN workloads
        /\ workloads[typeRes[n].workload].comp = typeRes[n].comp

(***************************************************************************)
(* CreateComponent answers 500 only for a failed API-server call: a name   *)
(* that is already taken is reported as 409 Conflict (the componentExists *)
(* check and the ErrComponentAlreadyExists branch of the handler).         *)
(***************************************************************************)
CreateConflictReported ==
    \A r \in Req :
        /\ req[r].op = "createComponent" /\ pc[r] = "done"
        /\ Status(r) = 500
        => faulted[r]

(***************************************************************************)
(* PATCH .../components/{componentName}/bindings/{bindingName} changes only *)
(* bindings of the component in its path (UpdateComponentBinding).        *)
(***************************************************************************)
UpdateBindingScoped ==
    \A r \in Req : \A b \in wroteB[r] : bindings[b].comp = req[r].comp

(***************************************************************************)
(* A promotion answered 200 shows, in the bindings it returns, the binding *)
(* it wrote, as long as its path is still in the pipeline: the response is *)
(* read back from the pipeline's environments after the write             *)
(* (PromoteComponent, getEnvironmentsFromDeploymentPipeline,               *)
(* GetComponentBindings).                                                  *)
(***************************************************************************)
PromoteResponseShowsTarget ==
    \A r \in Req :
        /\ req[r].op = "promote" /\ pc[r] = "done" /\ err[r] = "ok"
        /\ <<req[r].src, req[r].tgt>> \in pipeline
        => wroteB[r] \subseteq loc[r].resp

=============================================================================
