# Model-checking OpenChoreo: the Release controller and the component API

TLA+ models of the parts of OpenChoreo whose correctness depends on an
ordering of steps, on concurrency, or on failures: first of all the Release
controller, which applies a Release's resources to a data-plane cluster and
garbage-collects them. TLC checks these models.

## 1. The system and its parts

| Part | Source | State it keeps | Operations |
|---|---|---|---|
| Release reconciler | `internal/controller/release/controller.go` | Release `spec.resources`, `status.resources` (the inventory), conditions; data-plane objects labelled `managed-by`, `release-uid`, `release-resource-id` | Reconcile: ensureFinalizer, getDPClient, makeDesiredResources, ensureNamespaces, applyResources (server-side apply), findAllKnownGVKs, listLiveResourcesByGVKs, findStaleResources, deleteResources, updateStatus, requeue with jitter |
| Release finalization | `internal/controller/release/controller_finalize.go` | the `openchoreo.dev/data-plane-cleanup` finalizer, the Finalizing and CleanupFailed conditions | finalize STEP 1-6 |
| Trait context builder | `internal/pipeline/component/context/trait.go` | a per-render schema cache keyed by trait name | BuildTraitContext, extractParametersFromRawExtension |
| Resource synthesis pipeline | only its tests (`src/unnamed/part_006`) | none (pure) | render, includeWhen/forEach, validate, sort |
| Component API | `internal/openchoreo-api/services/component_service.go`, `handlers/components.go`, `models/request.go` | Component, Workload, Service/WebApplication/ScheduledTask and *Binding CRs in the organisation's namespace; the project's DeploymentPipeline | CreateComponent, CreateComponentWorkload, PromoteComponent, UpdateComponentBinding; the handlers' error-to-status mapping |
| MCP tool registration | `pkg/mcp/tools.go`, `getMCPServerToolsets` in `src/unnamed/part_005` | the server's tool table; which toolset handlers are not nil | Register (six registration lists of nineteen Register functions), a client's tool call, handleToolResult |
| Handlers, models, build, schema, query builder, workload conversion, API types | `openchoreo-api/handlers`, `models`, `pkg/mcp`, `src/unnamed/*` | none of their own | request/response translation and CRUD calls |

How they interact. The pipeline and the trait context builder produce a
Release's `spec.resources`. The API's promotion writes bindings, and other
controllers turn those into Releases. The Release controller then owns the
data plane: each Release has a single reconcile worker (controller-runtime
never runs two reconciles of the same key at once). Different Releases are
reconciled concurrently against one shared data plane. Users edit and delete
Releases at any moment. Data-plane objects with finalizers of their own stay
"terminating" for a while after they are deleted.

What is hard:

- A pass is a long sequence of API calls, each of which can fail.
- The inventory in `status.resources` is written only at the end of a pass.
- Finalize can rely only on the inventory and on a catalogue of well-known
  kinds to find what to delete.
- The list of live objects is stale by the time the deletes run.

### Properties that make the Release controller correct

- Cleanup is complete. A Release disappears (its finalizer is removed) only
  when no data-plane object carries its UID (spec §4.4).
- Every kind the controller may have created is probed again: the inventory
  never forgets a kind of which a live object still exists.
- A Release's worker deletes only its own objects.
- If a Release is left alone, reconciliation converges to its spec and the
  inventory equals the spec.
- Finalization terminates.

## 2. Modules

**`ReleaseReconciler.tla`** models the reconciler and finalization together,
with any number of Releases sharing one data plane.

State:

| Variable | Code |
|---|---|
| `spec` | `spec.resources`, with each resource reduced to (ID, object); an object has a kind, given by `KindOf` |
| `inventory` | `status.resources` |
| `deleting`, `finalizer`, `exists` | the deletionTimestamp, the finalizer, and whether the Release object still exists |
| `finalizingCond`, `cleanupFailed` | the Finalizing and CleanupFailed conditions |
| `cluster` | the data plane: a function from present objects to their labels (release UID, resource ID, terminating) |
| `namespaces` | the data plane's namespaces, each with the `release-uid` label of the Release that created it |
| `pc`, `snapSpec`, `snapInv`, `toEnsure`, `toApply`, `live`, `toDelete` | the local state of the running invocation |
| `dirty` | records that the Release changed since the invocation's Get, so its optimistic Update would conflict |

Actions and the code they model:

| Action | Code |
|---|---|
| `EnsureFinalizer` | `ensureFinalizer` |
| `BeginApply` | Reconcile up to `ensureNamespaces` (controller.go 51-98) and `makeDesiredNamespaces`, which snapshot the spec |
| `EnsureNsGet`, `EnsureNsCreate` | the Get, then the Create, of one namespace in `ensureNamespaces`; AlreadyExists counts as success |
| `ApplyOne` | one Patch of `applyResources` (NotFound when the object's namespace is missing) |
| `ListLive` | `findAllKnownGVKs`, `listLiveResourcesByGVKs` (any subset of the Lists may fail and be skipped, as at line 460) and `findStaleResources` |
| `DeleteOne` | one Delete of `deleteResources` (NotFound fails the pass) |
| `UpdateStatus` | `updateStatus` and the return |
| `SetFinalizing`, `BeginFinalize`, `FinList`, `FinCheck` | finalize STEP 1-6 |
| `Abort` | any error return, or a crash, of an invocation |

The environment actions are `EditSpec`, `DeleteRelease` and `ObjFinalized`
(a data-plane finalizer completing).

`findAllKnownGVKs` is translated as the code behaves: it returns the desired
and inventory kinds, not the well-known catalogue (see finding 1).

**`ComponentAPI.tla`** models the API server's component service with any
number of concurrent HTTP requests. Each request is a goroutine with a
program counter `pc` and the values it has read so far, `loc`. Each blocking
call to the API server is one step, so other requests, faults and pipeline
edits can come between the calls.

| Variable | Code |
|---|---|
| `components`, `workloads`, `typeRes`, `bindings` | the CRs in the namespace, keyed by name (kind and name for type resources and bindings), each with its owner and a `rv` (resourceVersion) |
| `pipeline` | the project's DeploymentPipeline as a set of (source, target) promotion paths |
| `req`, `pc`, `loc`, `err` | the request, its step, what it has read, and the error it returned |
| `faulted`, `wroteB` | history: the request met a transient error; the bindings it wrote |

| Action | Code |
|---|---|
| `CreateComponentCheck`, `createComponentResources` | CreateComponent: GetProject and componentExists, then Create (AlreadyExists is wrapped, so it becomes a 500) |
| `CreateComponentWorkloadCheck`, `…List`, `…Write` | CreateComponentWorkload: the checks, the List by owner, then Update the found workload with the body's Spec or Create `<comp>-workload` with the owner forced |
| `createTypeSpecificResource`, `createTypeResourceCreate` | the switch on the type, then createServiceResource's List and Create |
| `validatePromotionPath`, `PromoteGetComponent`, `PromoteReadSource`, `PromoteReadTarget`, `PromoteWrite` | PromoteComponent and createOrUpdateServiceBinding: Create `<comp>-<env>` or Update the existing binding under the resourceVersion check; the whole Spec is copied, so ReleaseState is reset |
| `PromoteEnvs`, `PromoteRespond` | the response after the write: `getEnvironmentsFromDeploymentPipeline` (an error falls back to source and target, so it is not a fault of the request), then `GetComponentBindings` over those environments, skipping any without a binding; an error there answers 500 after the binding was written |
| `UpdateComponentBindingValidate`, `…Check`, `…Get`, `…Write` | the handler's Validate, then the service's checks, Get by name, and Update of the whole object as read with ReleaseState set (a Conflict if its resourceVersion changed since) |
| `Fault` | any API-server call returning an error (bounded by `MaxFaults`) |
| `EditPipeline` | a platform engineer editing the pipeline (bounded by `MaxPipelineEdits`) |

`Status(r)` maps the error a request returned to the HTTP status, as the
handlers do.

**`MC_ComponentAPI.tla`** has projects `p1` and `p2` and components `c1` (p1)
and `c2` (p2) that exist, plus `c3` that does not. `c1` has a workload created
under another name (as the CLI does), a dev binding with the generated name
and a prod binding `bx` with a non-generated name. The passing run draws up to
three requests from seven well-formed ones (c2's promotion creates its
prod binding, and a second copy of it is the retry of one answered 500); each violation run uses one
malformed or racing request, given twice.

**`TraitContext.tla`** models `BuildTraitContext` (trait.go) as a synthesis
pass calls it: once per trait instance of a component, in declared order, all
calls sharing one schema cache. A parameter object is a nested map, a
function from keys to a leaf (a model value) or to another map.

| Definition | Code |
|---|---|
| `instances`, `deployment`, `component`, `metadata` | the inputs: the component's trait instances, the environment's ComponentDeployment (Nil or TraitOverrides by instance name), whether Component, metadata.name and metadata.namespace are set |
| `cache` | `SchemaCache`, keyed by trait name |
| `pos`, `outcome`, `ctx` | the next instance, whether the pass runs, ended, or stopped at an error, and the contexts built |
| `BuildTraitContext` | one call: the nil/empty checks (`InputValid`), the cache lookup under `CacheKey` and the build stored in the cache, `extractParameters` of instance and override (`Unmarshals`; an error stops the pass after the cache write), `OverrideOf`, then `TraitParameters` = `ApplyDefaults(deepMerge(params, override), schema)` |
| `deepMerge`, `ApplyDefaults`, `BuildStructuralSchema`, `IsMap` | not in the repository: modelled from spec 4.1 and Kubernetes structural defaulting (a missing field takes its default in every present object; a missing object is not created) |

The reference (`Nodes`, `ValueAt`, `Kept`, `ExpectedNodes`) describes a map
as the set of its (path, leaf or "map") nodes and keeps a source's node
unless a source of higher precedence has a non-object value at or above its
path.

**`Synthesis.tla`** models Render, the resource synthesis engine (spec 4.2),
and composes it with `TraitContext` through `INSTANCE`. Only the engine's
tests are in the repository (`src/unnamed/part_006`), so its definitions are
modelled from the spec. A document is its kind, its name (prefix and base
name), whether its template yields apiVersion, kind and metadata.name, and its
labels. Expressions are abstracted to the two forms the tests use: includeWhen
on one parameter (a missing field or a non-boolean is an evaluation error), and
forEach over a literal collection whose element names the document.

| Action | Engine step |
|---|---|
| `RenderComponent` | the nil-input check, then the component type's descriptors in declared order against the component context: `IncludeWhen`, `Instantiate` (once, or once per forEach element, stamped with the metadata labels), `Expand` |
| `RenderTrait` | one trait instance: `TraitContext`'s `BuildTraitContext`, then the trait's creates against the trait-scoped context (`TraitScope`), then its patches (`ApplyPatches`: each operation, in order, on every document of the target kind synthesized so far) |
| `RenderFinish` | `ValidateResources` (all or nothing), then `SortResources` (kind rank, then name) |

`MC_Synthesis.tla` has keys a, b, leaves v1, v2, traits t1 (defaults a
and b.b) and t2 (defaults b to a leaf), and every list of two instances over
four parameter objects, plus a nil trait and malformed parameters. Its
overrides merge into an object, add an object without a defaulted field,
replace an object by a leaf and a leaf by an object, or are malformed. Its
component types render a forEach ConfigMap declared before a Deployment,
lack metadata.name, or read a missing field; t1 and t2 create Secrets,
ConfigMaps and Services under includeWhen guards on a and b, and patch
Deployments, Secrets and ConfigMaps.

**`RequeueInterval.tla`** models the delay that ends a successful pass
(controller.go 133-146): `getStableRequeueInterval`,
`getProgressingRequeueInterval` and `addJitter`, as operators that return the
set of delays the code can return. `rand.Intn` becomes a choice over all its
values. A `time.Duration` is a `W`-bit two's-complement integer (`Wrap`), and
`float64(d) * 0.2` is truncated toward zero. TLC's integers are 32-bit, so the
64-bit arithmetic is checked at a smaller width, where it wraps in the same way.

- State: the Release's two interval fields, whether the last pass saw
  transitioning resources (an input, because `hasTransitioningResources` is
  not in the repository), and the returned `RequeueAfter`.
- Actions: `Requeue` (the end of a pass) and `EditIntervals` (a new
  generation, which re-queues the Release at once).
- `MC_RequeueInterval.tla` uses `W = 10` and one unit per second, so the
  defaults are 300 and 10.

**`ReleaseLifecycle.tla`** is the abstract specification of a Release
(spec §4.3, §4.4). There are no passes, inventories or probes. A Release has
a `phase` (active, deleting, gone), its `desired` spec, and the objects it
`owned` on the data plane. The actions are:

- `Edit`: a new spec.
- `Place`: an object of one of its spec versions gets its labels.
- `Remove`: an object disappears.
- `Delete`: deletion is requested; the Release may go at once while it
  owns nothing.
- `Vanish`: the Release goes, only when it owns nothing, with weak fairness.

`MC_ReleaseReconciler.tla` instantiates it as `Lifecycle` with this
refinement mapping:

- `phase` is gone when `~exists`, deleting when `deleting`, and active
  otherwise;
- `desired` is `spec`;
- `owned` is `Owned(r)`.

`LifecycleSpec == Lifecycle!Spec` is checked as a PROPERTY.

**`McpTools.tla`** models the MCP server's tool registration
(`pkg/mcp/tools.go`). `enabled` holds the toolsets whose handler interface is
not nil: any subset, as `getMCPServerToolsets` builds it from `MCP_TOOLSETS`.
`tools` maps each registered tool's name to the toolset its handler calls.
Each `Register<Tool>` function is a record of that name and that toolset, and
each `<toolset>ToolRegistrations` list is a sequence of them. The action
`Register` is one if-block of `Toolsets.Register`: when the toolset is
enabled, it folds `AddTool` (a tool of the same name is replaced) over the
toolset's list. `CallTool` is a client's call of any tool name. The outcome
is unknown when the tool is not registered, and a panic when the handler's
toolset is nil. Otherwise it is the toolset's result or error, passed on by
`handleToolResult`. `MC_McpTools.tla` allows two calls.

**`MC_ReleaseReconciler.tla`** instantiates the model with Releases `r1`, `r2`,
resource IDs `a`, `b` and per Release a `ConfigMap` object (`cm*`, no finalizer,
the only well-known kind) and a `Widget` object (`wid*`, with a finalizer of its
own). Each Release's spec ranges over {a↦cm}, {a↦cm, b↦wid} and {b↦wid}.

## 3. Runs

| Run | cfg | Checks | Result |
|---|---|---|---|
| reconcile | `MC_Reconcile.cfg` | TypeOK, RecordedCleanup, NoKindForgotten (action property), Converges, FinalizationCompletes | pass, about 27k states |
| catalog_unprobed | `MC_CatalogUnprobed.cfg` | NothingLeftLive | violation (finding 1) |
| terminating_forgotten | `MC_TerminatingForgotten.cfg` | CleanupComplete | violation (finding 2) |
| list_errors | `MC_ListErrors.cfg` | RecordedCleanup | violation (finding 3) |
| api_concurrent | `MC_ApiConcurrent.cfg` | TypeOK, BindingUnique, WorkloadUnique, TypeResourceRefValid, PromoteResponseShowsTarget | pass, about 373k states |
| create_conflict | `MC_CreateConflict.cfg` | CreateConflictReported | violation (finding 4) |
| binding_scope | `MC_BindingScope.cfg` | UpdateBindingScoped | violation (finding 5) |
| foreign_owner | `MC_ForeignOwner.cfg` | TypeResourceRefValid | violation (finding 6) |
| requeue | `MC_Requeue.cfg` | RequeueMatchesSpec | pass, about 7k states |
| lifecycle_refinement | `MC_Lifecycle.cfg` | StaleDeletedByPassEnd (action property), LifecycleSpec (refinement), Converges | pass, about 517k states |
| synthesis | `MC_Synthesis.cfg` | ParametersFollowPrecedence | pass, about 12k states |
| mcp_toolsets | `MC_McpToolsets.cfg` | NoNilToolsetCall | violation (finding 7) |

What the passing runs show:

- **StaleDeletedByPassEnd** (spec section 8, stale-set correctness and
  cross-kind GC). When a pass ends with updateStatus, no live object with
  the Release's UID has a resource-ID outside that pass's desired set, even
  when its whole kind left the spec. This holds because the probe set
  (findAllKnownGVKs) includes the kinds of the status inventory; a probe set
  made of the desired kinds alone breaks it.

- **RecordedCleanup.** Whatever the order of edits, failures and deletion, no
  object of a kind in the inventory survives the Release.
- **NoKindForgotten.** A kind leaves the inventory only when no live,
  non-terminating object of the Release has it.
- **Converges.** Left alone, a Release's desired objects are present and not
  terminating, and its inventory equals its spec.
- **FinalizationCompletes.** Deletion always ends with the Release gone.
- **LifecycleSpec.** With reliable calls and no data-plane finalizers, every
  step of the reconciler is a step of the abstract lifecycle, and a deleted
  Release whose objects are gone eventually disappears. These are exactly
  the conditions under which findings 1-3 cannot arise. The two Releases
  reuse the resource IDs `a` and `b`, so a List without the release-uid
  selector would make one worker delete the other's objects; the
  refinement breaks then. With one abort
  allowed, TLC breaks the refinement: a crash after the first Patch and
  before `updateStatus` leaves an object no inventory records, and finalize
  never probes its kind. For a ConfigMap, this is finding 1 again. For a
  custom kind outside the catalogue, it is the open question of spec §9,
  which even the intended code would not close.
- **RequeueMatchesSpec.** For nil, 0 and every edge base, the delay is 0
  only for a configured 0; otherwise it lies between the base and the base
  plus 20%. The edges are bases whose fifth truncates to 0 or 1 (no jitter,
  or `rand.Intn(1)`), the defaults, and the largest base whose jitter still
  fits.
- **BindingUnique.** Concurrent promotions and binding updates never leave a
  component with two bindings in one environment. The reason is that a
  promotion always writes the binding it found, or the generated name, and
  the API server rejects a second Create of that name.
- **PromoteResponseShowsTarget.** A promotion answered 200 whose path is
  still in the pipeline lists the binding it wrote. The response is read
  back from the pipeline's environments, sources and targets both, so a
  target-only environment such as prod must be collected. When a pipeline
  edit removes the path between the write and the read, the binding is
  left out; that follows the current pipeline, as the code's comment says.
- **ParametersFollowPrecedence.** Every trait context of a pass holds, at
  every path, the environment override's value, else the instance
  parameter's, else the schema default; nested objects merge and other
  values are replaced whole. It is checked against a reference that decides
  each path from the three sources without recursion. A merge that replaces
  nested objects, or defaults applied before the override, breaks it.
- **WorkloadUnique**, **TypeResourceRefValid.** Concurrent workload creation
  leaves one workload per component, and the type resource references it.
  This holds for well-formed bodies only (finding 6).

### Findings

1. **The well-known GVK catalogue is never probed** (controller.go:424, code
   bug). `findAllKnownGVKs` builds its result slice before it adds the
   catalogue to the set, so the safety net that its comment promises for
   failed status updates does nothing. TLC finds this with no injected fault:
   - a pass applies a ConfigMap;
   - a Delete of a stale Widget that finished terminating after the List
     returns NotFound, and the pass fails before `updateStatus`;
   - after deletion, finalize probes only Widget and removes the finalizer
     with the ConfigMap still live.
2. **A terminating stale object's kind is forgotten** (controller.go:128,
   divergence from spec §4.4). `updateStatus` records only the desired
   resources. A stale Widget that is still terminating therefore loses its
   kind from the inventory, and finalize removes the finalizer while the
   Widget still carries the UID label.
3. **List errors are swallowed** (controller.go:460, divergence from spec
   §4.4/§7). One failed List during finalize makes the kind look empty. The
   finalizer goes, and CleanupFailed is never recorded.

4. **A cross-project name clash is reported as 500** (component_service.go:243,
   code bug). `componentExists` returns false for a component of another
   project with the same name, and a concurrent create also passes the check.
   Create then fails with AlreadyExists, and the handler returns 500 instead
   of its 409.
5. **UpdateComponentBinding is not scoped to its component**
   (component_service.go:1048, code bug). The binding is fetched by the name
   in the path, and its owner is never compared with the path's component.
6. **The workload update trusts the body's owner** (component_service.go:1396,
   code bug). The create path forces the owner; the update path copies the
   whole Spec. The existing workload moves to another component, while
   the new Service references it.
7. **The project toolset registers an organization tool** (tools.go:521,
   code bug). `projectToolRegistrations` lists `RegisterGetOrganization`.
   With `MCP_TOOLSETS=project`, Register adds `get_organization`, and its
   handler (tools.go:154) calls `OrganizationToolset.GetOrganization` on a
   nil interface. TLC's trace: enabled = {project}, the six Register blocks,
   then a call of `get_organization`. TestPartialToolsetRegistration states
   the rule ("should not be registered (its toolset was not included)") and
   files the tool under organization, as the docs do. It tries only
   organization and project together, where the overlap is harmless.

Two numeric edges of the requeue delay are known but not run:

- **The jittered delay can wrap** (controller.go:515, low impact).
  `base + jitter` is an unchecked int64 sum. For an interval above about
  5/6 of the largest Duration (roughly 243 years), it can become negative,
  and controller-runtime never requeues on a negative delay. The spec says
  that only a zero interval disables the requeue. With 480 among the inputs
  at `W = 10`, TLC reports RequeueMatchesSpec violated; the `requeue` run
  keeps to bases that fit.
- **A negative interval is not rejected.** `addJitter` returns it unchanged,
  so the requeue is silently disabled. The spec says nothing of negative
  values, so no run states a rule for them.

Created namespaces keep the Release's UID (controller.go:229) is known
but no longer run. `makeDesiredNamespaces` labels every namespace it creates
with the Release's `release-uid`, and finalize never lists Namespaces. An
earlier run found the trace: finalize removes the finalizer while the
namespace still carries the UID. Spec 4.4 either means managed objects only
(a spec gap), or these namespaces are orphaned by design. The model still
keeps the namespaces; the invariant over them is not checked.

Also known, not run: `get_component_observer_url` is registered by the
deployment toolset (tools.go:553), which matches the docs, while the tests'
table files it under component (tools_test.go:398). It is not a crash, and
the two sources disagree, so no rule is checked.

A promotion-path window is known but no longer run (component_service.go:642,
spec gap). `validatePromotionPath` reads the pipeline once and the binding is
written later, so a pipeline edit between the two lets a promotion follow a
path the pipeline no longer has. `ComponentAPI` keeps the two steps apart and
TLC found that trace; the spec says nothing of concurrent pipeline edits, so
no rule for them is checked.

Also noted, but not a run: PromoteComponent's handler tests
`ErrReleaseBindingNotFound`, whereas the service returns
`ErrBindingNotFound`. A missing source binding is therefore a 500, not a 404;
`PromoteComponentStatus` models this.

### Bounds and why they are enough

- Two IDs and two kinds cover the cases that matter: a kind that stays, a
  kind that is dropped, an ID that moves between spec versions, and a kind
  with and one without a data-plane finalizer.
- Three spec edits in `reconcile` reach every spec and back, including
  dropping a kind entirely.
- `MaxAborts = 1` puts one failure or crash at any step of any pass.
- `MaxListFaults` is 0 in the passing runs, because any List fault breaks
  cleanup (finding 3), and 1 in `list_errors`.
- `lifecycle_refinement` has two Releases, one edit each and no aborts,
  which keeps it to about a minute. Both Releases' ConfigMaps live in
  namespace `ns1`, so their workers race to create it and one Create can
  meet AlreadyExists. Its questions (whose objects a worker touches;
  whether a pass leaves a stale ID live; whether both Releases converge
  through the namespace race; whether the lifecycle is refined) are about
  interleaving, not failures. With an abort the
  refinement and StaleDeletedByPassEnd fail for the reason of finding 1.

- `synthesis`: two instances cover a trait met twice (the shared cache)
  and two traits; objects nested one level with two keys cover a merged
  object, a replaced one and a default inside an object the override
  introduces, which is where applying defaults before the merge goes wrong.
  Both instance orders occur. Deadlock is not checked: a render ends with its
  output or its first error.

- `api_concurrent`: three requests, so that two can race while a third
  interleaves. It has one transient fault and one pipeline edit (the dev→prod
  path removed), and two environments, which gives a promotion both an
  existing target binding (`bx`) and a missing one. Only the Service kind is
  instantiated, because the WebApplication and ScheduledTask paths are the
  same code with another type.
- `mcp_toolsets`: all 64 subsets of the six toolsets are initial states, and
  any tool can be called twice after Register, so every overlap between the
  lists, and every tool of a disabled toolset, is reached.

### Fairness

- Weak fairness on each Release's worker. controller-runtime requeues every
  Release: after an error with backoff, after a status write, after a
  finalize pass that listed anything (5s), and after a successful pass with
  the stable or progressing interval (controller.go 128-146). It also
  reacts to every edit of the Release. This needs a non-zero interval
  (default 5m). With `spec.interval` 0, a Release whose pass succeeded is
  reconciled again only when it is edited, so Converges, which relies on a
  later pass, is not guaranteed.
- Weak fairness on `ObjFinalized`. Data-plane finalizers are assumed to
  finish; without that, cleanup can never complete.
- `ComponentAPI` has no fairness and no liveness property: an HTTP request
  can be cancelled at any step, and its checks are all safety.
- Edits, deletions and failures get no fairness: they are the environment,
  and they are bounded.

## 4. What is not modelled (yet) and why

- **Time in `ReleaseReconciler`.** Time appears there only as "the worker
  runs again". The delays themselves are checked separately in
  `RequeueInterval`.
- **Renaming an object under an existing resource ID.** Staleness is decided
  by ID only. This is a planned run.
- **Parts of the synthesis engine.** Patch remove operations and
  group/version targeting, the custom label and annotation options, and the
  environment, workload and configuration contexts are left out; the
  expression language is reduced to includeWhen and forEach.
- **The buildConfig conversion error in CreateComponent**
  (component_service.go 282-287). `convertBuildConfigToBuildSpec` fails only
  when `json.Marshal` of a map of strings fails, which cannot happen.
- **Render's output.** The engine is not in the repository (only its tests
  are), so `Synthesis` is built from spec 4.2 and serves only to call
  `BuildTraitContext` as a render does. No property about the rendered list
  is checked: it would compare one spec-built definition with another.
- **The lifetime of a schema cache.** Callers outside trait.go decide whether a cache outlives a pass; the model's lives for one.
- **Read-only API operations** (List*, Get*, observer URLs, component types).
  They change no state, and none of the modelled operations depends on them.
- **Handlers, models, build and schema services, OpenSearch query
  builder, workload descriptor conversion, API types.** These translate
  requests and call the API server. They have no state and no concurrency of
  their own for TLC to explore.

## 5. Plan

Done: `ReleaseReconciler` and its runs; `RequeueInterval`; `ReleaseLifecycle`
and the `lifecycle_refinement` run; `ComponentAPI` and its runs, with the
promotion response and the binding write-back; namespaces in the reconciler;
`TraitContext`, and `Synthesis` composed with it; `McpTools`.

1. A rename run: an ID re-pointed to an object of another kind.
