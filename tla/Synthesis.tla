----------------------------- MODULE Synthesis -----------------------------
(***************************************************************************)
(* The resource synthesis engine (spec 4.2) composed with the trait        *)
(* context builder of TraitContext.  Render evaluates the component type's *)
(* resource descriptors against the component context, then each trait     *)
(* instance in declared order: BuildTraitContext, the trait's creates      *)
(* against the trait-scoped context, then its patches over the documents  *)
(* synthesized so far; finally it validates every document (all or        *)
(* nothing) and sorts the list.  The engine is not in the repository (only *)
(* its tests are), so everything but BuildTraitContext is modelled from    *)
(* the spec.  A document is abstracted to its kind, its name, whether its  *)
(* template yields apiVersion, kind and metadata.name, and its labels.     *)
(* Expressions are abstracted to the two the tests use: includeWhen on a  *)
(* parameter, and forEach over a literal collection whose element names   *)
(* the document.                                                           *)
(***************************************************************************)
EXTENDS Naturals, Sequences, FiniteSets, SequencesExt

CONSTANTS
    Leaf, Nil, Absent, Malformed, Traits, Instances, Deployments, Metadata,
    None,         \* no includeWhen, no forEach; the name prefix of
                  \* component-level documents (trait documents are
                  \* prefixed with the instance name)
    Truthy,       \* the leaves an includeWhen condition reads as true
    CompParams,   \* the parameters of the component-level context
    CTypes,       \* resource descriptor lists a component type may declare
    TraitSpecs,   \* [trait -> [creates : descriptors, patches : patches]]
    MetaLabels,   \* the generated metadata's labels: [key -> value]
    Primary,      \* the primary (workload-defining) kinds
    KindRank,     \* [kind -> sort rank]: primary kinds rank first
    NameRank      \* [document name -> its rank in lexicographic order]

VARIABLES
    instances, deployment, component, metadata, pos, outcome, cache, ctx,
    ctype,        \* the component type's resource descriptors
    stage,        \* "component", "traits", "post", "done" or "failed"
    docs,         \* the documents synthesized so far, in order
    result        \* the rendered list, or Nil

TC == INSTANCE TraitContext

tcVars == <<instances, deployment, component, metadata, pos, outcome, cache,
            ctx>>
vars == <<tcVars, ctype, stage, docs, result>>

(***************************************************************************)
(* Evaluating descriptors.                                                 *)
(***************************************************************************)
\* includeWhen: "true", "false", or "error" for a missing field or a value
\* that is not a boolean
IncludeWhen(d, p) ==
    IF d.when = None THEN "true"
    ELSE IF d.when \notin DOMAIN p \/ p[d.when] \notin Leaf THEN "error"
    ELSE IF p[d.when] \in Truthy THEN "true" ELSE "false"

\* the template once, or once per forEach element in collection order;
\* every document is stamped with the metadata labels
Instantiate(d, pre) ==
    LET Doc(n) == [kind |-> d.kind, ok |-> d.ok, labels |-> MetaLabels,
                   name |-> <<pre, n>>]
    IN  IF d.each = None THEN <<Doc(d.name)>>
        ELSE [i \in DOMAIN d.each |-> Doc(d.each[i])]

\* the descriptors in declared order; a false includeWhen yields nothing
Expand(ds, p, pre) ==
    FlattenSeq([i \in DOMAIN ds |->
                   IF IncludeWhen(ds[i], p) = "true" THEN Instantiate(ds[i], pre)
                   ELSE << >>])

EvalError(ds, p) == \E i \in DOMAIN ds : IncludeWhen(ds[i], p) = "error"

\* the trait-scoped context the creates are evaluated against
TraitScope(c, in) == c.parameters

\* a patch: every operation, in list order, on every document of its target
ApplyOp(labels, op) == (op[1] :> op[2]) @@ labels
ApplyPatch(ds, pt) ==
    [i \in DOMAIN ds |->
        IF ds[i].kind = pt.target
        THEN [ds[i] EXCEPT !.labels = FoldLeft(ApplyOp, @, pt.ops)]
        ELSE ds[i]]
ApplyPatches(ds, pts) == FoldLeft(ApplyPatch, ds, pts)

\* post-processing
ValidateResources(ds) == \A i \in DOMAIN ds : ds[i].ok
SortResources(ds) ==
    SortSeq(ds, LAMBDA a, b : \/ KindRank[a.kind] < KindRank[b.kind]
                              \/ /\ a.kind = b.kind
                                 /\ NameRank[a.name] < NameRank[b.name])

-----------------------------------------------------------------------------
Init ==
    /\ TC!Init
    /\ ctype \in CTypes
    /\ stage = "component"
    /\ docs = << >>
    /\ result = Nil

\* the input checks, then the component type's descriptors against the
\* component context; an expression error fails the whole render
RenderComponent ==
    /\ stage = "component"
    /\ \/ /\ ~component
          /\ stage' = "failed" /\ UNCHANGED docs
       \/ /\ component /\ EvalError(ctype, CompParams)
          /\ stage' = "failed" /\ UNCHANGED docs
       \/ /\ component /\ ~EvalError(ctype, CompParams)
          /\ docs' = Expand(ctype, CompParams, None)
          /\ stage' = IF instances = << >> THEN "post" ELSE "traits"
    /\ UNCHANGED <<tcVars, ctype, result>>

\* one trait instance: its context, its creates, then its patches
RenderTrait ==
    /\ stage = "traits"
    /\ TC!BuildTraitContext
    /\ LET in == instances[pos] IN
       \/ /\ outcome' = "failed"
          /\ stage' = "failed" /\ UNCHANGED docs
       \/ /\ outcome' # "failed"
          /\ LET ts == TraitSpecs[in.trait]
                 p == TraitScope(ctx'[Len(ctx')], in)
             IN  \/ /\ EvalError(ts.creates, p)
                    /\ stage' = "failed" /\ UNCHANGED docs
                 \/ /\ ~EvalError(ts.creates, p)
                    /\ docs' = ApplyPatches(
                                 docs \o Expand(ts.creates, p, in.instanceName),
                                 ts.patches)
                    /\ stage' = IF outcome' = "done" THEN "post" ELSE "traits"
    /\ UNCHANGED <<ctype, result>>

\* validation of the whole batch, then the deterministic sort
RenderFinish ==
    /\ stage = "post"
    /\ \/ /\ ValidateResources(docs)
          /\ result' = SortResources(docs) /\ stage' = "done"
       \/ /\ ~ValidateResources(docs)
          /\ stage' = "failed" /\ UNCHANGED result
    /\ UNCHANGED <<tcVars, ctype, docs>>

Next == RenderComponent \/ RenderTrait \/ RenderFinish

Spec == Init /\ [][Next]_vars

\* the trait context property, over the contexts Render builds
ParametersFollowPrecedence == TC!ParametersFollowPrecedence
=============================================================================
