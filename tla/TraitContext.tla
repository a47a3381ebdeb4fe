---------------------------- MODULE TraitContext ----------------------------
(***************************************************************************)
(* BuildTraitContext (internal/pipeline/component/context/trait.go) as a   *)
(* synthesis pass calls it: once per trait instance of a component, in     *)
(* declared order, all calls sharing one schema cache.  A parameter object *)
(* is a nested map: a function from keys to a leaf (a model value) or to  *)
(* a nested map.  deepMerge, BuildStructuralSchema and schema.ApplyDefaults *)
(* are not in the repository; they are modelled from spec 4.1 and from    *)
(* Kubernetes structural defaulting, which fills a missing field with its *)
(* default inside every object that is present.                           *)
(***************************************************************************)
EXTENDS Naturals, Sequences, TLC

CONSTANTS
    Leaf,         \* scalar parameter values
    Nil,          \* a nil pointer: no Trait, no ComponentDeployment
    Absent,       \* nothing at a key or path
    Malformed,    \* a RawExtension whose JSON is not an object
    Traits,       \* [trait name -> schema: key -> default leaf or nested schema]
    Instances,    \* the trait instance lists a component may declare
    Deployments,  \* Nil, or TraitOverrides: [instance name -> raw override]
    Metadata      \* which of metadata.name and metadata.namespace are set

VARIABLES
    instances,    \* the component's trait instances, in declared order
    deployment,   \* the environment's ComponentDeployment
    component,    \* input.Component is non-nil
    metadata,     \* input.Metadata
    pos,          \* the instance whose context is built next
    outcome,      \* "running", "done", or "failed" on the first error
    cache,        \* SchemaCache: key -> structural schema
    ctx           \* the contexts built so far

inputVars == <<instances, deployment, component, metadata>>
vars == <<inputVars, pos, outcome, cache, ctx>>

IsMap(v) == v \notin Leaf \cup {Nil, Absent, Malformed}

(***************************************************************************)
(* The merge and defaulting helpers the builder calls.                     *)
(***************************************************************************)
\* mutant: an override replaces a nested object instead of merging into it
deepMergeShallow(base, override) ==
    [k \in DOMAIN base \cup DOMAIN override |->
        IF k \in DOMAIN override THEN override[k] ELSE base[k]]

\* deepMerge: objects merge key by key; any other value is replaced whole
RECURSIVE deepMerge(_, _)
deepMerge(base, override) ==
    [k \in DOMAIN base \cup DOMAIN override |->
        IF k \notin DOMAIN override THEN base[k]
        ELSE IF k \in DOMAIN base /\ IsMap(base[k]) /\ IsMap(override[k])
             THEN deepMerge(base[k], override[k])
             ELSE override[k]]

\* schema.ApplyDefaults: a missing field takes its default; present objects
\* are defaulted recursively; a missing object is not created
RECURSIVE ApplyDefaults(_, _)
ApplyDefaults(m, s) ==
    [k \in DOMAIN m \cup {j \in DOMAIN s : ~IsMap(s[j])} |->
        IF k \notin DOMAIN m THEN s[k]
        ELSE IF IsMap(m[k]) /\ k \in DOMAIN s /\ IsMap(s[k])
             THEN ApplyDefaults(m[k], s[k])
             ELSE m[k]]

\* BuildStructuralSchema: the trait's schema, as far as defaulting sees it
BuildStructuralSchema(t) == Traits[t]

\* the input checks that precede any work
InputValid(in) ==
    /\ in.trait # Nil /\ component
    /\ metadata.name /\ metadata.namespace

\* the cache key: traitName := input.Trait.Name
CacheKey(t, i) == t

\* TraitOverrides[instanceName], when a ComponentDeployment has one
OverrideOf(in) ==
    IF deployment = Nil \/ in.instanceName \notin DOMAIN deployment
    THEN Absent ELSE deployment[in.instanceName]

\* extractParametersFromRawExtension: JSON that is not an object does not
\* unmarshal into a map, and the call returns its error
Unmarshals(raw) == raw # Malformed

\* steps 2-4: instance parameters, merged overrides, then schema defaults
TraitParameters(p, o, s) ==
    ApplyDefaults(IF o = Absent THEN p ELSE deepMerge(p, o), s)

-----------------------------------------------------------------------------
Init ==
    /\ instances \in Instances
    /\ deployment \in Deployments
    /\ component \in BOOLEAN
    /\ metadata \in Metadata
    /\ pos = 1
    /\ outcome = "running"
    /\ cache = [k \in {} |-> Nil]
    /\ ctx = << >>

\* the call fails; the pass stops with no context for this instance
Fail ==
    /\ outcome' = "failed"
    /\ UNCHANGED <<pos, ctx>>

(***************************************************************************)
(* One call of BuildTraitContext for the next instance: input checks,     *)
(* cache lookup or schema build (stored in the cache), parameter           *)
(* extraction, override merge, defaulting, and the context record.         *)
(***************************************************************************)
BuildTraitContext ==
    /\ outcome = "running"
    /\ LET in == instances[pos]
           key == CacheKey(in.trait, in.instanceName)
           hit == key \in DOMAIN cache
           o == OverrideOf(in)
       IN \/ /\ ~InputValid(in)
             /\ Fail
             /\ UNCHANGED cache
          \/ /\ InputValid(in)
             /\ cache' = IF hit THEN cache
                         ELSE (key :> BuildStructuralSchema(in.trait)) @@ cache
             /\ \/ /\ ~(Unmarshals(in.parameters) /\ Unmarshals(o))
                   /\ Fail
                \/ /\ Unmarshals(in.parameters) /\ Unmarshals(o)
                   /\ ctx' = Append(ctx,
                        [trait |-> in.trait, instanceName |-> in.instanceName,
                         parameters |-> TraitParameters(in.parameters, o,
                                                        cache'[key])])
                   /\ pos' = pos + 1
                   /\ outcome' = IF pos = Len(instances) THEN "done"
                                 ELSE "running"
    /\ UNCHANGED inputVars

Next == BuildTraitContext

Spec == Init /\ [][Next]_vars

-----------------------------------------------------------------------------
(***************************************************************************)
(* A reference for the parameters, per path rather than by recursion.  A   *)
(* map is the set of its nodes <<path, leaf or "map">>.  A source's node  *)
(* at a path is kept unless a source of higher precedence has a value at  *)
(* that path or above it that is not an object where this one also is.   *)
(* A default leaf is kept where no node is and every object above it is.  *)
(***************************************************************************)
RECURSIVE Nodes(_)
Nodes(m) ==
    UNION {{<<<<k>>, IF IsMap(m[k]) THEN "map" ELSE m[k]>>}
           \cup (IF IsMap(m[k])
                 THEN {<<<<k>> \o n[1], n[2]>> : n \in Nodes(m[k])} ELSE {})
           : k \in DOMAIN m}

RECURSIVE ValueAt(_, _)
ValueAt(m, p) ==
    IF p = << >> THEN m
    ELSE IF IsMap(m) /\ Head(p) \in DOMAIN m THEN ValueAt(m[Head(p)], Tail(p))
    ELSE Absent

\* the non-empty prefixes of a path, the path itself included
Prefixes(p) == {SubSeq(p, 1, n) : n \in 1..Len(p)}

Kept(srcs, j, p) ==
    \A h \in 1..(j - 1) : \A q \in Prefixes(p) :
        ValueAt(srcs[h], q) # Absent =>
            IsMap(ValueAt(srcs[h], q)) /\ IsMap(ValueAt(srcs[j], q))

MergedNodes(srcs) ==
    UNION {{n \in Nodes(srcs[j]) : Kept(srcs, j, n[1])} : j \in DOMAIN srcs}

DefaultedNodes(merged, s) ==
    {n \in Nodes(s) :
        /\ n[2] # "map"
        /\ \A m \in merged : m[1] # n[1]
        /\ \A q \in Prefixes(n[1]) \ {n[1]} : <<q, "map">> \in merged}

ExpectedNodes(p, o, s) ==
    LET merged == MergedNodes(IF o = Absent THEN <<p>> ELSE <<o, p>>)
    IN  merged \cup DefaultedNodes(merged, s)

(***************************************************************************)
(* Parameter precedence of spec 4.1 as BuildTraitContext implements it:    *)
(* every context holds, at every path, the environment override's value, *)
(* else the instance parameter's, else the trait schema's default; nested *)
(* objects merge and anything else is replaced whole.                     *)
(***************************************************************************)
ParametersFollowPrecedence ==
    \A i \in DOMAIN ctx :
        Nodes(ctx[i].parameters) =
            ExpectedNodes(instances[i].parameters, OverrideOf(instances[i]),
                          Traits[instances[i].trait])

=============================================================================
