---------------------------- MODULE MC_Synthesis ----------------------------
(***************************************************************************)
(* Trait context inputs: keys a and b, leaves v1 and v2, traits t1 and t2, *)
(* every list of two instances over four parameter objects, a missing     *)
(* Trait, malformed parameters, and four environments.  Three component   *)
(* types: one that renders (a forEach ConfigMap declared before a         *)
(* Deployment, and a Service that includeWhen excludes), one whose        *)
(* template lacks metadata.name, and one whose includeWhen reads a        *)
(* missing field.  t1 creates a Secret and a ConfigMap guarded by         *)
(* parameter a, and labels Deployments; t2 creates one Secret per element *)
(* and a Service guarded by parameter b, and labels Secrets and           *)
(* ConfigMaps, setting one key twice.                                     *)
(***************************************************************************)
EXTENDS Synthesis, TLC

CONSTANTS v1, v2, t1, t2, i1, i2

MC_Leaf == {v1, v2}
MC_Truthy == {v1}

P0 == [k \in {} |-> v1]
MC_Params == {P0, "a" :> v1, "b" :> ("a" :> v1), "a" :> v2 @@ "b" :> v2}

MC_Traits == t1 :> ("a" :> v2 @@ "b" :> ("b" :> v1)) @@ t2 :> ("b" :> v2)

Inst(t, i, p) == [trait |-> t, instanceName |-> i, parameters |-> p]

\* two instances of any traits with any parameters, a missing Trait, and
\* malformed instance parameters
MC_Instances ==
    {<<Inst(ta, i1, pa), Inst(tb, i2, pb)>> :
        ta, tb \in {t1, t2}, pa, pb \in MC_Params}
    \cup {<<Inst(Nil, i1, P0)>>, <<Inst(t1, i1, Malformed)>>}

MC_Deployments ==
    {Nil,
     i1 :> ("b" :> ("b" :> v2)) @@ i2 :> ("b" :> ("a" :> v2)),
     i1 :> ("a" :> ("a" :> v2)) @@ i2 :> ("b" :> v1),
     i2 :> Malformed}

MC_Metadata ==
    {[name |-> TRUE, namespace |-> TRUE], [name |-> FALSE, namespace |-> TRUE],
     [name |-> TRUE, namespace |-> FALSE]}

MC_CompParams == "a" :> v1 @@ "s" :> v2

D(k, n, w, e, ok) == [kind |-> k, name |-> n, when |-> w, each |-> e, ok |-> ok]

MC_CTypes ==
    {<<D("ConfigMap", "cfg", None, <<"x1", "x2">>, TRUE),
       D("Deployment", "app", None, None, TRUE),
       D("Service", "svc", "s", None, TRUE)>>,
     <<D("Deployment", "app", None, None, FALSE)>>,
     <<D("Deployment", "app", "missing", None, TRUE)>>}

MC_TraitSpecs ==
    t1 :> [creates |-> <<D("Secret", "sec", None, None, TRUE),
                         D("ConfigMap", "cfg", "a", None, TRUE)>>,
           patches |-> <<[target |-> "Deployment",
                          ops |-> <<<<"mon", "on">>>>]>>]
    @@ t2 :> [creates |-> <<D("Secret", "tok", None, <<"x1", "x2">>, TRUE),
                            D("Service", "svc", "b", None, TRUE)>>,
              patches |-> <<[target |-> "Secret",
                             ops |-> <<<<"tier", "m1">>, <<"tier", "m2">>>>],
                            [target |-> "ConfigMap",
                             ops |-> <<<<"mon", "off">>>>]>>]

MC_MetaLabels == "component" :> "c1"

MC_Primary == {"Deployment"}
MC_KindRank ==
    "Deployment" :> 0 @@ "ConfigMap" :> 1 @@ "Secret" :> 2 @@ "Service" :> 3

\* generated names "<prefix>-<name>" in lexicographic order
PrefixRank == None :> 0 @@ i1 :> 1 @@ i2 :> 2
BaseRank ==
    "app" :> 1 @@ "cfg" :> 2 @@ "sec" :> 3 @@ "svc" :> 4 @@ "tok" :> 5
    @@ "x1" :> 6 @@ "x2" :> 7
MC_NameRank ==
    [n \in (DOMAIN PrefixRank) \X (DOMAIN BaseRank) |->
        10 * PrefixRank[n[1]] + BaseRank[n[2]]]
=============================================================================
