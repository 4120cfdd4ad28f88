------------------------------ MODULE Decision ------------------------------
(***************************************************************************)
(* Who is in which variant: POST /decide of central-api                    *)
(* (internal/delivery/experiment_handler.go) over the rows of the table,   *)
(* and Decide of client-sdk (client.go, decision_logic.go) over its cache, *)
(* with example-sort-app as its caller.                                    *)
(*                                                                         *)
(* Both take the first experiment of a layer that takes the user.  The     *)
(* table has no order that anybody asks for; the client's lists have one,  *)
(* and this model is about what keeps them in step: a delta replaces an    *)
(* experiment in its place or appends it.  Here every change reaches the   *)
(* client at once (SdkClient and Platform are about how it gets there).    *)
(*                                                                         *)
(* A Go value is a record with its type and its value; an attribute has a  *)
(* basic type and a value JSON can carry.  A user's bucket is a function   *)
(* of user and salt; an experiment keeps its salt, so of user and id.      *)
(***************************************************************************)
EXTENDS Integers, Sequences, FiniteSets, TLC

CONSTANTS
    ExperimentIDs,  \* the ids of experiments
    Layers,         \* the layers they can be in
    Bodies,         \* Bodies[id]: what a request can say of one: see Experiment
    RelevantLayers, \* Config.RelevantLayerIDs of the client, not empty
    Users,          \* user ids, "" among them
    Contexts,       \* the attributes a caller can pass: functions to Go values
    Bucket,         \* Bucket[user, id]: xxhash of user and salt, modulo 1000
    Numbers,        \* the numbers that occur as attributes or in rules
    Widened,        \* Widened[n]: float64() of the float32 that is printed as n
    UintSize        \* 2^64, or any number more than twice the buckets

ASSUME DecisionAssumption ==
    /\ RelevantLayers \subseteq Layers
    /\ UintSize \in Nat
    /\ \A u \in Users, id \in ExperimentIDs :
           Bucket[u, id] \in Nat /\ 2 * Bucket[u, id] < UintSize
    /\ Widened \in [Numbers -> Numbers]
    /\ \A attributes \in Contexts : \A k \in DOMAIN attributes :
           attributes[k] = [type |-> attributes[k].type, val |-> attributes[k].val]

VARIABLES
    rows,           \* table experiments
    cache,          \* cache.experiments: layer -> list of experiments
    now             \* time.Now

vars == <<rows, cache, now>>

\* An experiment: a body with its id and layer.
Experiment(id, layer, body) == [id |-> id, layer_id |-> layer] @@ body

Experiments == UNION {{Experiment(id, l, b) : l \in Layers, b \in Bodies[id]} : id \in ExperimentIDs}

\* The types of numbers that JSON does not have: int64 stands for int32 too,
\* and uint for all unsigned types, int8 and int16.
GoNumeric == {"int", "int64", "uint", "float32"}

\* A body is decoded from JSON, where all numbers are float64; the bounds of a
\* range are of type int, which is 64 bits wide.
ASSUME BodiesAssumption ==
    \A exp \in Experiments :
        /\ exp.id \in ExperimentIDs
        /\ IsFiniteSet(DOMAIN exp.force_include)
        /\ \A rule \in exp.targeting_rules : rule.value.type \notin GoNumeric
        /\ Len(exp.variants) \in Nat
        /\ \A i \in 1..Len(exp.variants), bound \in {1, 2} :
               LET n == exp.variants[i].bucket_range[bound]
               IN  n \in Int /\ -UintSize <= 2 * n /\ 2 * n < UintSize

\* The values the variables take; no list of the client has two versions of an
\* experiment.
DecisionTypeOK ==
    /\ rows \subseteq Experiments
    /\ DOMAIN cache = RelevantLayers
    /\ \A l \in RelevantLayers :
        /\ cache[l] \in Seq({exp \in Experiments : exp.layer_id = l})
        /\ \A i, j \in 1..Len(cache[l]) : cache[l][i].id = cache[l][j].id => i = j
    /\ now \in {1, 2}

-----------------------------------------------------------------------------
(* One experiment: evaluateSingleExperiment and evaluateExperiment.        *)

\* A float of seven digits or more is printed with an exponent; what matters
\* of that form is that it is not the one of the integer.
Exponent(n) == ToString(n) \o "e"

\* fmt.Sprintf("%v", v).
Text(v) ==
    CASE v.type = "string" -> v.val
      [] v.type = "bool"   -> IF v.val THEN "true" ELSE "false"
      [] v.type \in {"float64", "float32"} /\ v.val >= 1000000 -> Exponent(v.val)
      [] OTHER -> ToString(v.val)

\* Fault: the SDK's toFloat64 is that of central-api.
SdkNumeric_AsApi == {"float64", "int"}

\* The types toFloat64 takes.
ApiNumeric == {"float64", "int"}
SdkNumeric == {"float64", "float32", "int64", "int"}

\* The conversion float64().
AsFloat64(v) == IF v.type = "float32" THEN Widened[v.val] ELSE v.val

\* toFloat64: the number v is or spells, if any.
ToFloat64(v, numeric) ==
    {n \in Numbers : \/ v.type \in numeric /\ AsFloat64(v) = n
                     \/ v.type = "string" /\ v.val \in {ToString(n), Exponent(n)}}

\* version.NewVersion; a number spells a version.
ToVersion(v) == {n \in Numbers : v.type = "string" /\ v.val = ToString(n)}

EvaluateRule(attributes, rule, numeric) ==
    /\ rule.attribute \in DOMAIN attributes
    /\ LET v == attributes[rule.attribute]
       IN  CASE rule.operator = "EQUALS" -> Text(v) = Text(rule.value)
             [] rule.operator = "GREATER_THAN" ->
                    \E n \in ToFloat64(v, numeric), m \in ToFloat64(rule.value, numeric) : n > m
             [] rule.operator = "IN_LIST" ->
                    /\ rule.value.type = "list"
                    /\ \E item \in rule.value.val : item.type = "string" /\ item.val = Text(v)
             [] rule.operator = "VERSION_GREATER_THAN" ->
                    \E n \in ToVersion(v), m \in ToVersion(rule.value) : n > m
             [] OTHER -> FALSE

\* A user must meet all the rules.
CheckTargetingRules(exp, attributes, numeric) ==
    \A rule \in exp.targeting_rules : EvaluateRule(attributes, rule, numeric)

\* Fault: the upper bound is exclusive.
InRange_Exclusive(bucket, range) ==
    bucket >= range[1] % UintSize /\ bucket < range[2] % UintSize

\* Both bounds belong to the range, after their conversion to uint64.
InRange(bucket, range) ==
    bucket >= range[1] % UintSize /\ bucket <= range[2] % UintSize

\* Fault: no break.
FirstOf_All(S) == S

\* A loop over a list that ends at the first hit.
FirstOf(S) == {i \in S : \A j \in S : i <= j}

\* The first variant whose range has the user's bucket.
Bucketed(exp, user) ==
    LET hits == {i \in 1..Len(exp.variants) :
                     InRange(Bucket[user, exp.id], exp.variants[i].bucket_range)}
    IN  {exp.variants[i].name : i \in FirstOf(hits)}

\* The map of lists is iterated in any order, so any of these variants.
Forced(exp, user) == {v \in DOMAIN exp.force_include : user \in exp.force_include[v]}

Ended(exp) == exp.end_time # 0 /\ exp.end_time < now

\* What the experiment may answer; nothing if it does not take the user.
Answers(exp, user, attributes, numeric) ==
    LET variants ==
            IF exp.status # "ACTIVE" \/ Ended(exp) \/ user \in exp.force_exclude THEN {}
            ELSE IF Forced(exp, user) # {} THEN Forced(exp, user)
            ELSE IF CheckTargetingRules(exp, attributes, numeric) THEN Bucketed(exp, user)
            ELSE {}
    IN  {[id |-> exp.id, variant |-> v] : v \in variants}

\* central-api and client-sdk have a copy each of this code.
EvaluateSingleExperiment(exp, user, attributes) == Answers(exp, user, attributes, ApiNumeric)
EvaluateExperiment(exp, user, attributes) == Answers(exp, user, attributes, SdkNumeric)

-----------------------------------------------------------------------------
(* All experiments.  An empty user gets a 400 from the API and nothing     *)
(* from the SDK.                                                           *)

ActiveRows == {row \in rows : row.status = "ACTIVE"}

ActiveIn(layer) == {row \in ActiveRows : row.layer_id = layer}

\* evaluateUserAssignments, one layer: FindAllActiveExperiments returns the rows
\* in any order, so any that takes the user may be the first.
ApiDecide(layer, user, attributes) ==
    UNION {EvaluateSingleExperiment(row, user, attributes) :
              row \in ActiveIn(layer)}

\* Decide, one layer: the first in the list that takes the user.
SdkDecide(layer, user, attributes) ==
    LET list == cache[layer]
        taking == {i \in 1..Len(list) : EvaluateExperiment(list[i], user, attributes) # {}}
    IN  UNION {EvaluateExperiment(list[i], user, attributes) : i \in FirstOf(taking)}

\* Decide: whatever may be in the answer; an override replaces the decision.
Decide(user, attributes, overrides) ==
    IF user = "" THEN {}
    ELSE {a \in UNION {SdkDecide(l, user, attributes) : l \in RelevantLayers} :
              a.id \notin DOMAIN overrides}
         \cup {[id |-> id, variant |-> overrides[id]] : id \in DOMAIN overrides}

NoOverrides == [id \in {} |-> ""]

SortAttributes == [use_sort_test |-> [type |-> "bool", val |-> TRUE]]

Response(variant) ==
    [variant_used |-> IF variant = "" THEN "default" ELSE variant,
     order        |-> IF variant = "variant-b-desc" THEN "desc" ELSE "asc"]

\* sortHandler of example-sort-app: it takes any of the assignments.
SortApp(user) ==
    LET variants == {a.variant : a \in Decide(user, SortAttributes, NoOverrides)}
    IN  {Response(v) : v \in IF variants = {} THEN {""} ELSE variants}

-----------------------------------------------------------------------------
(* What changes the table and, with it, the client's lists.                *)

\* Fault: without the search for the experiment.
Put_AtEnd(list, exp) == Append(list, exp)

\* Fault: a new experiment goes to the front.
Put_InFront(list, exp) ==
    IF \E i \in 1..Len(list) : list[i].id = exp.id
    THEN [i \in 1..Len(list) |-> IF list[i].id = exp.id THEN exp ELSE list[i]]
    ELSE <<exp>> \o list

\* applyDelta: in the place of the version that is there, or at the end.
Put(list, exp) ==
    IF \E i \in 1..Len(list) : list[i].id = exp.id
    THEN [i \in 1..Len(list) |-> IF list[i].id = exp.id THEN exp ELSE list[i]]
    ELSE Append(list, exp)

\* The lists of the members of S.
Orders(S) ==
    {list \in [1..Cardinality(S) -> S] : \A i, j \in 1..Cardinality(S) : list[i] = list[j] => i = j}

Init ==
    /\ rows = {}
    /\ cache = [l \in RelevantLayers |-> <<>>]
    /\ now = 1

\* POST (of an id nobody has) or PUT, and the delta reaches the client.
Change ==
    /\ \E exp \in Experiments :
        /\ \/ \E row \in rows : row.id = exp.id
           \/ \A l \in RelevantLayers : \A i \in 1..Len(cache[l]) : cache[l][i].id # exp.id
        /\ rows' = {row \in rows : row.id # exp.id} \cup {exp}
        /\ cache' = [l \in RelevantLayers |->
                        IF l = exp.layer_id THEN Put(cache[l], exp) ELSE cache[l]]
    /\ UNCHANGED now

\* DELETE; its event changes nothing in the client.
Delete ==
    /\ \E row \in rows : rows' = rows \ {row}
    /\ UNCHANGED <<cache, now>>

\* A new snapshot, in the order in which the SELECT met the ACTIVE rows, and a
\* new client.
Restart ==
    /\ cache' \in [RelevantLayers -> UNION {Orders(ActiveIn(l)) : l \in RelevantLayers}]
    /\ \A l \in RelevantLayers : cache'[l] \in Orders(ActiveIn(l))
    /\ UNCHANGED <<rows, now>>

\* An end_time passes.
Tick ==
    /\ now = 1
    /\ now' = 2
    /\ UNCHANGED <<rows, cache>>

Next == Change \/ Delete \/ Restart \/ Tick

Spec == Init /\ [][Next]_vars

-----------------------------------------------------------------------------
(* What the deciders promise.                                              *)

\* The attributes as the API gets them: JSON has one type of number, and a
\* float32 is sent in its own few digits, not in those of its float64.
Json(attributes) ==
    [k \in DOMAIN attributes |->
        IF attributes[k].type \in GoNumeric
        THEN [attributes[k] EXCEPT !.type = "float64"] ELSE attributes[k]]

\* An attribute that JSON, or the SDK's toFloat64, makes another one of: an
\* integer of seven digits or more is printed otherwise than its float64; a uint
\* is no number for the SDK; a float32 that is not exact grows new digits.
Distorted(attributes, k) ==
    \/ Text(attributes[k]) # Text(Json(attributes)[k])
    \/ attributes[k].type = "uint"
    \/ attributes[k].type = "float32" /\ Widened[attributes[k].val] # attributes[k].val

\* A copy in the list of a layer whose experiment was deleted or has moved to
\* another layer; the client cannot know.
Orphan(exp) == \A row \in rows : row.id # exp.id \/ row.layer_id # exp.layer_id

NoOrphanTakes(layer, user, attributes) ==
    \A a \in SdkDecide(layer, user, attributes), i \in 1..Len(cache[layer]) :
        cache[layer][i].id = a.id => ~Orphan(cache[layer][i])

\* A client that has all changes decides as the API may: it takes the user into
\* an experiment of the layer if and only if the API does, and into one and a
\* variant the API could have chosen, although the one reads lists that grew by
\* deltas and the other rows in any order, and although the one is given Go
\* values and the other JSON.  Except for orphans, long integers, unsigned and
\* short integers, and a float32 such as 0.1.
ClientAgreesWithApi ==
    \A layer \in RelevantLayers, user \in Users \ {""}, attributes \in Contexts :
        (/\ \A k \in DOMAIN attributes : ~Distorted(attributes, k)
         /\ NoOrphanTakes(layer, user, attributes)) =>
            LET sdk == SdkDecide(layer, user, attributes)
                api == ApiDecide(layer, user, Json(attributes))
            IN  sdk \subseteq api /\ (sdk = {} => api = {})

\* A change of one experiment moves a user only into it or out of it, never
\* from one of the others to another or out of it; and a new experiment takes
\* nobody who is in an experiment of its layer.
ChangesOnlyItsOwn ==
    [][\A exp \in rows' \ rows, layer \in RelevantLayers, user \in Users, attributes \in Contexts :
           LET old == SdkDecide(layer, user, attributes)
               new == SdkDecide(layer, user, attributes)'
           IN  \/ new = old
               \/ old = {} /\ {a.id : a \in new} = {exp.id}
               \/ /\ \E row \in rows : row.id = exp.id
                  /\ exp.id \in {a.id : a \in old \cup new}]_vars

\* What test.sh relies on: the answer of the sort application does not hang on
\* the order of a map, unless somebody is forced into two variants.
SortAppPicksOne ==
    \A user \in Users :
        \/ Cardinality(SortApp(user)) = 1
        \/ \E l \in RelevantLayers : \E i \in 1..Len(cache[l]) :
               Cardinality(Forced(cache[l][i], user)) > 1

\* bucket_range is [from, to], both inclusive: whoever has a bucket in a
\* variant's range gets a variant, one only, and nobody gets one whose range does
\* not have his bucket.  Except for negative bounds: to one as lower bound nobody
\* is admitted, and as upper bound it has no effect.
BucketsAsDocumented ==
    \A exp \in rows, user \in Users :
        LET bucket   == Bucket[user, exp.id]
            range(i) == exp.variants[i].bucket_range
            all      == 1..Len(exp.variants)
        IN  /\ \A i \in all :
                   (bucket \in range(i)[1]..range(i)[2] /\ range(i)[1] >= 0)
                       => Bucketed(exp, user) # {}
            /\ \A name \in Bucketed(exp, user) : \E i \in all :
                   /\ name = exp.variants[i].name
                   /\ range(i)[1] \in 0..bucket
                   /\ bucket <= range(i)[2] \/ range(i)[2] < 0
            /\ \A v, w \in Bucketed(exp, user) : v = w
=============================================================================
