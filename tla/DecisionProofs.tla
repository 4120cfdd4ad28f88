--------------------------- MODULE DecisionProofs ---------------------------
(***************************************************************************)
(* Proofs about Decision, for any experiments, users, attributes and       *)
(* buckets.                                                                *)
(***************************************************************************)
EXTENDS Decision, IndexLemmas

\* The table has a primary key.
OneRowPerId == \A r, s \in rows : r.id = s.id => r = s

\* What a list of the client has of a row of its layer: the row itself if it is
\* active, and no other version of it.
HasRow(list, row) ==
    /\ row.status = "ACTIVE" => \E i \in 1..Len(list) : list[i] = row
    /\ \A i \in 1..Len(list) : list[i].id = row.id => list[i] = row

InStep == \A l \in RelevantLayers, row \in rows : row.layer_id = l => HasRow(cache[l], row)

RowsInv == rows \subseteq Experiments /\ IsFiniteSet(rows) /\ OneRowPerId

\* A list of the client: experiments of one layer, each once.
ListsOf(l) ==
    {list \in Seq({exp \in Experiments : exp.layer_id = l}) :
        \A i, j \in 1..Len(list) : list[i].id = list[j].id => i = j}

CacheInv ==
    /\ DOMAIN cache = RelevantLayers
    /\ \A l \in RelevantLayers : cache[l] \in ListsOf(l)

DecisionInv == RowsInv /\ CacheInv /\ now \in {1, 2} /\ InStep

-----------------------------------------------------------------------------
(* Lists.                                                                  *)

LEMMA ListFacts ==
    ASSUME NEW l, NEW list \in ListsOf(l)
    PROVE  /\ list \in Seq(Experiments)
           /\ Len(list) \in Nat
           /\ \A i \in 1..Len(list) : list[i] \in Experiments /\ list[i].layer_id = l
           /\ \A i, j \in 1..Len(list) : list[i].id = list[j].id => i = j
<1> DEFINE S == {exp \in Experiments : exp.layer_id = l}
<1>1. list \in Seq(S) /\ \A i, j \in 1..Len(list) : list[i].id = list[j].id => i = j
  BY DEF ListsOf
<1>2. Len(list) \in Nat /\ \A i \in 1..Len(list) : list[i] \in S
  <2> HIDE DEF S
  <2> QED
    BY <1>1
<1>3. Seq(S) \subseteq Seq(Experiments)
  OBVIOUS
<1> QED
  BY <1>1, <1>2, <1>3

\* What Put does to a list, either way.
LEMMA PutFacts ==
    ASSUME NEW l, NEW list \in ListsOf(l), NEW exp \in Experiments, exp.layer_id = l
    PROVE  /\ Put(list, exp) \in ListsOf(l)
           /\ \E i \in 1..Len(Put(list, exp)) : Put(list, exp)[i] = exp
           /\ \A i \in 1..Len(Put(list, exp)) : Put(list, exp)[i].id = exp.id => Put(list, exp)[i] = exp
           /\ \A i \in 1..Len(list) :
                  list[i].id # exp.id => i \in 1..Len(Put(list, exp)) /\ Put(list, exp)[i] = list[i]
           /\ \A i \in 1..Len(Put(list, exp)) :
                  Put(list, exp)[i].id # exp.id => i \in 1..Len(list) /\ list[i] = Put(list, exp)[i]
<1> DEFINE S == {x \in Experiments : x.layer_id = l}
           n == Len(list)
           new == Put(list, exp)
<1>1. n \in Nat /\ \A i \in 1..n : list[i] \in S
  BY ListFacts
<1>2. \A i, j \in 1..n : list[i].id = list[j].id => i = j
  BY ListFacts
<1>3. exp \in S
  OBVIOUS
<1>4. CASE \E k \in 1..n : list[k].id = exp.id
  <2>1. PICK k \in 1..n : list[k].id = exp.id
    BY <1>4
  <2>2. new = [i \in 1..n |-> IF list[i].id = exp.id THEN exp ELSE list[i]]
    BY <1>4 DEF Put
  <2>3. new \in Seq(S) /\ Len(new) = n
    <3> HIDE DEF new, S
    <3> QED
      BY <1>1, <1>3, <2>2
  <2>4. \A i \in 1..n : new[i] = IF list[i].id = exp.id THEN exp ELSE list[i]
    BY <2>2
  <2> HIDE DEF new, S, n
  <2>5. \A i \in 1..n : new[i].id = list[i].id
    BY <2>4
  <2>6. \A i, j \in 1..n : new[i].id = new[j].id => i = j
    BY <1>2, <2>5
  <2>7. new \in ListsOf(l)
    BY <2>3, <2>6 DEF ListsOf, S
  <2>8. new[k] = exp
    BY <2>1, <2>4
  <2> QED
    BY <2>1, <2>3, <2>4, <2>7, <2>8 DEF new, n
<1>5. CASE ~ \E k \in 1..n : list[k].id = exp.id
  <2>1. new = Append(list, exp)
    BY <1>5 DEF Put
  <2>2. list \in Seq(S)
    BY DEF ListsOf
  <2> HIDE DEF S
  <2>3. /\ new \in Seq(S)
        /\ Len(new) = n + 1
        /\ \A i \in 1..n : new[i] = list[i]
        /\ new[n + 1] = exp
    BY <1>1, <1>3, <2>1, <2>2
  <2> HIDE DEF new, n
  <2>4. \A i \in 1..(n + 1) : i \in 1..n \/ i = n + 1
    BY <1>1
  <2>5. \A i \in 1..n : i \in 1..(n + 1)
    BY <1>1
  <2>6. n + 1 \in 1..(n + 1)
    BY <1>1
  <2>7. \A i, j \in 1..(n + 1) : new[i].id = new[j].id => i = j
    BY <1>2, <1>5, <2>3, <2>4
  <2>8. new \in ListsOf(l)
    BY <2>3, <2>7 DEF ListsOf, S
  <2> QED
    BY <1>5, <2>3, <2>4, <2>5, <2>6, <2>8 DEF new, n
<1> QED
  BY <1>4, <1>5

\* The lists of a layer's active rows are lists the client may have.
LEMMA OrdersFacts ==
    ASSUME NEW l, NEW S, IsFiniteSet(S), S \subseteq {exp \in Experiments : exp.layer_id = l},
           \A r, s \in S : r.id = s.id => r = s,
           NEW list \in Orders(S)
    PROVE  /\ list \in ListsOf(l)
           /\ \A i \in 1..Len(list) : list[i] \in S
           /\ \A row \in S : \E i \in 1..Len(list) : list[i] = row
<1> DEFINE n == Cardinality(S)
<1>1. n \in Nat
  BY FS_CardinalityType
<1>2. list \in [1..n -> S] /\ \A i, j \in 1..n : list[i] = list[j] => i = j
  BY DEF Orders
<1>3. list \in Seq(S) /\ Len(list) = n
  <2> HIDE DEF n
  <2> QED
    BY <1>1, <1>2
<1>4. \A i \in 1..n : list[i] \in S
  BY <1>2
<1> HIDE DEF n
<1>5. \A i, j \in 1..n : list[i].id = list[j].id => i = j
  BY <1>2, <1>4
<1>6. Seq(S) \subseteq Seq({exp \in Experiments : exp.layer_id = l})
  OBVIOUS
<1>7. list \in ListsOf(l)
  BY <1>3, <1>5, <1>6 DEF ListsOf
<1>8. \A row \in S : \E i \in 1..n : list[i] = row
  <2>1. IsFiniteSet(1..n) /\ Cardinality(1..n) = n
    BY <1>1, FS_Interval
  <2>2. list \in Injection(1..n, S)
    BY <1>2 DEF Injection, IsInjective
  <2>3. list \in Surjection(1..n, S)
    BY <2>1, <2>2, FS_Injection DEF n
  <2> QED
    BY <2>3 DEF Surjection
<1> QED
  BY <1>3, <1>4, <1>7, <1>8

-----------------------------------------------------------------------------
(* The two deciders evaluate an experiment alike.                          *)

\* JSON turns a number into the float64 both toFloat64 take for it; a string, a
\* boolean or a float64 stays what it is.
LEMMA JsonValue ==
    ASSUME NEW attributes \in Contexts, NEW k \in DOMAIN attributes
    PROVE  /\ k \in DOMAIN Json(attributes)
           /\ attributes[k].type \notin GoNumeric => Json(attributes)[k] = attributes[k]
           /\ attributes[k].type \in GoNumeric =>
                  /\ Json(attributes)[k].type = "float64"
                  /\ Json(attributes)[k].val = attributes[k].val
<1>1. attributes[k] = [type |-> attributes[k].type, val |-> attributes[k].val]
  BY DecisionAssumption
<1>2. [attributes[k] EXCEPT !.type = "float64"] = [type |-> "float64", val |-> attributes[k].val]
  BY <1>1
<1> QED
  BY <1>2 DEF Json

\* What toFloat64 of the SDK makes of an attribute and that of the API of the
\* same as JSON, if the one is not distorted in the other.
LEMMA SameNumber ==
    ASSUME NEW attributes \in Contexts, NEW k \in DOMAIN attributes,
           ~Distorted(attributes, k)
    PROVE  ToFloat64(attributes[k], SdkNumeric) = ToFloat64(Json(attributes)[k], ApiNumeric)
<1> DEFINE v == attributes[k]
           w == Json(attributes)[k]
<1>1. CASE v.type \in GoNumeric
  <2>1. w.type = "float64" /\ w.val = v.val
    BY <1>1, JsonValue
  <2>2. v.type # "uint" /\ (v.type = "float32" => Widened[v.val] = v.val)
    BY DEF Distorted
  <2> HIDE DEF v, w
  <2>3. AsFloat64(v) = v.val /\ AsFloat64(w) = v.val
    BY <2>1, <2>2 DEF AsFloat64
  <2>4. v.type \in SdkNumeric /\ v.type # "string"
    BY <1>1, <2>2 DEF GoNumeric, SdkNumeric
  <2>5. ToFloat64(v, SdkNumeric) = ToFloat64(w, ApiNumeric)
    BY <2>1, <2>3, <2>4 DEF ToFloat64, ApiNumeric
  <2> QED
    BY <2>5 DEF v, w
<1>2. CASE v.type \notin GoNumeric
  <2>1. w = v
    BY <1>2, JsonValue
  <2> HIDE DEF v, w
  <2>2. v.type \in SdkNumeric <=> v.type \in ApiNumeric
    BY <1>2 DEF SdkNumeric, ApiNumeric, GoNumeric
  <2> QED
    BY <2>1, <2>2 DEF ToFloat64, v, w
<1> QED
  BY <1>1, <1>2

LEMMA SameVersion ==
    ASSUME NEW attributes \in Contexts, NEW k \in DOMAIN attributes
    PROVE  ToVersion(attributes[k]) = ToVersion(Json(attributes)[k])
<1>1. CASE attributes[k].type \in GoNumeric
  <2>1. Json(attributes)[k].type = "float64" /\ attributes[k].type # "string"
    BY <1>1, JsonValue DEF GoNumeric
  <2> QED
    BY <2>1 DEF ToVersion
<1>2. CASE attributes[k].type \notin GoNumeric
  BY <1>2, JsonValue
<1> QED
  BY <1>1, <1>2

\* Whatever the operator of the rule.
LEMMA SameRule ==
    ASSUME NEW attributes \in Contexts,
           \A k \in DOMAIN attributes : ~Distorted(attributes, k),
           NEW rule, rule.value.type \notin GoNumeric
    PROVE  EvaluateRule(attributes, rule, SdkNumeric) <=> EvaluateRule(Json(attributes), rule, ApiNumeric)
<1>1. DOMAIN Json(attributes) = DOMAIN attributes
  BY DEF Json
<1>2. SUFFICES ASSUME rule.attribute \in DOMAIN attributes
               PROVE  EvaluateRule(attributes, rule, SdkNumeric)
                          <=> EvaluateRule(Json(attributes), rule, ApiNumeric)
  BY <1>1 DEF EvaluateRule
<1> DEFINE v == attributes[rule.attribute]
           w == Json(attributes)[rule.attribute]
<1>3. Text(v) = Text(w)
  BY <1>2 DEF Distorted
<1>4. ToFloat64(v, SdkNumeric) = ToFloat64(w, ApiNumeric)
  BY <1>2, SameNumber
<1>5. ToFloat64(rule.value, SdkNumeric) = ToFloat64(rule.value, ApiNumeric)
  <2>1. rule.value.type \in SdkNumeric <=> rule.value.type \in ApiNumeric
    BY DEF SdkNumeric, ApiNumeric, GoNumeric
  <2> QED
    BY <2>1 DEF ToFloat64
<1>6. ToVersion(v) = ToVersion(w)
  BY <1>2, SameVersion
<1>7. rule.attribute \in DOMAIN Json(attributes)
  BY <1>1, <1>2
<1> HIDE DEF v, w
<1> QED
  BY <1>2, <1>3, <1>4, <1>5, <1>6, <1>7 DEF EvaluateRule, v, w

\* evaluateExperiment of the client answers what evaluateSingleExperiment of the
\* API answers, given the same experiment and the attributes as JSON.
LEMMA SameAnswers ==
    ASSUME NEW attributes \in Contexts,
           \A k \in DOMAIN attributes : ~Distorted(attributes, k),
           NEW exp \in Experiments, NEW user
    PROVE  EvaluateExperiment(exp, user, attributes)
               = EvaluateSingleExperiment(exp, user, Json(attributes))
<1>1. \A rule \in exp.targeting_rules : rule.value.type \notin GoNumeric
  BY BodiesAssumption
<1>2. CheckTargetingRules(exp, attributes, SdkNumeric)
          <=> CheckTargetingRules(exp, Json(attributes), ApiNumeric)
  BY <1>1, SameRule DEF CheckTargetingRules
<1> QED
  BY <1>2 DEF EvaluateExperiment, EvaluateSingleExperiment, Answers

\* Only an active experiment answers, and with its own id.
LEMMA AnswersFacts ==
    ASSUME NEW exp, NEW user, NEW attributes, NEW numeric,
           NEW a \in Answers(exp, user, attributes, numeric)
    PROVE  exp.status = "ACTIVE" /\ a.id = exp.id
BY DEF Answers

-----------------------------------------------------------------------------
(* The first of a list.                                                    *)

LEMMA FirstExists ==
    ASSUME NEW n \in Nat, NEW S \in SUBSET (1..n), S # {}
    PROVE  \E i \in S : FirstOf(S) = {i} /\ \A j \in S : i <= j
<1>1. S \in SUBSET Nat
  OBVIOUS
<1>2. PICK i \in S : \A j \in S : i <= j
  BY <1>1, LeastExists
<1>3. \A j \in S : i \in Nat /\ j \in Nat /\ (j <= i => i = j)
  BY <1>1, <1>2
<1> QED
  BY <1>2, <1>3 DEF FirstOf

LEMMA FirstOfNone == FirstOf({}) = {}
BY DEF FirstOf

\* The indices of a list whose experiments take somebody, given what each answers.
Taking(list, E) == {i \in 1..Len(list) : E[list[i]] # {}}

\* Decide, one layer, as a function of the list and of what each experiment answers.
FirstTaking(list, E) == UNION {E[list[i]] : i \in FirstOf(Taking(list, E))}

\* Nothing if no experiment of the list takes the user, else what the first says.
LEMMA FirstTakingFacts ==
    ASSUME NEW list, Len(list) \in Nat, NEW E
    PROVE  \/ Taking(list, E) = {} /\ FirstTaking(list, E) = {}
           \/ \E i \in Taking(list, E) :
                  /\ \A j \in Taking(list, E) : i <= j
                  /\ FirstTaking(list, E) = E[list[i]]
<1> DEFINE T == Taking(list, E)
<1>1. T \in SUBSET (1..Len(list))
  BY DEF Taking
<1>2. CASE T = {}
  BY <1>2, FirstOfNone DEF FirstTaking
<1>3. CASE T # {}
  <2>1. PICK i \in T : FirstOf(T) = {i} /\ \A j \in T : i <= j
    <3> HIDE DEF T
    <3> QED
      BY <1>1, <1>3, FirstExists
  <2>2. FirstTaking(list, E) = E[list[i]]
    BY <2>1 DEF FirstTaking
  <2> QED
    BY <2>1, <2>2
<1> QED
  BY <1>2, <1>3

\* What the experiments answer to this user, as a function.
EvaluatedBySdk(user, attributes) == [x \in Experiments |-> EvaluateExperiment(x, user, attributes)]

LEMMA SdkDecideIsFirst ==
    ASSUME CacheInv, NEW layer \in RelevantLayers, NEW user, NEW attributes
    PROVE  SdkDecide(layer, user, attributes)
               = FirstTaking(cache[layer], EvaluatedBySdk(user, attributes))
<1> DEFINE list == cache[layer]
           E == EvaluatedBySdk(user, attributes)
<1>1. \A i \in 1..Len(list) : E[list[i]] = EvaluateExperiment(list[i], user, attributes)
  BY ListFacts DEF CacheInv, EvaluatedBySdk
<1>2. {i \in 1..Len(list) : EvaluateExperiment(list[i], user, attributes) # {}} = Taking(list, E)
  BY <1>1 DEF Taking
<1>3. \A i \in FirstOf(Taking(list, E)) : i \in 1..Len(list)
  BY DEF FirstOf, Taking
<1>4. UNION {EvaluateExperiment(list[i], user, attributes) : i \in FirstOf(Taking(list, E))}
          = UNION {E[list[i]] : i \in FirstOf(Taking(list, E))}
  <2> HIDE DEF E
  <2> QED
    BY <1>1, <1>3
<1>5. SdkDecide(layer, user, attributes)
          = UNION {EvaluateExperiment(list[i], user, attributes) : i \in FirstOf(Taking(list, E))}
  BY <1>2 DEF SdkDecide
<1> QED
  BY <1>4, <1>5 DEF FirstTaking

-----------------------------------------------------------------------------
(* The inductive invariant.                                                *)

LEMMA InitDecision == Init => DecisionInv
<1> SUFFICES ASSUME Init
             PROVE  DecisionInv
  OBVIOUS
<1>1. RowsInv
  BY FS_EmptySet DEF Init, RowsInv, OneRowPerId
<1>2. \A l : <<>> \in ListsOf(l)
  <2> TAKE l
  <2> DEFINE S == {exp \in Experiments : exp.layer_id = l}
  <2>1. <<>> \in Seq(S) /\ Len(<<>>) = 0
    OBVIOUS
  <2> QED
    BY <2>1 DEF ListsOf
<1>3. CacheInv
  BY <1>2 DEF Init, CacheInv
<1> QED
  BY <1>1, <1>3 DEF Init, DecisionInv, InStep

\* What Change does, the experiment named.
ChangeTo(exp) ==
    /\ \/ \E row \in rows : row.id = exp.id
       \/ \A l \in RelevantLayers : \A i \in 1..Len(cache[l]) : cache[l][i].id # exp.id
    /\ rows' = {row \in rows : row.id # exp.id} \cup {exp}
    /\ cache' = [l \in RelevantLayers |->
                    IF l = exp.layer_id THEN Put(cache[l], exp) ELSE cache[l]]
    /\ now' = now

LEMMA ChangeIs == Change => \E exp \in Experiments : ChangeTo(exp)
BY DEF Change, ChangeTo

\* The list has the row of the experiment it was given.
LEMMA PutHasRow ==
    ASSUME NEW l, NEW list \in ListsOf(l), NEW exp \in Experiments, exp.layer_id = l
    PROVE  Put(list, exp) \in ListsOf(l) /\ HasRow(Put(list, exp), exp)
<1> DEFINE new == Put(list, exp)
<1>1. /\ new \in ListsOf(l)
      /\ \E i \in 1..Len(new) : new[i] = exp
      /\ \A i \in 1..Len(new) : new[i].id = exp.id => new[i] = exp
  BY PutFacts
<1> HIDE DEF new
<1>2. new \in ListsOf(l) /\ HasRow(new, exp)
  BY <1>1 DEF HasRow
<1> QED
  BY <1>2 DEF new

\* A row stays what the list of its layer has of it, whatever another experiment
\* becomes.
LEMMA PutKeepsRow ==
    ASSUME NEW l, NEW list \in ListsOf(l), NEW exp \in Experiments, exp.layer_id = l,
           NEW row, row.id # exp.id, HasRow(list, row)
    PROVE  HasRow(Put(list, exp), row)
<1> DEFINE new == Put(list, exp)
<1>1. \A i \in 1..Len(list) : list[i].id # exp.id => i \in 1..Len(new) /\ new[i] = list[i]
  BY PutFacts
<1>2. \A i \in 1..Len(new) : new[i].id # exp.id => i \in 1..Len(list) /\ list[i] = new[i]
  BY PutFacts
<1> HIDE DEF new
<1>3. row.status = "ACTIVE" => \E i \in 1..Len(new) : new[i] = row
  <2> SUFFICES ASSUME row.status = "ACTIVE"
               PROVE  \E i \in 1..Len(new) : new[i] = row
    OBVIOUS
  <2>1. PICK i \in 1..Len(list) : list[i] = row
    BY DEF HasRow
  <2> QED
    BY <1>1, <2>1
<1>4. ASSUME NEW i \in 1..Len(new), new[i].id = row.id
      PROVE  new[i] = row
  <2>1. i \in 1..Len(list) /\ list[i] = new[i]
    BY <1>2, <1>4
  <2> QED
    BY <1>4, <2>1 DEF HasRow
<1> QED
  BY <1>3, <1>4 DEF HasRow, new

LEMMA ChangeKeeps ==
    ASSUME DecisionInv, NEW exp \in Experiments, ChangeTo(exp)
    PROVE  DecisionInv'
<1>1. rows' = {row \in rows : row.id # exp.id} \cup {exp}
  BY DEF ChangeTo
<1>2. RowsInv'
  <2>1. IsFiniteSet({row \in rows : row.id # exp.id})
    <3>1. {row \in rows : row.id # exp.id} \in SUBSET rows
      OBVIOUS
    <3> QED
      BY <3>1, FS_Subset DEF DecisionInv, RowsInv
  <2>2. IsFiniteSet(rows')
    BY <1>1, <2>1, FS_AddElement
  <2>3. OneRowPerId'
    BY <1>1 DEF DecisionInv, RowsInv, OneRowPerId
  <2> QED
    BY <1>1, <2>2, <2>3 DEF DecisionInv, RowsInv
<1>3. /\ DOMAIN cache' = RelevantLayers
      /\ \A l \in RelevantLayers :
             cache'[l] = IF l = exp.layer_id THEN Put(cache[l], exp) ELSE cache[l]
  BY DEF ChangeTo
<1>4. \A l \in RelevantLayers : cache[l] \in ListsOf(l)
  BY DEF DecisionInv, CacheInv
<1>5. CacheInv'
  BY <1>3, <1>4, PutHasRow DEF CacheInv
<1>6. ASSUME NEW l \in RelevantLayers, NEW row \in rows', row.layer_id = l
      PROVE  HasRow(cache'[l], row)
  <2>1. CASE row = exp
    <3>1. cache'[l] = Put(cache[l], exp)
      BY <1>3, <1>6, <2>1
    <3>2. HasRow(Put(cache[l], exp), exp)
      BY <1>4, <1>6, <2>1, PutHasRow
    <3> QED
      BY <2>1, <3>1, <3>2
  <2>2. CASE row # exp
    <3>1. row \in rows /\ row.id # exp.id
      BY <1>1, <2>2
    <3>2. HasRow(cache[l], row)
      BY <1>6, <3>1 DEF DecisionInv, InStep
    <3>3. CASE l = exp.layer_id
      <4>1. HasRow(Put(cache[l], exp), row)
        BY <1>4, <3>1, <3>2, <3>3, PutKeepsRow
      <4> QED
        BY <1>3, <3>3, <4>1
    <3>4. CASE l # exp.layer_id
      <4>1. cache'[l] = cache[l]
        BY <1>3, <3>4
      <4> QED
        BY <3>2, <4>1
    <3> QED
      BY <3>3, <3>4
  <2> QED
    BY <2>1, <2>2
<1>7. InStep'
  BY <1>6 DEF InStep
<1> QED
  BY <1>2, <1>5, <1>7 DEF DecisionInv, ChangeTo

LEMMA DeleteKeeps ==
    ASSUME DecisionInv, Delete
    PROVE  DecisionInv'
<1>1. rows' \in SUBSET rows /\ cache' = cache /\ now' = now
  BY DEF Delete
<1>2. IsFiniteSet(rows')
  BY <1>1, FS_Subset DEF DecisionInv, RowsInv
<1>3. RowsInv'
  BY <1>1, <1>2 DEF DecisionInv, RowsInv, OneRowPerId
<1>4. CacheInv'
  BY <1>1 DEF DecisionInv, CacheInv
<1>5. InStep'
  BY <1>1 DEF DecisionInv, InStep
<1> QED
  BY <1>1, <1>3, <1>4, <1>5 DEF DecisionInv

\* The active rows of a layer, in any order, are a list in step with the table.
LEMMA RestartKeeps ==
    ASSUME DecisionInv, Restart
    PROVE  DecisionInv'
<1>1. /\ rows' = rows
      /\ now' = now
      /\ DOMAIN cache' = RelevantLayers
      /\ \A l \in RelevantLayers : cache'[l] \in Orders(ActiveIn(l))
  BY DEF Restart
<1>2. rows \subseteq Experiments /\ IsFiniteSet(rows) /\ \A r, s \in rows : r.id = s.id => r = s
  BY DEF DecisionInv, RowsInv, OneRowPerId
<1>3. ASSUME NEW l \in RelevantLayers
      PROVE  /\ cache'[l] \in ListsOf(l)
             /\ \A i \in 1..Len(cache'[l]) : cache'[l][i] \in ActiveIn(l)
             /\ \A row \in ActiveIn(l) : \E i \in 1..Len(cache'[l]) : cache'[l][i] = row
  <2>1. ActiveIn(l) \in SUBSET rows /\ ActiveIn(l) \subseteq {exp \in Experiments : exp.layer_id = l}
    BY <1>2 DEF ActiveIn, ActiveRows
  <2>2. IsFiniteSet(ActiveIn(l))
    BY <1>2, <2>1, FS_Subset
  <2>3. \A r, s \in ActiveIn(l) : r.id = s.id => r = s
    BY <1>2, <2>1
  <2>4. \A list \in Orders(ActiveIn(l)) :
            /\ list \in ListsOf(l)
            /\ \A i \in 1..Len(list) : list[i] \in ActiveIn(l)
            /\ \A row \in ActiveIn(l) : \E i \in 1..Len(list) : list[i] = row
    BY <2>1, <2>2, <2>3, OrdersFacts
  <2>5. cache'[l] \in Orders(ActiveIn(l))
    BY <1>1, <1>3
  <2> QED
    BY <2>4, <2>5
<1>4. RowsInv'
  BY <1>1 DEF DecisionInv, RowsInv, OneRowPerId
<1>5. CacheInv'
  BY <1>1, <1>3 DEF CacheInv
<1>6. ASSUME NEW l \in RelevantLayers, NEW row \in rows, row.layer_id = l
      PROVE  HasRow(cache'[l], row)
  <2>1. row.status = "ACTIVE" => row \in ActiveIn(l)
    BY <1>6 DEF ActiveIn, ActiveRows
  <2>2. \A r \in ActiveIn(l) : r \in rows
    BY DEF ActiveIn, ActiveRows
  <2> DEFINE list == cache'[l]
  <2>3. \A i \in 1..Len(list) : list[i] \in rows
    BY <1>3, <2>2
  <2>4. row.status = "ACTIVE" => \E i \in 1..Len(list) : list[i] = row
    BY <1>3, <2>1
  <2> HIDE DEF list
  <2>5. \A i \in 1..Len(list) : list[i].id = row.id => list[i] = row
    BY <1>2, <2>3
  <2>6. HasRow(list, row)
    BY <2>4, <2>5 DEF HasRow
  <2> QED
    BY <2>6 DEF list
<1>7. InStep'
  BY <1>1, <1>6 DEF InStep
<1> QED
  BY <1>1, <1>4, <1>5, <1>7 DEF DecisionInv

LEMMA NextKeeps == DecisionInv /\ [Next]_vars => DecisionInv'
<1> SUFFICES ASSUME DecisionInv, [Next]_vars
             PROVE  DecisionInv'
  OBVIOUS
<1>1. CASE Change
  BY <1>1, ChangeIs, ChangeKeeps
<1>2. CASE Delete
  BY <1>2, DeleteKeeps
<1>3. CASE Restart
  BY <1>3, RestartKeeps
<1>4. ASSUME rows' = rows, cache' = cache, now' \in {1, 2}
      PROVE  DecisionInv'
  <2>1. RowsInv'
    BY <1>4 DEF DecisionInv, RowsInv, OneRowPerId
  <2>2. CacheInv'
    BY <1>4 DEF DecisionInv, CacheInv
  <2>3. InStep'
    BY <1>4 DEF DecisionInv, InStep
  <2> QED
    BY <1>4, <2>1, <2>2, <2>3 DEF DecisionInv
<1>5. CASE Tick
  BY <1>4, <1>5 DEF Tick
<1>6. CASE UNCHANGED vars
  BY <1>4, <1>6 DEF vars, DecisionInv
<1> QED
  BY <1>1, <1>2, <1>3, <1>5, <1>6 DEF Next

LEMMA DecisionInvariant == Spec => []DecisionInv
BY InitDecision, NextKeeps, PTL DEF Spec

-----------------------------------------------------------------------------
(* What the deciders promise.                                              *)

\* The table holds experiments, and each list of the client experiments of its
\* layer, none in two versions: the delta of a change finds the version that is
\* there, and a snapshot has one row of each.
THEOREM DecisionTyping == Spec => []DecisionTypeOK
<1>1. DecisionInv => DecisionTypeOK
  <2> SUFFICES ASSUME DecisionInv
               PROVE  DecisionTypeOK
    OBVIOUS
  <2>1. \A l \in RelevantLayers :
            /\ cache[l] \in Seq({exp \in Experiments : exp.layer_id = l})
            /\ \A i, j \in 1..Len(cache[l]) : cache[l][i].id = cache[l][j].id => i = j
    BY DEF DecisionInv, CacheInv, ListsOf
  <2> QED
    BY <2>1 DEF DecisionInv, RowsInv, CacheInv, DecisionTypeOK
<1> QED
  BY <1>1, DecisionInvariant, PTL

\* The experiments of a list answer what the list of answers says.
LEMMA TakingIs ==
    ASSUME CacheInv, NEW layer \in RelevantLayers, NEW user, NEW attributes
    PROVE  LET list == cache[layer]
               E == EvaluatedBySdk(user, attributes)
           IN  /\ Len(list) \in Nat
               /\ \A i \in 1..Len(list) :
                      /\ list[i] \in Experiments
                      /\ list[i].layer_id = layer
                      /\ E[list[i]] = EvaluateExperiment(list[i], user, attributes)
<1>1. cache[layer] \in ListsOf(layer)
  BY DEF CacheInv
<1> QED
  BY <1>1, ListFacts DEF EvaluatedBySdk

LEMMA AgreesNow ==
    ASSUME DecisionInv, NEW layer \in RelevantLayers, NEW user, NEW attributes \in Contexts,
           \A k \in DOMAIN attributes : ~Distorted(attributes, k),
           NoOrphanTakes(layer, user, attributes)
    PROVE  LET sdk == SdkDecide(layer, user, attributes)
               api == ApiDecide(layer, user, Json(attributes))
           IN  sdk \subseteq api /\ (sdk = {} => api = {})
<1> DEFINE list == cache[layer]
           E == EvaluatedBySdk(user, attributes)
           sdk == SdkDecide(layer, user, attributes)
           api == ApiDecide(layer, user, Json(attributes))
<1>1. CacheInv /\ RowsInv /\ InStep
  BY DEF DecisionInv
<1>2. Len(list) \in Nat /\ sdk = FirstTaking(list, E)
  BY <1>1, SdkDecideIsFirst, TakingIs
<1>3. ASSUME NEW i \in 1..Len(list)
      PROVE  /\ list[i] \in Experiments
             /\ list[i].layer_id = layer
             /\ E[list[i]] = EvaluateSingleExperiment(list[i], user, Json(attributes))
             /\ E[list[i]] = EvaluateExperiment(list[i], user, attributes)
  BY <1>1, <1>3, TakingIs, SameAnswers
<1>4. ASSUME NEW i \in 1..Len(list), NEW a \in E[list[i]]
      PROVE  a.id = list[i].id /\ list[i].status = "ACTIVE"
  BY <1>3, <1>4, AnswersFacts DEF EvaluateExperiment
<1>5. sdk \subseteq api
  <2>1. SUFFICES ASSUME NEW a \in sdk
                 PROVE  a \in api
    OBVIOUS
  <2>2. PICK i \in 1..Len(list) : a \in E[list[i]]
    <3> HIDE DEF list, E, sdk
    <3> QED
      BY <1>2, <2>1, FirstTakingFacts DEF Taking
  <2>3. PICK row \in rows : row.id = list[i].id /\ row.layer_id = list[i].layer_id
    BY <1>4, <2>1, <2>2 DEF NoOrphanTakes, Orphan
  <2>4. row = list[i]
    BY <1>1, <1>3, <2>3 DEF InStep, HasRow
  <2>5. row \in ActiveIn(layer)
    BY <1>3, <1>4, <2>2, <2>3, <2>4 DEF ActiveIn, ActiveRows
  <2>6. a \in EvaluateSingleExperiment(row, user, Json(attributes))
    BY <1>3, <2>2, <2>4
  <2> QED
    BY <2>5, <2>6 DEF ApiDecide
<1>6. ASSUME sdk = {}, NEW a \in api
      PROVE  FALSE
  <2>1. PICK row \in ActiveIn(layer) : a \in EvaluateSingleExperiment(row, user, Json(attributes))
    BY <1>6 DEF ApiDecide
  <2>2. row \in rows /\ row.layer_id = layer /\ row.status = "ACTIVE"
    BY DEF ActiveIn, ActiveRows
  <2>3. PICK i \in 1..Len(list) : list[i] = row
    BY <1>1, <2>2 DEF InStep, HasRow
  <2>4. E[list[i]] # {}
    BY <1>3, <2>1, <2>3
  <2>5. i \in Taking(list, E)
    BY <2>4 DEF Taking
  <2>6. \A j \in Taking(list, E) : E[list[j]] # {}
    BY DEF Taking
  <2> HIDE DEF list, E, sdk
  <2> QED
    BY <1>2, <1>6, <2>5, <2>6, FirstTakingFacts
<1> QED
  BY <1>5, <1>6

\* The client's decision is one the API could have taken: of each row it has the
\* active version and no other, both evaluate an experiment alike, and the first
\* of a list that takes the user is one of the rows that do.
THEOREM Agreement == Spec => []ClientAgreesWithApi
<1>1. DecisionInv => ClientAgreesWithApi
  BY AgreesNow DEF ClientAgreesWithApi
<1> QED
  BY <1>1, DecisionInvariant, PTL

-----------------------------------------------------------------------------
(* Buckets.                                                                *)

\* The conversion of a bound to uint64: small numbers stay, negative ones become
\* larger than any bucket.
LEMMA Unsigned ==
    ASSUME NEW n \in Int, -UintSize <= 2 * n, 2 * n < UintSize
    PROVE  /\ n >= 0 => n % UintSize = n
           /\ n < 0 => n % UintSize = n + UintSize
<1>1. UintSize \in Nat
  BY DecisionAssumption
<1>2. CASE n >= 0
  <2>1. n \in 0..(UintSize - 1)
    BY <1>1, <1>2
  <2> QED
    BY <1>1, <1>2, <2>1
<1>3. CASE n < 0
  <2>1. n + UintSize \in 0..(UintSize - 1)
    BY <1>1, <1>3
  <2> QED
    BY <1>1, <1>3, <2>1
<1> QED
  BY <1>2, <1>3

\* Who is in a range.
LEMMA InRangeIs ==
    ASSUME NEW bucket \in Nat, 2 * bucket < UintSize, NEW range,
           \A bound \in {1, 2} : LET n == range[bound]
                                 IN  n \in Int /\ -UintSize <= 2 * n /\ 2 * n < UintSize
    PROVE  InRange(bucket, range)
               <=> range[1] \in 0..bucket /\ (bucket <= range[2] \/ range[2] < 0)
<1> DEFINE from == range[1]
           to == range[2]
<1>1. /\ from \in Int /\ -UintSize <= 2 * from /\ 2 * from < UintSize
      /\ to \in Int /\ -UintSize <= 2 * to /\ 2 * to < UintSize
  OBVIOUS
<1>2. UintSize \in Nat
  BY DecisionAssumption
<1> HIDE DEF from, to
<1>3. /\ from >= 0 => from % UintSize = from
      /\ from < 0 => from % UintSize = from + UintSize
      /\ to >= 0 => to % UintSize = to
      /\ to < 0 => to % UintSize = to + UintSize
  BY <1>1, Unsigned
<1> DEFINE f == from % UintSize
           t == to % UintSize
<1>4. InRange(bucket, range) <=> bucket >= f /\ bucket <= t
  BY DEF InRange, from, to
<1>5. (bucket >= f /\ bucket <= t) <=> (from \in 0..bucket /\ (bucket <= to \/ to < 0))
  <2> HIDE DEF f, t
  <2> QED
    BY <1>1, <1>2, <1>3 DEF f, t
<1> QED
  BY <1>4, <1>5 DEF from, to

\* The variants whose range has the user's bucket.
Hits(exp, user) ==
    {i \in 1..Len(exp.variants) : InRange(Bucket[user, exp.id], exp.variants[i].bucket_range)}

\* The first of them is the answer.
LEMMA BucketedIs ==
    ASSUME NEW exp \in Experiments, NEW user \in Users
    PROVE  \/ Hits(exp, user) = {} /\ Bucketed(exp, user) = {}
           \/ \E i \in Hits(exp, user) : Bucketed(exp, user) = {exp.variants[i].name}
<1>1. Len(exp.variants) \in Nat
  BY BodiesAssumption
<1>2. Hits(exp, user) \in SUBSET (1..Len(exp.variants))
  BY DEF Hits
<1>3. Bucketed(exp, user) = {exp.variants[i].name : i \in FirstOf(Hits(exp, user))}
  BY DEF Bucketed, Hits
<1>4. CASE Hits(exp, user) = {}
  BY <1>3, <1>4, FirstOfNone
<1>5. CASE Hits(exp, user) # {}
  <2>1. PICK i \in Hits(exp, user) : FirstOf(Hits(exp, user)) = {i}
    BY <1>1, <1>2, <1>5, FirstExists
  <2> QED
    BY <1>3, <2>1
<1> QED
  BY <1>4, <1>5

LEMMA BucketsOf ==
    ASSUME NEW exp \in Experiments, NEW user \in Users
    PROVE  LET bucket   == Bucket[user, exp.id]
               range(i) == exp.variants[i].bucket_range
               all      == 1..Len(exp.variants)
           IN  /\ \A i \in all :
                      (bucket \in range(i)[1]..range(i)[2] /\ range(i)[1] >= 0)
                          => Bucketed(exp, user) # {}
               /\ \A name \in Bucketed(exp, user) : \E i \in all :
                      /\ name = exp.variants[i].name
                      /\ range(i)[1] \in 0..bucket
                      /\ bucket <= range(i)[2] \/ range(i)[2] < 0
               /\ \A v, w \in Bucketed(exp, user) : v = w
<1> DEFINE bucket == Bucket[user, exp.id]
           range(i) == exp.variants[i].bucket_range
           all == 1..Len(exp.variants)
<1>1. bucket \in Nat /\ 2 * bucket < UintSize
  BY BodiesAssumption, DecisionAssumption
<1>2. \A i \in all : InRange(bucket, range(i))
                         <=> range(i)[1] \in 0..bucket /\ (bucket <= range(i)[2] \/ range(i)[2] < 0)
  <2> TAKE i \in all
  <2>1. \A bound \in {1, 2} : LET n == range(i)[bound]
                              IN  n \in Int /\ -UintSize <= 2 * n /\ 2 * n < UintSize
    BY BodiesAssumption
  <2> HIDE DEF bucket, range
  <2> QED
    BY <1>1, <2>1, InRangeIs
<1>3. \/ Hits(exp, user) = {} /\ Bucketed(exp, user) = {}
      \/ \E i \in Hits(exp, user) : Bucketed(exp, user) = {exp.variants[i].name}
  BY BucketedIs
<1>4. ASSUME NEW i \in all, bucket \in range(i)[1]..range(i)[2], range(i)[1] >= 0
      PROVE  Bucketed(exp, user) # {}
  <2>1. range(i)[1] \in Int /\ range(i)[2] \in Int
    BY BodiesAssumption
  <2>2. range(i)[1] \in 0..bucket /\ bucket <= range(i)[2]
    <3> HIDE DEF bucket, range
    <3> QED
      BY <1>1, <1>4, <2>1
  <2>3. i \in Hits(exp, user)
    BY <1>2, <2>2 DEF Hits
  <2> QED
    BY <1>3, <2>3
<1>5. \A name \in Bucketed(exp, user) : \E i \in all :
          /\ name = exp.variants[i].name
          /\ range(i)[1] \in 0..bucket
          /\ bucket <= range(i)[2] \/ range(i)[2] < 0
  <2>1. \A i \in Hits(exp, user) : i \in all /\ InRange(bucket, range(i))
    BY DEF Hits
  <2> HIDE DEF bucket, range, all
  <2> QED
    BY <1>2, <1>3, <2>1
<1>6. \A v, w \in Bucketed(exp, user) : v = w
  BY <1>3
<1> QED
  BY <1>4, <1>5, <1>6

\* Buckets are used as the documentation says, in every experiment a request can
\* make: both bounds count, one variant at most is answered, and the conversion of
\* the bounds to uint64 matters for negative ones only.
THEOREM Buckets == Spec => []BucketsAsDocumented
<1>1. DecisionInv => BucketsAsDocumented
  BY BucketsOf DEF DecisionInv, RowsInv, BucketsAsDocumented
<1> QED
  BY <1>1, DecisionInvariant, PTL

-----------------------------------------------------------------------------
(* The sort application.                                                   *)

\* An experiment has at most one answer for whom it does not force into two variants.
LEMMA OneAnswer ==
    ASSUME NEW exp \in Experiments, NEW user \in Users, NEW attributes, NEW numeric,
           ~(Cardinality(Forced(exp, user)) > 1)
    PROVE  \A a, b \in Answers(exp, user, attributes, numeric) : a = b
<1>1. \A v, w \in Bucketed(exp, user) : v = w
  BY BucketsOf
<1>2. \A v, w \in Forced(exp, user) : v = w
  <2>1. Forced(exp, user) \in SUBSET DOMAIN exp.force_include
    BY DEF Forced
  <2>2. IsFiniteSet(DOMAIN exp.force_include)
    BY BodiesAssumption
  <2>3. IsFiniteSet(Forced(exp, user))
    BY <2>1, <2>2, FS_Subset
  <2>4. Cardinality(Forced(exp, user)) \in Nat
    BY <2>3, FS_CardinalityType
  <2>5. SUFFICES ASSUME NEW v \in Forced(exp, user), NEW w \in Forced(exp, user), v # w
                 PROVE  FALSE
    OBVIOUS
  <2>6. IsFiniteSet({v}) /\ Cardinality({v}) = 1
    BY FS_Singleton
  <2>7. Cardinality({v} \cup {w}) = 2
    BY <2>5, <2>6, FS_AddElement
  <2>8. {v} \cup {w} \in SUBSET Forced(exp, user)
    BY <2>5
  <2>9. Cardinality({v} \cup {w}) <= Cardinality(Forced(exp, user))
    BY <2>3, <2>8, FS_Subset
  <2> QED
    BY <2>4, <2>7, <2>9
<1> QED
  BY <1>1, <1>2 DEF Answers

LEMMA SortAppNow ==
    ASSUME DecisionInv, NEW layer, RelevantLayers = {layer}, NEW user \in Users,
           \A l \in RelevantLayers : \A i \in 1..Len(cache[l]) :
               ~(Cardinality(Forced(cache[l][i], user)) > 1)
    PROVE  Cardinality(SortApp(user)) = 1
<1> DEFINE list == cache[layer]
           E == EvaluatedBySdk(user, SortAttributes)
           all == Decide(user, SortAttributes, NoOverrides)
           variants == {a.variant : a \in all}
<1>1. CacheInv /\ layer \in RelevantLayers
  BY DEF DecisionInv
<1>2. Len(list) \in Nat /\ SdkDecide(layer, user, SortAttributes) = FirstTaking(list, E)
  BY <1>1, SdkDecideIsFirst, TakingIs
<1>3. \A i \in 1..Len(list) : \A a, b \in E[list[i]] : a = b
  <2> TAKE i \in 1..Len(list)
  <2>1. list[i] \in Experiments /\ E[list[i]] = EvaluateExperiment(list[i], user, SortAttributes)
    BY <1>1, TakingIs
  <2>2. ~(Cardinality(Forced(list[i], user)) > 1)
    BY <1>1
  <2> HIDE DEF list, E
  <2> QED
    BY <2>1, <2>2, OneAnswer DEF EvaluateExperiment
<1>4. \A a, b \in SdkDecide(layer, user, SortAttributes) : a = b
  <2>1. \A i \in Taking(list, E) : i \in 1..Len(list)
    BY DEF Taking
  <2>2. \/ SdkDecide(layer, user, SortAttributes) = {}
        \/ \E i \in 1..Len(list) : SdkDecide(layer, user, SortAttributes) = E[list[i]]
    <3> HIDE DEF list, E
    <3> QED
      BY <1>2, <2>1, FirstTakingFacts
  <2> HIDE DEF list, E
  <2> QED
    BY <1>3, <2>2
<1>5. all \subseteq SdkDecide(layer, user, SortAttributes)
  <2>1. UNION {SdkDecide(l, user, SortAttributes) : l \in RelevantLayers}
            = SdkDecide(layer, user, SortAttributes)
    OBVIOUS
  <2>2. DOMAIN NoOverrides = {}
    BY DEF NoOverrides
  <2> QED
    BY <2>1, <2>2 DEF Decide
<1>6. variants = {} \/ \E v : variants = {v}
  <2> HIDE DEF all
  <2> QED
    BY <1>4, <1>5
<1>7. SortApp(user) = {Response(v) : v \in IF variants = {} THEN {""} ELSE variants}
  BY DEF SortApp
<1>8. \E v : SortApp(user) = {Response(v)}
  <2> HIDE DEF variants
  <2>1. CASE variants = {}
    <3>1. SortApp(user) = {Response(v) : v \in {""}}
      BY <1>7, <2>1
    <3>2. SortApp(user) = {Response("")}
      BY <3>1
    <3> QED
      BY <3>2
  <2>2. ASSUME NEW v, variants = {v}
        PROVE  SortApp(user) = {Response(v)}
    BY <1>7, <2>2
  <2> QED
    BY <1>6, <2>1, <2>2
<1> QED
  BY <1>8, FS_Singleton

\* The sort application asks for one layer; then nothing that sortHandler takes
\* from the map of assignments hangs on the order of that map.
THEOREM OneSort ==
    ASSUME \E layer : RelevantLayers = {layer}
    PROVE  Spec => []SortAppPicksOne
<1>1. DecisionInv => SortAppPicksOne
  BY SortAppNow DEF SortAppPicksOne
<1> QED
  BY <1>1, DecisionInvariant, PTL

-----------------------------------------------------------------------------
(* What a change moves.                                                    *)

\* An experiment that becomes another one, or is new, moves a user into it or out
\* of it; whoever is decided by an experiment before it in the list stays.
LEMMA PutDecides ==
    ASSUME NEW l, NEW list \in ListsOf(l), NEW exp \in Experiments, exp.layer_id = l,
           NEW E, \A x \in Experiments : \A a \in E[x] : a.id = x.id
    PROVE  LET old == FirstTaking(list, E)
               new == FirstTaking(Put(list, exp), E)
           IN  \/ new = old
               \/ old = {} /\ {a.id : a \in new} = {exp.id}
               \/ /\ \E i \in 1..Len(list) : list[i].id = exp.id
                  /\ exp.id \in {a.id : a \in old \cup new}
<1> DEFINE put == Put(list, exp)
           old == FirstTaking(list, E)
           new == FirstTaking(put, E)
           T == Taking(list, E)
           U == Taking(put, E)
<1>1. /\ Len(list) \in Nat
      /\ \A i \in 1..Len(list) : list[i] \in Experiments
  BY ListFacts
<1>2. put \in ListsOf(l)
  BY PutFacts
<1>3. Len(put) \in Nat /\ \A i \in 1..Len(put) : put[i] \in Experiments
  BY <1>2, ListFacts
<1>4. \A i \in 1..Len(put) : put[i].id = exp.id => put[i] = exp
  BY PutFacts
<1>5. \A i \in 1..Len(list) : list[i].id # exp.id => i \in 1..Len(put) /\ put[i] = list[i]
  BY PutFacts
<1>6. \A i \in 1..Len(put) : put[i].id # exp.id => i \in 1..Len(list) /\ list[i] = put[i]
  BY PutFacts
<1>7. \/ T = {} /\ old = {}
      \/ \E i \in T : (\A j \in T : i <= j) /\ old = E[list[i]]
  BY <1>1, FirstTakingFacts
<1>8. \/ U = {} /\ new = {}
      \/ \E i \in U : (\A j \in U : i <= j) /\ new = E[put[i]]
  BY <1>3, FirstTakingFacts
<1>9. /\ \A i : i \in T <=> i \in 1..Len(list) /\ E[list[i]] # {}
      /\ \A i : i \in U <=> i \in 1..Len(put) /\ E[put[i]] # {}
  BY DEF Taking
<1> HIDE DEF put, old, new, T, U
<1>10. /\ \A i \in T : list[i].id # exp.id => i \in U /\ put[i] = list[i]
       /\ \A i \in U : put[i].id # exp.id => i \in T /\ put[i] = list[i]
  BY <1>5, <1>6, <1>9
<1>11. CASE \E i \in T : list[i].id = exp.id /\ old = E[list[i]]
  <2>1. PICK i \in T : list[i].id = exp.id /\ old = E[list[i]]
    BY <1>11
  <2>2. PICK a \in old : a.id = exp.id
    BY <1>1, <1>9, <2>1
  <2>3. i \in 1..Len(list)
    BY <1>9
  <2> QED
    BY <2>1, <2>2, <2>3 DEF old, new, put
<1>12. CASE /\ ~ \E i \in T : list[i].id = exp.id /\ old = E[list[i]]
            /\ \E i \in U : put[i].id = exp.id /\ (\A j \in U : i <= j) /\ new = E[put[i]]
  <2>1. PICK k \in U : put[k].id = exp.id /\ (\A j \in U : k <= j) /\ new = E[put[k]]
    BY <1>12
  <2>2. k \in 1..Len(put) /\ put[k] = exp /\ E[exp] # {}
    BY <1>4, <1>9, <2>1
  <2>3. new # {} /\ \A a \in new : a.id = exp.id
    BY <2>1, <2>2
  <2>4. {a.id : a \in new} = {exp.id}
    BY <2>3
  <2>5. CASE T = {}
    BY <1>7, <2>4, <2>5 DEF old, new, put
  <2>6. CASE T # {}
    <3>1. PICK i \in T : old = E[list[i]]
      BY <1>7, <2>6
    <3>2. i \in U /\ i \in 1..Len(list)
      BY <1>9, <1>10, <1>12, <3>1
    <3>3. k <= i
      BY <2>1, <3>2
    <3>4. k \in 1..Len(list)
      BY <1>1, <1>3, <2>2, <3>2, <3>3
    <3>5. list[k].id = exp.id
      BY <1>5, <2>1, <3>4
    <3>6. exp.id \in {a.id : a \in old \cup new}
      BY <2>3
    <3> QED
      BY <3>4, <3>5, <3>6 DEF old, new, put
  <2> QED
    BY <2>5, <2>6
<1>13. CASE /\ ~ \E i \in T : list[i].id = exp.id /\ old = E[list[i]]
            /\ ~ \E i \in U : put[i].id = exp.id /\ (\A j \in U : i <= j) /\ new = E[put[i]]
  <2>1. CASE T = {}
    <3>1. U = {}
      BY <1>8, <1>10, <1>13, <2>1
    <3> QED
      BY <1>7, <1>8, <2>1, <3>1 DEF old, new, put
  <2>2. CASE T # {}
    <3>1. PICK i \in T : (\A j \in T : i <= j) /\ old = E[list[i]]
      BY <1>7, <2>2
    <3>2. i \in U /\ put[i] = list[i]
      BY <1>10, <1>13, <3>1
    <3>3. PICK k \in U : (\A j \in U : k <= j) /\ new = E[put[k]]
      BY <1>8, <3>2
    <3>4. k \in T
      BY <1>10, <1>13, <3>3
    <3>5. i <= k /\ k <= i
      BY <3>1, <3>2, <3>3, <3>4
    <3>6. i = k
      BY <1>1, <1>9, <3>1, <3>4, <3>5
    <3>7. new = old
      BY <3>1, <3>2, <3>3, <3>6
    <3> QED
      BY <3>7 DEF old, new, put
  <2> QED
    BY <2>1, <2>2
<1> QED
  BY <1>11, <1>12, <1>13

\* SdkDecideIsFirst of the state a step ends in.
DecidesFirst ==
    \A layer \in RelevantLayers : \A user, attributes :
        SdkDecide(layer, user, attributes)
            = FirstTaking(cache[layer], EvaluatedBySdk(user, attributes))

LEMMA DecidesFirstNow == CacheInv => DecidesFirst
BY SdkDecideIsFirst DEF DecidesFirst

LEMMA DecidesFirstAfter == CacheInv' => DecidesFirst'
BY DecidesFirstNow, PTL

\* Time does not pass in a change, so the others answer what they answered.
LEMMA SameTime ==
    ASSUME NEW user, NEW attributes, now' = now
    PROVE  EvaluatedBySdk(user, attributes)' = EvaluatedBySdk(user, attributes)
<1>1. \A x : EvaluateExperiment(x, user, attributes)' = EvaluateExperiment(x, user, attributes)
  BY DEF EvaluateExperiment, Answers, Ended
<1> QED
  BY <1>1 DEF EvaluatedBySdk

LEMMA ChangeMoves ==
    ASSUME DecisionInv, DecisionInv', NEW exp \in Experiments, ChangeTo(exp),
           NEW layer \in RelevantLayers, NEW user, NEW attributes
    PROVE  LET old == SdkDecide(layer, user, attributes)
               new == SdkDecide(layer, user, attributes)'
           IN  \/ new = old
               \/ old = {} /\ {a.id : a \in new} = {exp.id}
               \/ /\ \E row \in rows : row.id = exp.id
                  /\ exp.id \in {a.id : a \in old \cup new}
<1> DEFINE E == EvaluatedBySdk(user, attributes)
           old == SdkDecide(layer, user, attributes)
           new == SdkDecide(layer, user, attributes)'
<1>1. CacheInv /\ CacheInv' /\ cache[layer] \in ListsOf(layer)
  BY DEF DecisionInv, CacheInv
<1>2. old = FirstTaking(cache[layer], E)
  BY <1>1, SdkDecideIsFirst
<1>3. new = FirstTaking(cache'[layer], E')
  BY <1>1, DecidesFirstAfter DEF DecidesFirst
<1>4. E' = E
  BY SameTime DEF ChangeTo
<1>5. cache'[layer] = IF layer = exp.layer_id THEN Put(cache[layer], exp) ELSE cache[layer]
  BY DEF ChangeTo
<1>6. \A x \in Experiments : \A a \in E[x] : a.id = x.id
  BY AnswersFacts DEF EvaluatedBySdk, EvaluateExperiment
<1> HIDE DEF E, old, new
<1>7. CASE layer # exp.layer_id
  BY <1>2, <1>3, <1>4, <1>5, <1>7 DEF old, new
<1>8. CASE layer = exp.layer_id
  <2>1. new = FirstTaking(Put(cache[layer], exp), E)
    BY <1>3, <1>4, <1>5, <1>8
  <2>2. \/ new = old
        \/ old = {} /\ {a.id : a \in new} = {exp.id}
        \/ /\ \E i \in 1..Len(cache[layer]) : cache[layer][i].id = exp.id
           /\ exp.id \in {a.id : a \in old \cup new}
    BY <1>1, <1>2, <1>6, <1>8, <2>1, PutDecides
  <2>3. (\E i \in 1..Len(cache[layer]) : cache[layer][i].id = exp.id) => \E row \in rows : row.id = exp.id
    BY DEF ChangeTo
  <2> QED
    BY <2>2, <2>3 DEF old, new
<1> QED
  BY <1>7, <1>8

\* A change reassigns nobody but between the changed experiment and the others of
\* its layer: applyDelta leaves every other experiment at its place, and a new one
\* comes after all.
THEOREM Stability == Spec => ChangesOnlyItsOwn
<1> DEFINE Moves(exp, layer, user, attributes) ==
               LET old == SdkDecide(layer, user, attributes)
                   new == SdkDecide(layer, user, attributes)'
               IN  \/ new = old
                   \/ old = {} /\ {a.id : a \in new} = {exp.id}
                   \/ /\ \E row \in rows : row.id = exp.id
                      /\ exp.id \in {a.id : a \in old \cup new}
           Stable == \A exp \in rows' \ rows, layer \in RelevantLayers, user \in Users,
                        attributes \in Contexts : Moves(exp, layer, user, attributes)
<1>1. DecisionInv /\ DecisionInv' /\ [Next]_vars => [Stable]_vars
  <2> SUFFICES ASSUME DecisionInv, DecisionInv', Next
               PROVE  Stable
    OBVIOUS
  <2>1. CASE Change
    <3>1. PICK exp \in Experiments : ChangeTo(exp)
      BY <2>1, ChangeIs
    <3>2. \A x \in rows' \ rows : x = exp
      BY <3>1 DEF ChangeTo
    <3>3. \A layer \in RelevantLayers, user \in Users, attributes \in Contexts :
              Moves(exp, layer, user, attributes)
      BY <3>1, ChangeMoves
    <3> HIDE DEF Moves
    <3> QED
      BY <3>2, <3>3
  <2>2. CASE Delete \/ Restart \/ Tick
    <3>1. rows' \ rows = {}
      BY <2>2 DEF Delete, Restart, Tick
    <3> HIDE DEF Moves
    <3> QED
      BY <3>1
  <2> QED
    BY <2>1, <2>2 DEF Next
<1>2. Spec => [][Stable]_vars
  BY <1>1, DecisionInvariant, PTL DEF Spec
<1> QED
  BY <1>2 DEF ChangesOnlyItsOwn
=============================================================================
