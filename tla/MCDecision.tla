----------------------------- MODULE MCDecision -----------------------------
(***************************************************************************)
(* Decision on a small instance: ten buckets, two experiments of two       *)
(* layers, a client of one of them.                                        *)
(***************************************************************************)
EXTENDS Decision

CONSTANTS e1, e2

Float(n) == [type |-> "float64", val |-> n]
String(s) == [type |-> "string", val |-> s]
List(S) == [type |-> "list", val |-> S]

Rule(attribute, operator, value) ==
    [attribute |-> attribute, operator |-> operator, value |-> value]

SortTest == Rule("use_sort_test", "EQUALS", SortAttributes.use_sort_test)

Variants(from, to) ==
    <<[name |-> "variant-a-asc", bucket_range |-> <<from, 4>>],
      [name |-> "variant-b-desc", bucket_range |-> <<5, to>>]>>

Plain ==
    [status |-> "ACTIVE", end_time |-> 0, targeting_rules |-> {SortTest},
     force_include |-> <<>>, force_exclude |-> {}, variants |-> Variants(0, 9)]

\* What requests say: the experiment of test.sh and paused; of the first also
\* users forced and excluded, an end, each operator, one that nothing evaluates,
\* and bounds below zero.
Common == {Plain, [Plain EXCEPT !.status = "PAUSED"]}

MCBodies ==
    e1 :> Common \cup
    {[Plain EXCEPT !.force_include = [v \in {"variant-a-asc"} |-> {"u2"}],
                   !.force_exclude = {"u1"}, !.end_time = 1],
     [Plain EXCEPT !.force_include = [v \in {"variant-a-asc", "variant-b-desc"} |-> {"u1", "u2"}],
                   !.force_exclude = {"u2"}],
     [Plain EXCEPT !.targeting_rules = {Rule("level", "GREATER_THAN", Float(5))},
                   !.variants = Variants(-1, -1)],
     [Plain EXCEPT !.targeting_rules = {Rule("level", "IN_LIST", List({String("7"), Float(5)}))}],
     [Plain EXCEPT !.targeting_rules = {Rule("level", "EQUALS", Float(1000000))}],
     [Plain EXCEPT !.targeting_rules = {Rule("level", "NOT_EQUALS", Float(5))}],
     [Plain EXCEPT !.targeting_rules = {SortTest, Rule("level", "VERSION_GREATER_THAN", String("5"))}]}
    @@ e2 :> Common

\* Let 5 stand for a number such as 0.1, which no float32 holds exactly, and 6
\* for what float64() makes of the float32 that is nearest to it.
MCWidened == [n \in {5, 6, 7, 1000000} |-> IF n = 5 THEN 6 ELSE n]

\* The sort application's attributes, and with a level in every type.
MCContexts ==
    {SortAttributes}
        \cup {SortAttributes @@ "level" :> v :
                  v \in {Float(1000000), String("7"), String("ru"), [type |-> "int", val |-> 7],
                         [type |-> "int64", val |-> 7], [type |-> "int64", val |-> 1000000],
                         [type |-> "uint", val |-> 7],
                         [type |-> "float32", val |-> 5], [type |-> "float32", val |-> 7]}}

\* One user on each side of the middle.
MCBucket == [x \in {"", "u1", "u2"} \X {e1, e2} |-> IF x[1] = "u1" THEN 4 ELSE 5]
=============================================================================
