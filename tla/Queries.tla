------------------------------ MODULE Queries ------------------------------
(***************************************************************************)
(* A node's metadata, typed when it is parsed, and what the `intent`       *)
(* command reads from it: the predicates of --where, the aggregates, the   *)
(* count of activations.                                                   *)
(*                                                                         *)
(* A text is a name; what the parsers of booleans, integers and floats     *)
(* make of it is given by constants.  A float is a whole number (the       *)
(* tolerance of 1e-9 in its comparisons is then equality), "NaN", "inf" or *)
(* "-inf", which the parser of floats takes too.                           *)
(***************************************************************************)
EXTENDS Naturals, FiniteSets, SequencesExt

CONSTANTS
  Accepted, \* Accepted[text]: the types whose parser takes it
  Numeral,  \* Numeral[text]: the number it is read as, 0 when it is none
  Plain     \* Plain[text]: how the value it is read as is displayed

IntValue(i) == [type |-> "Int", num |-> i, repr |-> ToString(i)]
\* The most specific type that takes the text.
Parse(t) ==
  LET type == IF "Bool" \in Accepted[t] THEN "Bool"
              ELSE IF "Int" \in Accepted[t] THEN "Int"
              ELSE IF "Float" \in Accepted[t] THEN "Float" ELSE "String"
  IN [type |-> type, num |-> Numeral[t], repr |-> Plain[t]]

IsNumber(v) == v.type \in {"Int", "Float"}
IsNaN(v) == v.repr = "NaN"
IsFinite(v) == v.repr \notin {"NaN", "inf", "-inf"}

\* What a value displays is read back as it: as an integer, maybe, from a float.
ASSUME TextAssumption ==
  /\ DOMAIN Accepted = DOMAIN Numeral /\ DOMAIN Accepted = DOMAIN Plain
  /\ \A t \in DOMAIN Accepted : LET v == Parse(t)
                                 again == Parse(v.repr) IN
       /\ v.num \in Nat /\ v.repr \in DOMAIN Accepted
       /\ again.num = v.num /\ again.repr = v.repr
       /\ again.type = v.type \/ (IsNumber(v) /\ IsNumber(again))
       /\ v.type = "Int" => IsFinite(v)

NoMetadata == [k \in {} |-> IntValue(0)]

IsMetadata(meta) ==
  \A k \in DOMAIN meta : meta[k].type \in {"Bool", "Int", "Float", "String"} /\ meta[k].num \in Nat

AllFinite(meta) == \A k \in DOMAIN meta : meta[k].type = "Float" => IsFinite(meta[k])

\* --meta key=value, repeated: the last one of a key counts.
ParseMeta(args) ==
  [k \in {args[n].key : n \in DOMAIN args} |->
     LET last == CHOOSE n \in DOMAIN args : /\ args[n].key = k
                                            /\ \A m \in DOMAIN args : args[m].key = k => m <= n
     IN Parse(args[last].text)]

Merged(meta, more) ==
  [k \in DOMAIN meta \cup DOMAIN more |-> IF k \in DOMAIN more THEN more[k] ELSE meta[k]]

Activations(meta) ==
  IF "activation_count" \in DOMAIN meta /\ meta["activation_count"].type = "Int"
  THEN meta["activation_count"].num ELSE 0

WithCount(meta, n) == Merged(meta, [k \in {"activation_count"} |-> IntValue(n)])
StampActivation(meta) == WithCount(meta, Activations(meta) + 1)

\* A string too: whoever adds kind=systemic adds a systemic node.
IsSystemic(meta) == "kind" \in DOMAIN meta /\ meta["kind"].repr = "systemic"

(***************************************************************************)
(* Predicates: [key, op, text].  A part of a clause that is no predicate   *)
(* is dropped with a warning; what is left is a conjunction.               *)
(***************************************************************************)
NoPredicate == [key |-> "", op |-> "", text |-> ""]
ParsePredicates(clause) == SelectSeq(clause, LAMBDA part : part # NoPredicate)

Below(a, b) ==
  LET rank(v) == CASE v.repr = "-inf" -> 0 [] v.repr = "inf" -> 2 [] OTHER -> 1
  IN rank(a) < rank(b) \/ (IsFinite(a) /\ IsFinite(b) /\ a.num < b.num)

\* = and != look at the difference of two numbers, which of two infinities of one
\* sign is none: they are neither equal nor different.
Compares(op, a, b) ==
  /\ ~IsNaN(a) /\ ~IsNaN(b)
  /\ \/ op = "=" /\ IsFinite(a) /\ IsFinite(b) /\ a.num = b.num
     \/ op = "!=" /\ (Below(a, b) \/ Below(b, a))
     \/ op = ">" /\ Below(b, a)
     \/ op = "<" /\ Below(a, b)
     \/ op = ">=" /\ ~Below(a, b)
     \/ op = "<=" /\ ~Below(b, a)

\* A key the node does not have never matches; of values that are not both numbers
\* only = and != are asked, of strings at last.
PredicateMatches(meta, p) ==
  /\ p.key \in DOMAIN meta
  /\ LET a == meta[p.key]
         b == Parse(p.text)
     IN IF IsNumber(a) /\ IsNumber(b)
        THEN Compares(p.op, a, b)
        ELSE LET other == IF a.type = b.type THEN b.repr ELSE p.text
             IN p.op \in {"=", "!="} /\ (a.repr = other) = (p.op = "=")

\* nodes: a function to records with a field meta.
Matching(nodes, clause) ==
  LET ps == ParsePredicates(clause)
  IN {i \in DOMAIN nodes : \A n \in DOMAIN ps : PredicateMatches(nodes[i].meta, ps[n])}

(***************************************************************************)
(* Aggregates: a sequence of one number, of a sum and how many for avg,    *)
(* empty when the result is not a finite number.                           *)
(***************************************************************************)
Total(values) == SumFunction([i \in DOMAIN values |-> values[i].num])

ComputeAggregate(op, values) ==
  LET finite == {i \in DOMAIN values : IsFinite(values[i])}
      nums == {values[i].num : i \in finite}
      some(repr) == \E i \in DOMAIN values : values[i].repr = repr
  IN IF DOMAIN values = {} THEN <<0>>
     ELSE CASE op = "count" -> <<Cardinality(DOMAIN values)>>
            [] op = "sum" -> IF finite = DOMAIN values THEN <<Total(values)>> ELSE <<>>
            [] op = "avg" -> IF finite = DOMAIN values
                             THEN <<Total(values), Cardinality(finite)>> ELSE <<>>
            [] op = "min" -> IF nums = {} \/ some("-inf") THEN <<>> ELSE <<Min(nums)>>
            [] op = "max" -> IF nums = {} \/ some("inf") THEN <<>> ELSE <<Max(nums)>>

HasNumber(meta, field) == field \in DOMAIN meta /\ IsNumber(meta[field])

\* Of the nodes that have the field.
Flat(nodes, clause, op, field) ==
  LET ids == Matching(nodes, clause)
  IN IF op = "count" THEN <<Cardinality(ids)>>
     ELSE ComputeAggregate(op, [i \in {j \in ids : HasNumber(nodes[j].meta, field)} |->
                                  nodes[i].meta[field]])

\* A node without the field counts as 0, one without the group's key as "(none)".
Grouped(nodes, clause, op, field, by) ==
  LET ids == Matching(nodes, clause)
      group(i) == IF by \in DOMAIN nodes[i].meta THEN nodes[i].meta[by].repr ELSE "(none)"
      value(i) == IF op # "count" /\ HasNumber(nodes[i].meta, field)
                  THEN nodes[i].meta[field] ELSE IntValue(0)
  IN [g \in {group(i) : i \in ids} |->
        ComputeAggregate(op, [i \in {j \in ids : group(j) = g} |-> value(i)])]
=============================================================================
