------------------------------- MODULE Filters -------------------------------
(* Payload filters: parseFilter and parseOperators of api/rest/handlers.go    *)
(* and protoFilterToPayload of api/grpc/service.go, which turn the filter of  *)
(* a request into a tree, the Evaluator of                                    *)
(* pkg/index/payload/filter.go, and the SQL condition into which              *)
(* pkg/index/payload/index.go compiles the same tree.                         *)
(*                                                                            *)
(* A value is nil, a number or a string.  A string is a word in lower or in   *)
(* upper case; words are numbered in their alphabetical order, and Parts      *)
(* says which word is a part, a prefix or a suffix of which.  A field is a    *)
(* path; a payload gives a value to each of its fields.                       *)
EXTENDS Integers, Sequences

CONSTANTS Words,   \* 1..n
          Parts    \* Parts[how]: pairs of a word and one that has it as such a part

Nil == <<"nil">>
Num(n) == <<"num", n>>
Str(word, case) == <<"str", word, case>>

Filter(type, filters) == [type |-> type, filters |-> filters]
Field(name, cond) == [type |-> "field", name |-> name, cond |-> cond]
Condition(op, values) == [op |-> op, values |-> values]
NoFilter == [type |-> "nil"]
NoCondition == [op |-> "nil"]
------------------------------------------------------------------------------
(* parseFilter.  A request maps the words "and", "or", "not", "must",         *)
(* "should", "must_not" and fields to what they stand for; a field is mapped  *)
(* to a value, or to a map of operators.                                      *)

Keywords == {"and", "or", "not", "must", "should", "must_not"}

\* The operators in the order in which parseOperators looks for them: it takes
\* the first that the map has.
Operators == <<"gte", "gt", "lte", "lt", "eq", "ne", "in", "nin", "contains",
               "starts_with", "ends_with">>
Matches == <<"value", "any", "text">>
MatchOperator == [value |-> "eq", any |-> "in", text |-> "contains"]

FirstIn(list, map) ==
  list[CHOOSE i \in DOMAIN list : /\ list[i] \in DOMAIN map
                                  /\ \A j \in 1..(i - 1) : list[j] \notin DOMAIN map]
HasOne(list, map) == \E i \in DOMAIN list : list[i] \in DOMAIN map

\* Both bounds of a range are inclusive, and one that is missing is nil; without
\* gte and lte there is no condition.
parseRange(range) ==
  LET bound(inclusive, exclusive) ==
        IF inclusive \in DOMAIN range THEN range[inclusive]
        ELSE IF exclusive \in DOMAIN range THEN range[exclusive] ELSE Nil
  IN  IF DOMAIN range \cap {"gte", "lte"} = {} THEN NoCondition
      ELSE Condition("range", <<bound("gte", "gt"), bound("lte", "lt")>>)

parseOperators(ops) ==
  IF HasOne(Operators, ops)
  THEN LET op == FirstIn(Operators, ops) IN Condition(op, ops[op])
  ELSE IF "match" \in DOMAIN ops /\ HasOne(Matches, ops.match)
  THEN LET how == FirstIn(Matches, ops.match)
       IN  Condition(MatchOperator[how], ops.match[how])
  ELSE IF "range" \in DOMAIN ops THEN parseRange(ops.range) ELSE NoCondition

RECURSIVE Flat(_)
Flat(seqs) == IF seqs = <<>> THEN <<>> ELSE Head(seqs) \o Flat(Tail(seqs))

\* A list of one filter, of none for a filter that is nil.
Listed(f) == IF f.type = "nil" THEN <<>> ELSE <<f>>

\* Mutant: $or and should are taken for $and and must.
parseAllAnd(m, parsed, fields) ==
  LET conditions == Flat([i \in DOMAIN parsed |-> IF parsed[i] = <<>> THEN <<>>
                                                  ELSE <<Filter("and", parsed[i])>>]) \o fields
  IN  IF conditions = <<>> THEN NoFilter
      ELSE IF Len(conditions) = 1 THEN conditions[1] ELSE Filter("and", conditions)

\* The lists of sub-filters of $and, $or, $not, must and should become one
\* condition each; must_not is skipped and never looked at.
Combine(m, parsed, fields) ==
  LET type == <<"and", "or", "not", "and", "or">>
      conditions == Flat([i \in DOMAIN parsed |-> IF parsed[i] = <<>> THEN <<>>
                                                  ELSE <<Filter(type[i], parsed[i])>>]) \o fields
  IN  IF conditions = <<>> THEN NoFilter
      ELSE IF Len(conditions) = 1 THEN conditions[1] ELSE Filter("and", conditions)

RECURSIVE parseFilter(_)
parseFilter(m) ==
  LET at(key) == IF key \in DOMAIN m THEN m[key] ELSE <<>>
      sub(list) == Flat([i \in DOMAIN list |-> Listed(parseFilter(list[i]))])
      parsed == <<sub(at("and")), sub(at("or")), sub(at("not")), sub(at("must")), sub(at("should"))>>
      field(name) == IF m[name].map
                     THEN LET c == parseOperators(m[name].ops)
                          IN  IF c.op = "nil" THEN <<>> ELSE <<Field(name, c)>>
                     ELSE <<Field(name, Condition("eq", <<m[name].value>>))>>
      names == DOMAIN m \ Keywords
      RECURSIVE all(_)
      all(left) == IF left = {} THEN <<>>
                   ELSE LET n == CHOOSE x \in left : TRUE IN field(n) \o all(left \ {n})
  IN  Combine(m, parsed, all(names))
------------------------------------------------------------------------------
(* protoFilterToPayload.  A gRPC filter is one list of filters that must, that *)
(* should or that must not hold, or a condition on a field: a value to match, *)
(* a range with up to four bounds, or a list of values.                       *)

\* No filter for no conditions, and no node of its own for a single one.
Gathered(type, filters) ==
  IF filters = <<>> THEN NoFilter
  ELSE IF Len(filters) = 1 THEN filters[1] ELSE Filter(type, filters)

conditionToPayloadFilter(c) ==
  CASE c.by = "match" -> Field(c.field, Condition("eq", <<c.value>>))
    [] c.by = "range" ->
         LET bounds == SelectSeq(<<"gt", "gte", "lt", "lte">>, LAMBDA b : b \in DOMAIN c.range)
         IN  Gathered("and", [i \in DOMAIN bounds |->
                                Field(c.field, Condition(bounds[i], <<c.range[bounds[i]]>>))])
    [] c.by = "values" -> IF c.values = <<>> THEN NoFilter ELSE Field(c.field, Condition("in", c.values))

RECURSIVE protoFilterToPayload(_)
protoFilterToPayload(f) ==
  IF f.kind = "field" THEN conditionToPayloadFilter(f)
  ELSE LET filters == Flat([i \in DOMAIN f.conditions |-> Listed(protoFilterToPayload(f.conditions[i]))])
       IN  CASE f.kind = "must" -> Gathered("and", filters)
             [] f.kind = "should" -> Gathered("or", filters)
             [] f.kind = "must_not" ->
                  Gathered("and", [i \in DOMAIN filters |-> Filter("not", <<filters[i]>>)])
------------------------------------------------------------------------------
(* The Evaluator.                                                             *)

getFieldValue(field, payload) == IF field \in DOMAIN payload THEN payload[field] ELSE Nil

IsNum(v) == v[1] = "num"
IsStr(v) == v[1] = "str"

\* Strings are compared without regard to case.
compareEqual(a, b) ==
  \/ a = b
  \/ IsStr(a) /\ IsStr(b) /\ a[2] = b[2]

\* 0 also when one of the two is no number.
compareNumeric(a, b) ==
  IF ~IsNum(a) \/ ~IsNum(b) \/ a[2] = b[2] THEN 0 ELSE IF a[2] < b[2] THEN -1 ELSE 1

valueIn(v, values) == \E i \in DOMAIN values : compareEqual(v, values[i])

stringPart(how, v, part) ==
  IsStr(v) /\ IsStr(part) /\ (part[2] = v[2] \/ <<part[2], v[2]>> \in Parts[how])

inRange(v, min, max) ==
  IsNum(v) /\ IsNum(min) /\ IsNum(max) /\ min[2] <= v[2] /\ v[2] <= max[2]

evaluateCondition(v, c) ==
  LET arg == c.values[1] IN
  CASE c.op = "eq"  -> compareEqual(v, arg)
    [] c.op = "ne"  -> ~compareEqual(v, arg)
    [] c.op = "gt"  -> compareNumeric(v, arg) > 0
    [] c.op = "gte" -> compareNumeric(v, arg) >= 0
    [] c.op = "lt"  -> compareNumeric(v, arg) < 0
    [] c.op = "lte" -> compareNumeric(v, arg) <= 0
    [] c.op = "in"  -> valueIn(v, c.values)
    [] c.op = "nin" -> ~valueIn(v, c.values)
    [] c.op \in {"contains", "starts_with", "ends_with"} -> stringPart(c.op, v, arg)
    [] c.op = "is_null" -> v = Nil
    [] c.op = "is_not_null" -> v # Nil
    [] c.op = "range" -> inRange(v, arg, c.values[2])
    [] OTHER -> TRUE

RECURSIVE Evaluate(_, _)
Evaluate(f, payload) ==
  CASE f.type = "and" -> \A i \in DOMAIN f.filters : Evaluate(f.filters[i], payload)
    [] f.type = "or"  -> \/ f.filters = <<>>
                         \/ \E i \in DOMAIN f.filters : Evaluate(f.filters[i], payload)
    [] f.type = "not" -> f.filters = <<>> \/ ~Evaluate(f.filters[1], payload)
    [] f.type = "field" -> evaluateCondition(getFieldValue(f.name, payload), f.cond)
    [] OTHER -> TRUE
------------------------------------------------------------------------------
(* The SQL condition over json_extract, in SQL's three-valued logic: 1, 0 or  *)
(* 1/2 for NULL, doubled to stay with integers.  "" is a filter that          *)
(* contributes no clause.                                                     *)

False == 0
Null == 1
True == 2
Truth(b) == IF b THEN True ELSE False

\* Text sorts after every number, upper before lower case.
Sorts(v) == IF IsNum(v) THEN v[2]
            ELSE 1000 + (IF v[3] = "upper" THEN 0 ELSE 100) + v[2]

SqlCompare(v, arg, holds) == IF v = Nil \/ arg = Nil THEN Null ELSE Truth(holds)

SqlIn(v, values) ==
  IF v = Nil THEN Null
  ELSE IF \E i \in DOMAIN values : values[i] = v THEN True
  ELSE IF \E i \in DOMAIN values : values[i] = Nil THEN Null ELSE False

Least(S) == CHOOSE x \in S : \A y \in S : x <= y
Greatest(S) == CHOOSE x \in S : \A y \in S : x >= y

\* LIKE disregards case; the text of a number has none of the words as a part.
SqlCondition(v, c) ==
  LET arg == c.values[1] IN
  CASE c.op = "eq"  -> SqlCompare(v, arg, v = arg)
    [] c.op = "ne"  -> SqlCompare(v, arg, v # arg)
    [] c.op = "gt"  -> SqlCompare(v, arg, Sorts(v) > Sorts(arg))
    [] c.op = "gte" -> SqlCompare(v, arg, Sorts(v) >= Sorts(arg))
    [] c.op = "lt"  -> SqlCompare(v, arg, Sorts(v) < Sorts(arg))
    [] c.op = "lte" -> SqlCompare(v, arg, Sorts(v) <= Sorts(arg))
    [] c.op = "in"  -> IF c.values = <<>> THEN False ELSE SqlIn(v, c.values)
    [] c.op = "nin" -> IF c.values = <<>> THEN True ELSE True - SqlIn(v, c.values)
    [] c.op \in {"contains", "starts_with", "ends_with"} ->
         SqlCompare(v, arg, stringPart(c.op, v, arg))
    [] c.op = "is_null" -> Truth(v = Nil)
    [] c.op = "is_not_null" -> Truth(v # Nil)
    [] c.op = "range" ->
         Least({SqlCompare(v, arg, Sorts(v) >= Sorts(arg)),
                SqlCompare(v, c.values[2], Sorts(v) <= Sorts(c.values[2]))})

NoClause == -1

RECURSIVE buildWhereClause(_, _)
buildWhereClause(f, row) ==
  LET clauses == {buildWhereClause(f.filters[i], row) : i \in DOMAIN f.filters} \ {NoClause}
  IN  CASE f.type = "and" -> IF clauses = {} THEN NoClause ELSE Least(clauses)
        [] f.type = "or"  -> IF clauses = {} THEN NoClause ELSE Greatest(clauses)
        [] f.type = "not" -> IF clauses = {} THEN NoClause
                             ELSE True - buildWhereClause(f.filters[1], row)
        [] f.type = "field" -> SqlCondition(getFieldValue(f.name, row), f.cond)
        [] OTHER -> NoClause
==============================================================================
