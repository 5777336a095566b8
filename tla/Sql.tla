--------------------------------- MODULE Sql ---------------------------------
(* The SQL of pkg/query: the parser, which splits a WHERE clause at its       *)
(* keywords, and the executor, which turns the clause into a payload filter   *)
(* and runs the statement against the collections.                            *)
(*                                                                            *)
(* A clause is a sequence of tokens; what the parser takes for a field or a   *)
(* value and is neither is Junk.                                              *)
EXTENDS Filters, FiniteSets

CONSTANTS Tables, Ids, Payloads,
          Clauses,      \* WHERE clauses as trees, see Render
          Limits,
          None

VARIABLES tables,       \* the points of each table that exists
          result,       \* of the last statement
          listing       \* SHOW TABLES: the names yet to be looked up, or None

vars == <<tables, result, listing>>
------------------------------------------------------------------------------
(* The parser.                                                                *)

Error == [type |-> "error"]
Junk == <<"junk">>
Word(w) == <<w>>

\* The operators in the order in which they are looked for.
SqlOperators == <<"ne", "lte", "gte", "lt", "gt", "eq", "like", "in", "is_not_null",
                  "is_null", "between">>

\* Splits at a keyword outside parentheses; parts that are empty are dropped.
RECURSIVE Split(_, _, _, _)
Split(tokens, keyword, depth, part) ==
  LET end == IF part = <<>> THEN <<>> ELSE <<part>> IN
  IF tokens = <<>> THEN end
  ELSE LET t == Head(tokens)
           now == depth + (IF t = Word("(") THEN 1 ELSE IF t = Word(")") THEN -1 ELSE 0)
       IN  IF now = 0 /\ t = Word(keyword) THEN end \o Split(Tail(tokens), keyword, 0, <<>>)
           ELSE Split(Tail(tokens), keyword, now, Append(part, t))

splitByKeyword(tokens, keyword) == Split(tokens, keyword, 0, <<>>)

RECURSIVE Strip(_)
Strip(tokens) ==
  IF Len(tokens) >= 2 /\ Head(tokens) = Word("(") /\ tokens[Len(tokens)] = Word(")")
  THEN Strip(SubSeq(tokens, 2, Len(tokens) - 1)) ELSE tokens

parseValue(tokens) ==
  IF Len(tokens) # 1 \/ tokens[1][1] \notin {"val", "list", "null"} THEN <<Junk>>
  ELSE IF tokens[1][1] = "val" THEN <<tokens[1][2]>> ELSE tokens[1][2]

\* The first operator of the list that occurs anywhere, at its first place.
parseSingleCondition(clause) ==
  LET tokens == Strip(clause)
      at(op) == {i \in DOMAIN tokens : tokens[i] = <<"op", op>>}
      hits == {k \in DOMAIN SqlOperators : at(SqlOperators[k]) # {}}
  IN  IF hits = {} THEN Error
      ELSE LET op == SqlOperators[Least(hits)]
               i == Least(at(op))
               field == IF i = 2 /\ tokens[1][1] = "field" THEN tokens[1][2] ELSE "?"
               value == SubSeq(tokens, i + 1, Len(tokens))
           IN  IF op \in {"is_null", "is_not_null"}
               THEN [type |-> "one", field |-> field, op |-> op, value |-> <<>>]
               ELSE IF value = <<Word("null")>> THEN Error
               ELSE [type |-> "one", field |-> field, op |-> op, value |-> parseValue(value),
                     list |-> Len(value) = 1 /\ value[1][1] = "list"]

Joined(type, parts) == IF \E i \in DOMAIN parts : parts[i] = Error THEN Error
                       ELSE [type |-> type, parts |-> parts]

\* Mutant: AND binds weaker than OR.
RECURSIVE parseAndFirst(_)
parseAndFirst(clause) ==
  LET ands == splitByKeyword(clause, "AND") ors == splitByKeyword(clause, "OR")
  IN  IF Len(ands) > 1 THEN Joined("and", [i \in DOMAIN ands |-> parseAndFirst(ands[i])])
      ELSE IF Len(ors) > 1 THEN Joined("or", [i \in DOMAIN ors |-> parseAndFirst(ors[i])])
      ELSE IF clause # <<>> /\ Head(clause) = Word("NOT")
      THEN Joined("not", <<parseAndFirst(Tail(clause))>>)
      ELSE parseSingleCondition(clause)

RECURSIVE parseWhereClause(_)
parseWhereClause(clause) ==
  LET ors == splitByKeyword(clause, "OR") ands == splitByKeyword(clause, "AND")
  IN  IF Len(ors) > 1 THEN Joined("or", [i \in DOMAIN ors |-> parseWhereClause(ors[i])])
      ELSE IF Len(ands) > 1 THEN Joined("and", [i \in DOMAIN ands |-> parseWhereClause(ands[i])])
      ELSE IF clause # <<>> /\ Head(clause) = Word("NOT")
      THEN Joined("not", <<parseWhereClause(Tail(clause))>>)
      ELSE parseSingleCondition(clause)
------------------------------------------------------------------------------
(* The executor.                                                              *)

RECURSIVE buildFilter(_)
buildFilter(fe) ==
  IF fe.type # "one"
  THEN Filter(fe.type, [i \in DOMAIN fe.parts |-> buildFilter(fe.parts[i])])
  ELSE CASE fe.op = "ne" -> Filter("not", <<Field(fe.field, Condition("eq", fe.value))>>)
         [] fe.op = "in" -> Field(fe.field, IF fe.list THEN Condition("in", fe.value) ELSE NoCondition)
         [] fe.op = "like" -> Field(fe.field, IF IsStr(fe.value[1]) THEN Condition("contains", fe.value)
                                              ELSE NoCondition)
         [] fe.op = "between" -> Field(fe.field, Condition("eq", fe.value))
         [] OTHER -> Field(fe.field, Condition(fe.op, fe.value))

Init == tables = <<>> /\ result = None /\ listing = None

Rows(t, filter, limit) ==
  LET passing == SelectSeq(tables[t], LAMBDA p : ~p.deleted /\ Evaluate(filter, Payloads[p.payload]))
  IN  SubSeq(passing, 1, IF Len(passing) < limit THEN Len(passing) ELSE limit)

\* A clause as it is written, without parentheses: OR binds weaker than AND, AND
\* weaker than NOT.
RECURSIVE Render(_)
Render(tree) ==
  LET infix(word) == Flat([i \in DOMAIN tree.parts |->
                             (IF i = 1 THEN <<>> ELSE <<Word(word)>>) \o Render(tree.parts[i])])
  IN  CASE tree.type = "or"  -> infix("OR")
        [] tree.type = "and" -> infix("AND")
        [] tree.type = "not" -> <<Word("NOT")>> \o Render(tree.parts[1])
        [] OTHER -> tree.tokens

\* The parsed form of each clause.
Parsed == [c \in DOMAIN Clauses |-> parseWhereClause(Render(Clauses[c]))]

\* ORDER BY and OFFSET are parsed and not used; a LIMIT of 0 is one of 100.
executeSelect(t, c, limit) ==
  /\ listing = None /\ t \in DOMAIN tables
  /\ result' = IF Parsed[c] = Error THEN Error
               ELSE [type |-> "select", table |-> t, clause |-> c, limit |-> limit,
                     rows |-> Rows(t, buildFilter(Parsed[c]), IF limit <= 0 THEN 100 ELSE limit)]
  /\ UNCHANGED <<tables, listing>>

\* The expression of a vector search takes no more than the first character of
\* its WHERE clause, which is never a condition.
parseVectorSearch(where) == IF where THEN Error ELSE [type |-> "search"]

executeVectorSearch(t, where) ==
  /\ listing = None /\ t \in DOMAIN tables
  /\ result' = IF parseVectorSearch(where) = Error THEN Error
               ELSE [type |-> "search", table |-> t]
  /\ UNCHANGED <<tables, listing>>

\* The parser never fills in the points of an INSERT: this is a call of Execute.
\* The first point with an id that the table has or had ends the statement, those
\* before it stay.
executeInsert(t, points) ==
  /\ listing = None /\ t \in DOMAIN tables
  /\ LET known == {tables[t][i].id : i \in DOMAIN tables[t]}
         taken == {i \in DOMAIN points : points[i].id \in known
                                           \/ \E j \in 1..(i - 1) : points[j].id = points[i].id}
         n == IF taken = {} THEN Len(points) ELSE Least(taken) - 1
     IN  /\ tables' = [tables EXCEPT ![t] = @ \o SubSeq(points, 1, n)]
         /\ result' = IF taken = {} THEN [type |-> "insert", table |-> t] ELSE Error
  /\ UNCHANGED listing

executeDelete(t, id) ==
  /\ listing = None /\ t \in DOMAIN tables
  /\ LET found == {i \in DOMAIN tables[t] : tables[t][i].id = id}
     IN  /\ tables' = [tables EXCEPT ![t] = [i \in DOMAIN tables[t] |->
                          [tables[t][i] EXCEPT !.deleted = @ \/ i \in found]]]
         /\ result' = IF found = {} THEN Error ELSE [type |-> "delete", table |-> t]
  /\ UNCHANGED listing

executeCreateTable(t) ==
  /\ t \notin DOMAIN tables
  /\ tables' = [u \in DOMAIN tables \cup {t} |-> IF u = t THEN <<>> ELSE tables[u]]
  /\ result' = [type |-> "create", table |-> t]
  /\ UNCHANGED listing

executeDropTable(t) ==
  /\ t \in DOMAIN tables
  /\ tables' = [u \in DOMAIN tables \ {t} |-> tables[u]]
  /\ result' = [type |-> "drop", table |-> t]
  /\ UNCHANGED listing

executeShowTables ==
  /\ listing = None
  /\ listing' = DOMAIN tables
  /\ UNCHANGED <<tables, result>>

\* A table dropped since the names were listed is not there: the goroutine panics.
ShowTable(t) ==
  /\ listing # None /\ t \in listing
  /\ listing' = IF t \notin DOMAIN tables \/ listing = {t} THEN None ELSE listing \ {t}
  /\ result' = IF t \in DOMAIN tables THEN [type |-> "show", table |-> t] ELSE [type |-> "panic"]
  /\ UNCHANGED tables

Points == [id : Ids, payload : DOMAIN Payloads, deleted : {FALSE}]

Next == \/ \E t \in Tables :
             \/ \E c \in DOMAIN Clauses, limit \in Limits : executeSelect(t, c, limit)
             \/ \E where \in BOOLEAN : executeVectorSearch(t, where)
             \/ \E p \in Points : executeInsert(t, <<p>>)
             \/ \E p, q \in Points : executeInsert(t, <<p, q>>)
             \/ \E id \in Ids : executeDelete(t, id)
             \/ executeCreateTable(t) \/ executeDropTable(t) \/ ShowTable(t)
        \/ executeShowTables

Spec == Init /\ [][Next]_vars
------------------------------------------------------------------------------
TypeOK == /\ DOMAIN tables \subseteq Tables
          /\ \A t \in DOMAIN tables : Len(tables[t]) <= Cardinality(Ids)
          /\ listing = None \/ listing \subseteq Tables

\* What a clause says of a payload.
RECURSIVE Says(_, _)
Says(tree, payload) ==
  CASE tree.type = "or"  -> \E i \in DOMAIN tree.parts : Says(tree.parts[i], payload)
    [] tree.type = "and" -> \A i \in DOMAIN tree.parts : Says(tree.parts[i], payload)
    [] tree.type = "not" -> ~Says(tree.parts[1], payload)
    [] OTHER -> evaluateCondition(getFieldValue(tree.field, payload), tree.cond)

\* A SELECT with a clause that needs no parentheses returns the points for which
\* the clause is true, as many as its LIMIT allows, in the order in which they
\* were inserted.
SelectMeans ==
  result # None /\ result.type = "select" =>
    LET says(p) == Says(Clauses[result.clause], Payloads[p.payload])
    IN  /\ \A i \in DOMAIN result.rows : says(result.rows[i])
        /\ \/ result.limit > 0 /\ Len(result.rows) = result.limit
           \/ \A i \in DOMAIN tables[result.table] :
                  ~tables[result.table][i].deleted /\ says(tables[result.table][i])
                    => \E k \in DOMAIN result.rows : result.rows[k] = tables[result.table][i]
==============================================================================
