------------------------------- MODULE Scroll --------------------------------
(* Reading a collection page by page, Collection.Scroll of                    *)
(* pkg/collection/collection.go over HNSW.GetAllPoints, while points are      *)
(* inserted, deleted and upserted between the pages.                          *)
EXTENDS Filters, FiniteSets

CONSTANTS Ids, Payloads,
          Requests,    \* a sequence of filters as requests give them
          Messages,    \* as many filters of gRPC requests
          Limit,       \* Limit of a page, between 1 and 1000 in the code
          MaxTouched,  \* bound on the ids written during the scroll
          NoOffset

VARIABLES nodes,     \* HNSW.nodes: the id, the payload and whether it is deleted
          request,   \* index of the filter of the scroll; 0 before it begins
          offset,    \* the offset of the next page
          got,       \* the ids returned so far
          ended,     \* a page came without a next offset
          touched,   \* history: ids written since the scroll began
          lost       \* history: the offset was written before the next page

vars == <<nodes, request, offset, got, ended, touched, lost>>

Init == /\ nodes = <<>> /\ request = 0 /\ offset = NoOffset /\ got = <<>>
        /\ ended = FALSE /\ touched = {} /\ lost = FALSE

Live(id) == \E i \in DOMAIN nodes : nodes[i].id = id /\ ~nodes[i].deleted

Written(id) == /\ touched' = IF request = 0 THEN touched ELSE touched \cup {id}
               /\ Cardinality(touched') <= MaxTouched
               /\ lost' = (lost \/ id = offset)

MarkDeleted(id) == [i \in DOMAIN nodes |-> IF nodes[i].id = id THEN [nodes[i] EXCEPT !.deleted = TRUE]
                                            ELSE nodes[i]]

\* A new point goes to the end; an id that is there is deleted and then refused.
Upsert(id) ==
  /\ ~ended
  /\ \/ /\ \E i \in DOMAIN nodes : nodes[i].id = id
        /\ nodes' = MarkDeleted(id)
     \/ /\ \A i \in DOMAIN nodes : nodes[i].id # id
        /\ \E p \in DOMAIN Payloads :
             nodes' = Append(nodes, [id |-> id, payload |-> p, deleted |-> FALSE])
  /\ Written(id)
  /\ UNCHANGED <<request, offset, got, ended>>

Delete(id) ==
  /\ Live(id) /\ ~ended
  /\ nodes' = MarkDeleted(id)
  /\ Written(id)
  /\ UNCHANGED <<request, offset, got, ended>>

\* The tree of the scroll's filter, and the payloads that it lets through.
Tree == parseFilter(Requests[request])
Passing == UNION {{p \in DOMAIN Payloads : Evaluate(tree, Payloads[p])} : tree \in {Tree}}

GetAllPoints == SelectSeq(nodes, LAMBDA n : ~n.deleted)

Begin(r) ==
  /\ request = 0
  /\ request' = r
  /\ UNCHANGED <<nodes, offset, got, ended, touched, lost>>

Smaller(a, b) == IF a < b THEN a ELSE b

\* Mutant: the page starts with the point that the last one ended with.
PageAgain(filtered) ==
  LET found == {i \in DOMAIN filtered : filtered[i] = offset}
      startIdx == IF found = {} THEN 0 ELSE (CHOOSE i \in found : TRUE) - 1
  IN  SubSeq(filtered, startIdx + 1, Smaller(startIdx + Limit, Len(filtered)))

\* The points behind the offset; from the start when the offset is not there.
Page(filtered) ==
  LET found == {i \in DOMAIN filtered : filtered[i] = offset}
      startIdx == IF found = {} THEN 0 ELSE CHOOSE i \in found : TRUE
  IN  SubSeq(filtered, startIdx + 1, Smaller(startIdx + Limit, Len(filtered)))

\* One call, under the read lock of the collection.
ScrollPage ==
  /\ request # 0 /\ ~ended /\ Len(got) <= Cardinality(Ids)
  /\ \E passing \in {Passing} :
     LET matching == SelectSeq(GetAllPoints, LAMBDA n : n.payload \in passing)
         filtered == [i \in DOMAIN matching |-> matching[i].id]
         page == Page(filtered)
         more == page # <<>> /\ page[Len(page)] # filtered[Len(filtered)]
     IN  /\ got' = got \o page
         /\ ended' = ~more
         /\ offset' = IF more THEN page[Len(page)] ELSE offset
  /\ UNCHANGED <<nodes, request, touched, lost>>

Next == \/ \E id \in Ids : Upsert(id) \/ Delete(id)
        \/ \E r \in DOMAIN Requests : Begin(r)
        \/ ScrollPage

Spec == Init /\ [][Next]_vars
------------------------------------------------------------------------------
TypeOK == /\ Len(nodes) <= Cardinality(Ids)
          /\ request \in 0..Len(Requests)
          /\ offset \in Ids \cup {NoOffset}
          /\ \A i \in DOMAIN got : got[i] \in Ids

\* Unless the point that a page ended with is written before the next page, a
\* scroll returns every matching point that is not written in the meantime
\* exactly once, whatever else is inserted, deleted or upserted.
ScrollReturnsOnce ==
  ended /\ ~lost =>
    \A passing \in {Passing}, i \in DOMAIN nodes :
      LET n == nodes[i]
          times == Cardinality({k \in DOMAIN got : got[k] = n.id})
      IN  ~n.deleted /\ n.id \notin touched =>
            times = (IF n.payload \in passing THEN 1 ELSE 0)

\* What the filter of a request means, as the documentation describes it.
RECURSIVE Means(_, _)
Means(m, payload) ==
  LET each(key) == key \in DOMAIN m => \A i \in DOMAIN m[key] : Means(m[key][i], payload)
      some(key) == key \in DOMAIN m => \E i \in DOMAIN m[key] : Means(m[key][i], payload)
      none(key) == key \in DOMAIN m => \A i \in DOMAIN m[key] : ~Means(m[key][i], payload)
      holds(name) == IF m[name].map
                     THEN \A op \in DOMAIN m[name].ops :
                            evaluateCondition(getFieldValue(name, payload),
                                              parseOperators([o \in {op} |-> m[name].ops[o]]))
                     ELSE compareEqual(getFieldValue(name, payload), m[name].value)
  IN  /\ each("and") /\ some("or") /\ none("not")
      /\ each("must") /\ some("should") /\ none("must_not")
      /\ \A name \in DOMAIN m \ Keywords : holds(name)

\* What the filter of a gRPC request means; its lists are not empty.
RECURSIVE Reads(_, _)
Reads(f, payload) ==
  CASE f.kind = "must" -> \A i \in DOMAIN f.conditions : Reads(f.conditions[i], payload)
    [] f.kind = "should" -> \E i \in DOMAIN f.conditions : Reads(f.conditions[i], payload)
    [] f.kind = "must_not" -> \A i \in DOMAIN f.conditions : ~Reads(f.conditions[i], payload)
    [] OTHER ->
         LET v == getFieldValue(f.field, payload)
         IN  CASE f.by = "match" -> compareEqual(v, f.value)
               [] f.by = "range" -> \A b \in DOMAIN f.range :
                                      evaluateCondition(v, Condition(b, <<f.range[b]>>))
               [] f.by = "values" -> valueIn(v, f.values)

\* Conditions on which SQL and the evaluator read a value alike.
RECURSIVE Positive(_)
Positive(f) ==
  CASE f.type \in {"and", "or"} -> \A i \in DOMAIN f.filters : Positive(f.filters[i])
    [] f.type = "field" -> f.cond.op \in {"eq", "in", "contains", "starts_with", "ends_with", "range"}
    [] OTHER -> FALSE

\* When a scroll begins, its filter is evaluated as it reads: nested and combined
\* conditions in every order and depth mean what the request says, in JSON and in
\* gRPC.  And what the SQL form of a filter without negations and orderings finds
\* also passes the evaluator.
FiltersAgree ==
  request # 0 /\ got = <<>> /\ touched = {} =>
    \A tree \in {Tree}, i \in DOMAIN nodes :
      LET payload == Payloads[nodes[i].payload]
          passes == Evaluate(tree, payload)
      IN  /\ passes <=> Means(Requests[request], payload)
          /\ Evaluate(protoFilterToPayload(Messages[request]), payload)
               <=> Reads(Messages[request], payload)
          /\ Positive(tree) /\ buildWhereClause(tree, payload) = True => passes
==============================================================================
