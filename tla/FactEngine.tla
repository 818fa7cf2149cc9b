----------------------------- MODULE FactEngine -----------------------------
(***************************************************************************)
(* What the fact engine computes from the entities and edges a question    *)
(* was resolved to (facts/engine.py): exclusions, collection filters, one  *)
(* row per entity or edge, and the operation itself.                       *)
(*                                                                         *)
(* The records of entities do not change while a question is answered, so  *)
(* the engine's loads (one get_entity each, cached) are reads of Records;  *)
(* the edges handed to it were read earlier, at the times FactReading      *)
(* says.  An edge is [edge, from, to, values, ended], and a resolved one   *)
(* [entity, edge]: the entity it leads to and the edge.                    *)
(* A test of a filter is "yes", "no" or the status of its failure.         *)
(***************************************************************************)
EXTENDS FactSchema

CONSTANTS
  Records,     \* the stored properties of each entity, by id and property
  Now          \* the household's date

Verdict(b) == IF b THEN "yes" ELSE "no"

(* The first verdict that is not "yes", or "yes". *)
FirstRefusal(verdicts) ==
  LET bad == SelectSeq(verdicts, LAMBDA x : x # "yes")
  IN  IF bad = <<>> THEN "yes" ELSE Head(bad)

(* validate_filter_value: a filter reads no missing or foreign value. *)
FilterValue(property, x) ==
  IF IsMissing(x) THEN "filter_input_missing"
  ELSE IF ~ValueValid(SourceOf(property), x) THEN "filter_unsupported" ELSE "yes"

(* A date compared after date_difference; a future date has no age. *)
DerivedDateMatches(x, op, years) ==
  IF DateLess(Now, x.v) THEN "filter_input_missing"
  ELSE Verdict(EvaluatePredicate(op, IntValue(DateDifference(x.v, Now, "years")), years))

IsDerived(f) == f.derived \/ IsComputed(f.property)

(* The first verdict where it refuses, the second otherwise. *)
Unless(refusal, verdict) == IF refusal = "yes" THEN verdict ELSE refusal

----------------------------------------------------------------------------
(* Filters of the request's collection; they stop at the first refusal.    *)

LiteralMatches(f, x) ==
  IF IsDerived(f) THEN DerivedDateMatches(x, f.op, f.value)
  ELSE Verdict(EvaluatePredicate(f.op, x, f.value))

StoredMatches(f, id, physical) ==
  IF physical = "" THEN "filter_unsupported"
  ELSE Unless(FilterValue(f.property, Records[id][physical]),
              LiteralMatches(f, Records[id][physical]))

EntityFilterMatches(f, id) ==
  StoredMatches(f, id, PhysicalProperty(TypeOf[id], f.property))

(* Some edge to the entity satisfies the filter; one must hold a value.    *)
SomeMatches(f, values) ==
  IF values = <<>> THEN "filter_input_missing"
  ELSE Unless(FirstRefusal([i \in DOMAIN values |-> FilterValue(f.property, values[i])]),
              Verdict(\E i \in DOMAIN values : EvaluatePredicate(f.op, values[i], f.value)))

RelationFilterMatches(f, edges) ==
  SomeMatches(f, SelectSeq([i \in DOMAIN edges |-> edges[i].edge.values[f.property]],
                           LAMBDA x : ~IsMissing(x)))

(* adult and minor: by the household role where one is recorded, by age    *)
(* where none is; roles that disagree decide nothing.                      *)
RolesHeld(d, relation, edges) ==
  IF relation = "" THEN {}
  ELSE IF <<PhysicalRelation(relation).edge, d.role>> \notin EdgeFields THEN {}
  ELSE {x.v : x \in {edges[i].edge.values[d.role] : i \in DOMAIN edges} \ {NoValue}}
         \cap d.recognized

PredicateMatches(d, x, roles) ==
  CASE roles = {} -> Unless(FilterValue(d.fallback, x),
                            DerivedDateMatches(x, d.op, IntValue(d.years)))
    [] roles # {} /\ roles \subseteq d.matching -> "yes"
    [] roles # {} /\ roles \cap d.matching = {} -> "no"
    [] OTHER -> "filter_input_missing"

SemanticPredicateMatches(req, d, id, edges) ==
  PredicateMatches(d, Records[id][d.fallback], RolesHeld(d, LastRelation(req.subject), edges))

EdgesTo(edges, id) == SelectSeq(edges, LAMBDA e : e.entity = id)

CollectionVerdict(req, filters, id, edges) ==
  FirstRefusal([i \in DOMAIN filters |->
    LET f == filters[i]
    IN  IF f.predicate # ""
        THEN SemanticPredicateMatches(req, CollectionPredicates[f.predicate], id, edges)
        ELSE IF f.source = "relation" THEN RelationFilterMatches(f, edges)
        ELSE EntityFilterMatches(f, id)])

(* The collection that passes the filters, by the verdict on each entity.  *)
(* A failing filter fails the question, except in a projection, where it   *)
(* becomes that entity's row.                                              *)
Filtered(req, among, edges, verdicts) ==
  LET failed == SelectSeq(among, LAMBDA id : verdicts[id] \notin {"yes", "no"})
      matched == SelectSeq(among, LAMBDA id : verdicts[id] = "yes")
  IN  [status |-> IF failed # <<>> /\ ~req.each THEN verdicts[Head(failed)] ELSE "found",
       entities |-> matched,
       edges |-> SelectSeq(edges, LAMBDA e : e.entity \in ToSet(matched)),
       failures |-> [i \in DOMAIN failed |->
                       [entity |-> failed[i], status |-> verdicts[failed[i]], value |-> NoValue]]]

FilterEntities(req, filters, among, edges) ==
  Filtered(req, among, edges,
           [id \in ToSet(among) |-> CollectionVerdict(req, filters, id, EdgesTo(edges, id))])

(* In a projection of edges the edge filters select the edges themselves.  *)
KeptEdges(edges, verdicts) ==
  LET kept == SelectSeq([i \in DOMAIN edges |-> i], LAMBDA i : verdicts[i] = "yes")
  IN  [broken |-> ToSet(verdicts) \ {"yes", "no"}, edges |-> [i \in DOMAIN kept |-> edges[kept[i]]]]

FilterEdges(filters, edges) ==
  KeptEdges(edges, [i \in DOMAIN edges |->
    FirstRefusal([j \in DOMAIN filters |-> RelationFilterMatches(filters[j], <<edges[i]>>)])])

FilterRows(req, entities, kept) ==
  IF kept.broken # {}
  THEN [status |-> CHOOSE b \in kept.broken : TRUE, entities |-> <<>>, edges |-> <<>>,
        failures |-> <<>>]
  ELSE FilterEntities(req, SelectSeq(req.filters, LAMBDA f : f.source # "relation"),
                      SelectSeq(entities, LAMBDA id : EdgesTo(kept.edges, id) # <<>>), kept.edges)

FilterCollection(req, entities, edges) ==
  LET bound == SelectSeq(req.filters, LAMBDA f : f.source = "relation")
  IN  IF req.each /\ req.edgeProperty /\ bound # <<>>
      THEN FilterRows(req, entities, FilterEdges(bound, edges))
      ELSE FilterEntities(req, req.filters, entities, edges)

----------------------------------------------------------------------------
(* The operation.  A result is [status, shape, value].                     *)

Result(status, shape, value) == [status |-> status, shape |-> shape, value |-> value]
Failed(status) == Result(status, "scalar", NoValue)

(* Exactly one entity; "" is the verdict that there is. *)
Singular(req, entities) ==
  CASE entities = <<>> -> IF req.subject.path # <<>> THEN "relationship_not_found"
                          ELSE "entity_not_found"
    [] Len(entities) > 1 -> "ambiguous"
    [] OTHER -> ""

SingularRelationship(edges) ==
  CASE edges = <<>> -> "relationship_not_found"
    [] Len(edges) > 1 -> "ambiguous"
    [] OTHER -> ""

(* A stored property of an entity, NoValue if it is not usable. *)
Usable(property, x) == IF IsMissing(x) \/ ~ValueValid(property, x) THEN NoValue ELSE x

StoredProperty(id, property, physical) ==
  IF physical = "" THEN NoValue ELSE Usable(property, Records[id][physical])

Property(id, property) == StoredProperty(id, property, PhysicalProperty(TypeOf[id], property))

RelationshipProperty(edge, property) == Usable(property, edge.edge.values[property])

(* The operators that take a column of values. *)
Scalar(x) == IF IsMissing(x) THEN Failed("computation_impossible")
             ELSE Result("found", "scalar", x)

EntityAt(req, record) ==
  Result("found", IF req.edgeProperty THEN "edge" ELSE "entity", record)

DaysUntil(next) ==
  IF IsMissing(next) THEN next ELSE IntValue(Ordinal(next.v) - Ordinal(Now))

Best(req, records, values, i) ==
  IF req.other = <<>> THEN EntityAt(req, records[i])
  ELSE Result("found", "pair", <<records[i], values[1] = values[2]>>)

Transform(req, records, values) ==
  LET mode == IF "mode" \in DOMAIN req.params THEN req.params.mode ELSE "none"
      op == req.operation
      end == IF op = "first" THEN 1 ELSE Len(records)
  IN  CASE op \in {"first", "last"} /\ req.property = "" -> EntityAt(req, records[end])
        [] op \in {"argmin", "argmax"} ->
             Best(req, records, values, Extreme(values, op = "argmin"))
        [] OTHER -> Scalar(
             CASE op \in {"first", "last"} -> values[end]
               [] op \in {"latest", "earliest"} -> values[Extreme(values, op = "earliest")]
               [] op = "date_add" -> DateAdd(values[1].v, req.params.amount, mode)
               [] op = "date_difference" -> IntValue(DateDifference(values[1].v, Now, mode))
               [] op = "annual_occurrence" ->
                    IF mode = "days" THEN DaysUntil(AnnualOccurrence(values[1].v, Now))
                    ELSE AnnualOccurrence(values[1].v, Now)
               [] OTHER -> Aggregate(op, values))

(* The operations that read a column of values; select takes the only one. *)
OperateOn(req, records, values) ==
  CASE req.property # "" /\ \E i \in DOMAIN values : IsMissing(values[i]) ->
         Failed(CASE req.edgeProperty -> "relation_property_unavailable"
                  [] req.operation = "select" -> "property_unavailable"
                  [] OTHER -> "computation_input_missing")
    [] req.operation = "select" -> Result("found", "scalar", values[1])
    [] \/ values = <<>>
       \/ ~OperatorAccepts(Operators[req.operation], req.operation, req.property # "",
             IF req.property = "" THEN "unknown" ELSE InferFieldKind(ToSet(values)),
             req.property # "" /\ req.operation \in {"latest", "earliest"}, req.params) ->
         Failed("computation_impossible")
    [] OTHER -> Transform(req, records, values)

OperateColumn(req, records, edges) ==
  OperateOn(req, records,
    IF req.edgeProperty
    THEN [i \in DOMAIN edges |-> RelationshipProperty(edges[i], req.property)]
    ELSE [i \in DOMAIN records |->
            IF req.property = "" THEN NoValue ELSE Property(records[i], req.property)])

(* How many entities or edges the operation stands for; "" is no refusal. *)
Refusal(req, entities, others, edges) ==
  LET scalar == \/ Operators[req.operation].shape = "scalar"
                \/ req.operation = "select" /\ req.property # ""
  IN  CASE req.other # <<>> -> IF Singular(req, entities) # "" THEN Singular(req, entities)
                               ELSE Singular(req, others)
        [] req.other = <<>> /\ scalar /\ req.edgeProperty -> SingularRelationship(edges)
        [] \/ req.other = <<>> /\ scalar /\ ~req.edgeProperty
           \/ req.operation \in {"inspect", "resolve_reference"} -> Singular(req, entities)
        [] OTHER -> ""

Attributes(id) == {<<p, Records[id][p]>> :
                     p \in {q \in DOMAIN Contracts : EntityBound(TypeOf[id], q)}}

Operate(req, entities, others, edges) ==
  LET op == req.operation
  IN  CASE op = "count" -> Result("found", "scalar", IntValue(Len(entities)))
        [] op = "select" /\ req.property = "" -> Result("found", "entities", entities)
        [] OTHER ->
             IF Refusal(req, entities, others, edges) # ""
             THEN Failed(Refusal(req, entities, others, edges))
             ELSE CASE op = "inspect" -> Result("found", "attributes", Attributes(entities[1]))
                    [] op = "resolve_reference" -> Result("found", "entity", entities[1])
                    [] op = "same_entity" -> Result("found", "truth", entities[1] = others[1])
                    [] OTHER -> OperateColumn(req,
                                  IF req.edgeProperty THEN [i \in DOMAIN edges |-> edges[i].edge]
                                  ELSE IF req.other # <<>> THEN entities \o others
                                  ELSE entities, edges)

(* One row per entity, or per edge where the property is the edge's.  A    *)
(* row that fails keeps its status and fails no other row.                 *)
Row(id, r) == [entity |-> id, status |-> r.status, value |-> r.value]

ProjectEach(req, entities, edges, failures) ==
  LET groups(id) == LET own == EdgesTo(edges, id)
                    IN  IF req.edgeProperty /\ own # <<>>
                        THEN [i \in DOMAIN own |-> <<id, <<own[i]>>>>]
                        ELSE <<<<id, own>>>>
      each == FlattenSeq([i \in DOMAIN entities |-> groups(entities[i])])
  IN  Result("found", "rows",
             failures \o [i \in DOMAIN each |->
                            Row(each[i][1], Operate([req EXCEPT !.each = FALSE, !.exclude = <<>>],
                                                    <<each[i][1]>>, <<>>, each[i][2]))])

(* Everything after resolution. *)
ComputeOn(req, f, others) ==
  [result |-> IF f.status # "found" THEN Failed(f.status)
              ELSE IF req.each THEN ProjectEach(req, f.entities, f.edges, f.failures)
              ELSE Operate(req, f.entities, others, f.edges),
   entities |-> f.entities]

Compute(req, subject, others, excluded) ==
  LET entities == SelectSeq(subject.entities, LAMBDA id : id \notin excluded)
      edges == SelectSeq(subject.edges, LAMBDA e : e.entity \notin excluded)
  IN  ComputeOn(req, IF req.filters = <<>>
                     THEN [status |-> "found", entities |-> entities, edges |-> edges,
                           failures |-> <<>>]
                     ELSE FilterCollection(req, entities, edges), others)

(* The groups of a collapsed container's contents that the answer shows. *)
VisibleGroups(result, groups) ==
  IF result.shape # "entities" THEN {}
  ELSE {g \in {[space |-> h.space, entities |-> h.entities \cap ToSet(result.value)] :
                 h \in groups} : g.entities # {}}

(* The identities a later turn may refer back to.  evidence lists the      *)
(* edges that were read for the subject, in order.                         *)
Focus(req, entities, others, result, evidence) ==
  LET chosen == IF req.other = <<>> /\ ~req.edgeProperty /\ result.shape = "entity"
                THEN {result.value} ELSE ToSet(entities \o others)
      ends == FlattenSeq([i \in DOMAIN evidence |-> <<evidence[i].from, evidence[i].to>>])
      anchors == SelectSeq(ends, LAMBDA id : TypeOf[id] = req.subject.type)
      anchored == /\ req.subject.kind = "named_entity" /\ req.subject.path # <<>>
                  /\ req.subject.type \notin {TypeOf[id] : id \in ToSet(entities)}
                  /\ anchors # <<>>
  IN  IF result.status # "found" THEN {}
      ELSE chosen \cup IF anchored THEN {Head(anchors)} ELSE {}
============================================================================
