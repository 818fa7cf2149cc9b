----------------------------- MODULE FactSchema -----------------------------
(***************************************************************************)
(* The vocabulary of household questions and their validation              *)
(* (semantic/schema.py, semantic/contracts.py, semantic/ir.py and          *)
(* persistence/edge_schema.py): which relations and properties the         *)
(* deployment's catalog backs, and which requests are accepted.            *)
(*                                                                         *)
(* A reference is [kind, value, type, path, offset, many], a step of its   *)
(* path [relation, filters], a filter [property, predicate, op, value,     *)
(* source, anchor, derived], and a request [operation, subject, other,     *)
(* exclude, property, edgeProperty, filters, each, params].  Names that a  *)
(* filter or a request leaves out are "".                                  *)
(***************************************************************************)
EXTENDS FactOperators

CONSTANTS
  NodeFiles,        \* the deployment's node files: their table, whether it is
                    \* split into shards, and the properties of each record
  EdgeFiles,        \* the properties of the records of each edge file
  TypeOf            \* the entity type of each record id

EdgeSchema(name, symmetric, from, to, inverse, scope, temporal) ==
  [name |-> name, symmetric |-> symmetric, from |-> from, to |-> to,
   inverse |-> inverse, scope |-> scope, temporal |-> temporal]

(* schemas/edge/*.yaml; an embodiment's assignment is not asked about. *)
EdgeSchemas ==
  {EdgeSchema("spouse_of", TRUE, {"person"}, {"person"}, "", FALSE, TRUE),
   EdgeSchema("parent_of", FALSE, {"person"}, {"person"}, "child_of", FALSE, FALSE),
   EdgeSchema("lives_in", FALSE, {"person"}, {"address"}, "has_resident", FALSE, TRUE),
   EdgeSchema("located_in", FALSE, {"item"}, {"address", "space"}, "contains", TRUE, FALSE),
   EdgeSchema("hosted_by", FALSE, {"space"}, {"item", "space"}, "hosts_space", TRUE, FALSE)}

----------------------------------------------------------------------------
(* The catalog: what the deployment's files store, plus what its schemas   *)
(* declare before any record says so.                                      *)

(* node_table_sources: the service does not start on a table that is both  *)
(* a file and a directory of shards.                                       *)
NodeTableSources ==
  \A f, g \in NodeFiles : f.table = g.table /\ f # g => f.shard /\ g.shard

ASSUME SourcesAssumption == NodeTableSources

(* An endpoint's type is known even when no node of it is stored. *)
CatalogTypes ==
  {f.table : f \in NodeFiles}
    \cup UNION {s.from \cup s.to : s \in EdgeSchemas}

(* Properties with item_writable in the ontology. *)
ItemWritable == {"quantity"}

(* <<entity type, property>>: in some record, or a writable one of items. *)
EntityFields ==
  UNION {{f.table} \X UNION f.records : f \in NodeFiles}
    \cup IF "item" \in CatalogTypes THEN {"item"} \X ItemWritable ELSE {}

CatalogRelations == {s.name : s \in EdgeSchemas}

(* <<edge table, property>>: a temporal edge may always have its dates. *)
EdgeFields ==
  UNION {{s.name} \X (UNION EdgeFiles[s.name] \cup IF s.temporal THEN {"start_date"} ELSE {}) :
           s \in EdgeSchemas}

----------------------------------------------------------------------------
(* The ontology's base relations and the public edge name of each. *)
BaseRelations ==
  [spouse |-> "spouse_of", child |-> "parent_of", parent |-> "child_of",
   member |-> "has_resident", residence |-> "lives_in",
   location |-> "located_in", contents |-> "contains",
   host |-> "hosted_by", hosted_space |-> "hosts_space"]

(* EdgeSchemaRegistry.resolve: an edge by its own name or its inverse's. *)
EdgeOf(name) == CHOOSE s \in EdgeSchemas : name \in {s.name, s.inverse}

Backed(relation) == /\ relation \in DOMAIN BaseRelations
                    /\ EdgeOf(BaseRelations[relation]).name \in CatalogRelations

Directed(name, schema) ==
  [edge |-> schema.name, schema |-> schema,
   direction |-> IF schema.symmetric THEN "both"
                 ELSE IF name = schema.name THEN "out" ELSE "in"]

(* The edge table a relation is stored in and the direction it is read.    *)
PhysicalRelation(relation) ==
  Directed(BaseRelations[relation], EdgeOf(BaseRelations[relation]))

ScopeParents(type) == {s.name : s \in {t \in EdgeSchemas : t.scope /\ type \in t.from}}

----------------------------------------------------------------------------
(* Property contracts. *)

Contract(kind, entities, relations, operators, values) ==
  [kind |-> kind, entities |-> entities, relations |-> relations,
   operators |-> operators, values |-> values]

Unordered == {"eq", "ne", "in", "exists"}
Ordered == Unordered \cup {"gt", "gte", "lt", "lte", "date_range"}

Contracts ==
  [birth_date |-> Contract("date", {"person"}, {}, Ordered, {}),
   gender |-> Contract("string", {"person"}, {}, Unordered, {"male", "female"}),
   quantity |-> Contract("number", {"item"}, {}, Ordered \ {"date_range"}, {}),
   household_role |-> Contract("string", {}, {"member", "residence"}, Unordered, {}),
   start_date |-> Contract("date", {},
                           {"spouse", "child", "parent", "member", "residence"},
                           Ordered, {})]

(* Filters computed from a stored date, and the two status predicates.     *)
ComputedFilters ==
  [age_years |-> [source |-> "birth_date", entities |-> {"person"},
                  operators |-> {"eq", "gt", "gte", "lt", "lte"},
                  minimum |-> 0, maximum |-> 120]]

CollectionPredicates ==
  LET predicate(matching, op, other) ==
        [entities |-> {"person"}, role |-> "household_role", scope |-> "member",
         recognized |-> {"owner", "adult_dependent", "minor_dependent"},
         matching |-> matching, fallback |-> "birth_date", op |-> op,
         years |-> 18, disjoint |-> {other}]
  IN  [adult |-> predicate({"owner", "adult_dependent"}, "gte", "minor"),
       minor |-> predicate({"minor_dependent"}, "lt", "adult")]

(* The bindings of the resolved contract: which owners store a property.   *)
EntityBound(type, property) ==
  /\ property \in DOMAIN Contracts
  /\ type \in Contracts[property].entities
  /\ <<type, property>> \in EntityFields

RelationBound(relation, property) ==
  /\ property \in DOMAIN Contracts
  /\ relation \in Contracts[property].relations
  /\ Backed(relation)
  /\ <<PhysicalRelation(relation).edge, property>> \in EdgeFields

IsComputed(property) == property \in DOMAIN ComputedFilters

(* A computed filter is available when every entity it is for stores its   *)
(* source, and a predicate when every one stores its fallback.             *)
ComputedAvailable(c) == \A t \in c.entities : EntityBound(t, c.source)
PredicateAvailable(d) == \A t \in d.entities : EntityBound(t, d.fallback)

(* The stored property a filter or an operation reads for this one. *)
SourceOf(property) == IF IsComputed(property) THEN ComputedFilters[property].source ELSE property

(* The same for an entity of this type, or "" where it has none. *)
PhysicalProperty(type, property) ==
  IF /\ EntityBound(type, SourceOf(property))
     /\ IsComputed(property) => /\ type \in ComputedFilters[property].entities
                                /\ ComputedAvailable(ComputedFilters[property])
  THEN SourceOf(property) ELSE ""

InDomain(c, x) ==
  /\ CASE c.kind = "number" -> x.kind \in Numeric
       [] c.kind = "string" -> x.kind \in {"string", "date"}
       [] OTHER -> x.kind = c.kind
  /\ c.values # {} => x.v \in c.values

(* Whether a stored or literal value lies in a property's domain. *)
ValueValid(property, x) == property \in DOMAIN Contracts /\ InDomain(Contracts[property], x)

LiteralFits(property, f) ==
  /\ f.op \in Contracts[property].operators
  /\ IF f.anchor THEN f.op \in {"eq", "ne", "gt", "gte", "lt", "lte"}
     ELSE \/ f.op = "exists"
          \/ /\ f.op \in {"in", "date_range"}
             /\ f.value # <<>>
             /\ \A i \in DOMAIN f.value : ValueValid(property, f.value[i])
             /\ f.op = "date_range" => Len(f.value) = 2 /\ Less(f.value[1], f.value[2])
          \/ /\ f.op \notin {"in", "date_range"}
             /\ ValueValid(property, f.value)

----------------------------------------------------------------------------
(* What SemanticOntology.from_file requires of the vocabulary before the   *)
(* service starts.                                                         *)

PropertiesLoad ==
  /\ ItemWritable \subseteq DOMAIN Contracts
  /\ \A p \in DOMAIN Contracts : Contracts[p].relations \subseteq DOMAIN BaseRelations

ComputedFiltersLoad ==
  \A n \in DOMAIN ComputedFilters :
    LET c == ComputedFilters[n]
    IN  /\ n \notin DOMAIN Contracts
        /\ c.source \in DOMAIN Contracts
        /\ c.minimum \in 0 .. c.maximum
        /\ c.entities \subseteq Contracts[c.source].entities
        /\ Contracts[c.source].kind \in Temporal

PredicateParses(d) ==
  /\ d.matching \subseteq d.recognized
  /\ d.op \in Ordered
  /\ d.years \in Nat

(* The role is one that members have, the fallback a date of the entities. *)
PredicateOwned(d) ==
  /\ {d.role, d.fallback} \subseteq DOMAIN Contracts
  /\ d.entities \subseteq Contracts[d.fallback].entities
  /\ Contracts[d.fallback].kind \in Operators["date_difference"].kinds
  /\ d.scope \in DOMAIN BaseRelations \cap Contracts[d.role].relations
  /\ \A v \in d.recognized : ValueValid(d.role, [kind |-> "string", v |-> v])

(* Predicates that exclude each other say so both ways and cannot both     *)
(* hold of one role; ContractHolds refuses a request that has both.        *)
DisjointApart(n) ==
  \A m \in CollectionPredicates[n].disjoint :
    /\ m \in DOMAIN CollectionPredicates \ {n}
    /\ n \in CollectionPredicates[m].disjoint
    /\ LET d == CollectionPredicates[n]
           e == CollectionPredicates[m]
       IN  /\ d.role = e.role => d.matching \cap e.matching = {}
           /\ <<d.fallback, d.op, d.years>> # <<e.fallback, e.op, e.years>>

OntologyLoads ==
  /\ PropertiesLoad
  /\ ComputedFiltersLoad
  /\ \A n \in DOMAIN CollectionPredicates :
       /\ PredicateParses(CollectionPredicates[n])
       /\ PredicateOwned(CollectionPredicates[n])
       /\ DisjointApart(n)

ASSUME OntologyAssumption == OntologyLoads

----------------------------------------------------------------------------
(* Types of references. *)

ContextType(kind) == CASE kind \in {"self", "assistant"} -> "person"
                       [] kind = "current_household" -> "address"
                       [] OTHER -> ""

BaseTypes(ref) ==
  IF ContextType(ref.kind) # "" THEN {ContextType(ref.kind)}
  ELSE IF ref.kind = "entity_id" THEN {TypeOf[ref.value]}
  ELSE IF ref.type # "" THEN {ref.type}
  ELSE CatalogTypes

(* The types a relation leads to; contents of what hosts spaces are read   *)
(* through them.                                                           *)
Reached(types, p, to) ==
  CASE p.direction = "out" -> IF types \cap p.schema.from # {} THEN p.schema.to ELSE {}
    [] p.direction = "in" -> IF types \cap to # {} THEN p.schema.from ELSE {}
    [] OTHER -> (IF types \cap p.schema.from # {} THEN p.schema.to ELSE {})
                  \cup (IF types \cap to # {} THEN p.schema.from ELSE {})

TargetTypes(relation, types) ==
  IF ~Backed(relation) THEN {}
  ELSE Reached(types, PhysicalRelation(relation),
         UNION {PhysicalRelation(r).schema.to :
                  r \in {relation} \cup IF relation = "contents" /\ Backed("hosted_space")
                                        THEN {"hosted_space"} ELSE {}})

RECURSIVE TypesAlong(_, _)
TypesAlong(path, types) ==
  IF path = <<>> THEN types
  ELSE TypesAlong(Tail(path), TargetTypes(Head(path).relation, types))

(* The types a reference leads to; {} where it has none. *)
FinalTypes(ref) ==
  IF BaseTypes(ref) \subseteq CatalogTypes THEN TypesAlong(ref.path, BaseTypes(ref)) ELSE {}

LastRelation(ref) == IF ref.path = <<>> THEN "" ELSE ref.path[Len(ref.path)].relation

(* The kind of a property of all of these types, or "" if one lacks it.    *)
SemanticKind(types, property) ==
  IF types = {} \/ \E t \in types : PhysicalProperty(t, property) = "" THEN ""
  ELSE IF IsComputed(property) THEN "integer" ELSE Contracts[property].kind

RelationKind(ref, property) ==
  IF ref.path # <<>> /\ RelationBound(LastRelation(ref), property)
  THEN Contracts[property].kind ELSE ""

----------------------------------------------------------------------------
(* Structure: what the request types reject before any meaning is given.   *)

FilterWellFormed(f) ==
  /\ (f.property = "") # (f.predicate = "")
  /\ f.predicate # "" => f.op = "eq" /\ f.source = "entity" /\ ~f.anchor /\ ~f.derived
  /\ f.derived => /\ f.op \in {"gt", "gte", "lt", "lte", "eq"}
                  /\ f.source = "entity" /\ ~f.anchor
                  /\ f.value.kind = "integer" /\ f.value.v \in 0 .. 120
  /\ f.anchor => f.source = "entity" /\ f.op \notin {"in", "exists", "date_range"}

ReferenceWellFormed(ref) ==
  /\ ref.kind = "unresolved" => ref.value = "" /\ ref.path = <<>>
  /\ IF ref.kind = "discourse" THEN ref.value = "" /\ ref.offset > 0 /\ ref.type # ""
     ELSE ref.offset = 0 /\ ~ref.many
  /\ ContextType(ref.kind) # "" => ref.value = ""
  /\ ref.kind \in {"named_entity", "entity_id"} => ref.value # ""
  /\ \A i \in DOMAIN ref.path : \A j \in DOMAIN ref.path[i].filters :
       FilterWellFormed(ref.path[i].filters[j])

----------------------------------------------------------------------------
(* Validation. *)

(* A filter of the property contracts (_contract_filter_error is None). *)
FilterContract(f, types, relation, anchorTypes) ==
  IF IsComputed(f.property)
  THEN LET c == ComputedFilters[f.property]
       IN  /\ ComputedAvailable(c)
           /\ f.source = "entity" /\ ~f.derived /\ ~f.anchor
           /\ types # {} /\ types \subseteq c.entities
           /\ f.op \in c.operators
           /\ f.value.kind = "integer" /\ f.value.v \in c.minimum .. c.maximum
  ELSE /\ f.property \in DOMAIN Contracts
       /\ f.source = "entity" =>
            \A t \in types \cup (IF f.anchor THEN anchorTypes ELSE {}) : EntityBound(t, f.property)
       /\ IF f.derived THEN f.source = "entity" /\ Contracts[f.property].kind \in Temporal
          ELSE /\ IF f.source = "entity" THEN types # {}
                  ELSE RelationBound(relation, f.property)
               /\ f.anchor => anchorTypes # {}
               /\ LiteralFits(f.property, f)

References(req) == {req.subject} \cup ToSet(req.other) \cup ToSet(req.exclude)

StepHolds(step, types, anchorTypes) ==
  /\ types # {}
  /\ \A f \in ToSet(step.filters) : FilterContract(f, types, step.relation, anchorTypes)

(* contract_error is None: no contradictory predicates, every step leads   *)
(* somewhere, and every filter is one its owner declares.                  *)
ContractHolds(req) ==
  LET names == {f.predicate : f \in ToSet(req.filters)} \ {""}
  IN  /\ \A n \in names \cap DOMAIN CollectionPredicates :
           CollectionPredicates[n].disjoint \cap names = {}
      /\ \A ref \in References(req) : \A i \in DOMAIN ref.path :
           StepHolds(ref.path[i], TypesAlong(SubSeq(ref.path, 1, i), BaseTypes(ref)),
                     BaseTypes(ref))
      /\ \A f \in ToSet(req.filters) : f.predicate = "" =>
           FilterContract(f, FinalTypes(req.subject), LastRelation(req.subject), {})

RequestKind(req) ==
  IF req.property = "" THEN "unknown"
  ELSE IF req.edgeProperty THEN RelationKind(req.subject, req.property)
  ELSE SemanticKind(FinalTypes(req.subject), req.property)

(* Every reference has a type that its kind and its path allow. *)
ReferencesTyped(req) ==
  \A ref \in References(req) :
    /\ ContextType(ref.kind) # "" => ref.type \in {"", ContextType(ref.kind)}
    /\ ref.kind = "entity_id" => ref.type \in {"", TypeOf[ref.value]}
    /\ ref.kind = "assistant" => ref.path = <<>>
    /\ FinalTypes(ref) # {}

(* Where a request may filter, project, exclude and compare. *)
ShapeHolds(req) ==
  LET op == Operators[req.operation]
      many == req.subject.path # <<>> \/ req.other # <<>> \/ req.subject.many
      listing == req.operation = "select" /\ req.property = ""
  IN  /\ req.filters # <<>> => /\ req.other = <<>>
                               /\ req.subject.path # <<>> \/ req.subject.many
      /\ \A f \in ToSet(req.filters) :
           /\ ~f.anchor
           /\ f.predicate # "" =>
                /\ f.predicate \in DOMAIN CollectionPredicates
                /\ PredicateAvailable(CollectionPredicates[f.predicate])
                /\ FinalTypes(req.subject)
                     \subseteq CollectionPredicates[f.predicate].entities
      /\ req.edgeProperty =>
           req.other = <<>> /\ req.subject.path # <<>> /\ req.property # ""
      /\ "amount" \in DOMAIN req.params => req.operation = "date_add"
      /\ req.each => /\ many /\ req.other = <<>> /\ req.property # ""
                     /\ op.shape = "scalar" \/ req.operation = "select"
      /\ req.exclude # <<>> =>
           /\ many /\ req.other = <<>>
           /\ req.each \/ op.shape = "collection" \/ listing
      /\ op.shape = "collection" => many

(* What the operation itself asks of its property and operands. *)
OperationHolds(req, kind) ==
  LET bare == req.property = "" /\ req.filters = <<>> /\ ~req.edgeProperty
      many == req.subject.path # <<>> \/ req.other # <<>> \/ req.subject.many
  IN  CASE req.operation \in {"resolve_reference", "inspect"} -> bare /\ req.other = <<>>
        [] req.operation = "same_entity" -> bare /\ req.other # <<>>
        [] req.operation = "select" ->
             /\ req.other = <<>>
             /\ IF req.property = "" THEN many ELSE kind # ""
        [] OTHER ->
             /\ kind # ""
             /\ req.other # <<>> =>
                  kind = SemanticKind(FinalTypes(req.other[1]), req.property)
             /\ OperatorAccepts(Operators[req.operation], req.operation, req.property # "", kind,
                  req.property # "" /\ req.operation \in {"latest", "earliest"},
                  req.params)

(* A closed domain has no order (validation_code's UNKNOWN_PROPERTY and    *)
(* unordered-values tests); the other codes it could give for a relation   *)
(* or a filter are already refused by the contracts.                       *)
PropertyHolds(req, kind) ==
  req.property # "" =>
    /\ ~(/\ req.property \in DOMAIN Contracts
         /\ Contracts[req.property].values # {}
         /\ req.operation \in {"argmin", "argmax", "min", "max", "latest", "earliest"})
    /\ kind # ""

KindHolds(req, kind) == PropertyHolds(req, kind) /\ OperationHolds(req, kind)

Validates(req) ==
  /\ req.operation \in DOMAIN Operators
  /\ ContractHolds(req)
  /\ ReferencesTyped(req)
  /\ ShapeHolds(req)
  /\ KindHolds(req, RequestKind(req))
============================================================================
