----------------------------- MODULE FactReading -----------------------------
(***************************************************************************)
(* Answering a household question while items are being moved              *)
(* (facts/resolver.py, facts/engine.py, persistence/retrieval.py).         *)
(*                                                                         *)
(* A question reads the graph in many queries, with an await at each and   *)
(* no snapshot: a reference is grounded, scoped to the household, and      *)
(* followed edge by edge, and a collapsed container is read one hosted     *)
(* space after the other.  The item writer (ItemWriting) moves items       *)
(* between those queries.  Locations are the only edges that the running   *)
(* system changes; every other edge is read as the constant it is, so only *)
(* the reads of located_in are steps.                                      *)
(***************************************************************************)
EXTENDS FactEngine, EntityNames

CONSTANTS
  Order,          \* all entity ids, in the order the store lists them
  StaticEdges,    \* every stored edge but the locations
  Layouts,        \* the locations the items may start from
  Moves,          \* <<item, place>> moves the writer may make
  Collapsed,      \* entities that are listed with what they host
  Concepts,       \* the ontology's kinship concepts, in order: name and path
  Caller, Household, Assistant,
  Requests,       \* the requests that are asked
  Discourses,     \* what earlier turns resolved to, oldest first
  MaxRecords,     \* the engine's bound on one relation of one entity
  ScopeDepth,     \* the resolver's bound on a chain of containers
  MaxMoves        \* how many moves a behaviour has

VARIABLES
  location,       \* located_in: the place of each item, "" for none
  moves,          \* moves made so far
  req, turns,     \* the question being answered and its discourse
  pending,        \* references still to be resolved, the first under way
  cursor,         \* the resolution under way
  resolved,       \* the resolutions made: subject, other, exclusions
  answer,         \* the answer, once there is one
  kin,            \* kinship concepts that lead to the person named
  held, seen      \* locations held throughout, and at some time, since asked

vars == <<location, moves, req, turns, pending, cursor, resolved, answer, kin, held, seen>>

None == ""
Ids == ToSet(Order)
Items == {id \in Ids : TypeOf[id] = "item"}
Rank(id) == CHOOSE i \in DOMAIN Order : Order[i] = id
Listed(ids) == SelectSeq(Order, LAMBDA id : id \in ids)

NoValues == [p \in DOMAIN Contracts |-> NoValue]

Placed(where) == {<<i, where[i]>> : i \in {j \in Items : where[j] # None}}

LocationEdges(pairs) ==
  {[edge |-> "located_in", from |-> p[1], to |-> p[2], values |-> NoValues,
    ended |-> FALSE] : p \in pairs}

----------------------------------------------------------------------------
(* Retrieval: current edges of one entity, in storage order and limited.   *)

Other(e, id) == IF e.from = id THEN e.to ELSE e.from

Touching(e, id, direction) ==
  \/ direction \in {"out", "both"} /\ e.from = id
  \/ direction \in {"in", "both"} /\ e.to = id

GetRelationships(id, p, pairs) ==
  SetToSortSeq({e \in StaticEdges \cup LocationEdges(pairs) :
                  e.edge = p.edge /\ ~e.ended /\ Touching(e, id, p.direction)},
               LAMBDA a, b : \/ Rank(a.from) < Rank(b.from)
                             \/ a.from = b.from /\ Rank(a.to) < Rank(b.to))

(* Mutant: what exceeds the bound is dropped, and the answer goes on. *)
RelationEdgesCut(id, relation, pairs) ==
  LET edges == GetRelationships(id, PhysicalRelation(relation), pairs)
  IN  SubSeq(edges, 1, IF Len(edges) > MaxRecords THEN MaxRecords ELSE Len(edges))

RelationEdges(id, relation, pairs) ==
  GetRelationships(id, PhysicalRelation(relation), pairs)

(* Spaces an entity hosts, at any depth: the iterative walk of             *)
(* _hosted_descendants, with its marks for entering and leaving.           *)
RECURSIVE HostedWalk(_, _, _, _)
RECURSIVE HostedEntry(_, _, _, _, _)
HostedEntry(id, edges, stack, walk, found) ==
  IF Len(edges) > MaxRecords THEN [status |-> "collection_incomplete", edges |-> <<>>]
  ELSE HostedWalk(stack \o <<[id |-> id, leaving |-> TRUE]>>
                    \o [i \in DOMAIN edges |-> [id |-> edges[i].from, leaving |-> FALSE]],
                  walk.visited \cup {id}, walk.active \cup {id}, found \o edges)
HostedWalk(stack, visited, active, found) ==
  IF stack = <<>> THEN [status |-> "found", edges |-> found]
  ELSE LET top == Last(stack)
           rest == Front(stack)
       IN  IF top.leaving THEN HostedWalk(rest, visited, active \ {top.id}, found)
           ELSE IF top.id \in active
           THEN [status |-> "computation_impossible", edges |-> <<>>]
           ELSE IF top.id \in visited THEN HostedWalk(rest, visited, active, found)
           ELSE HostedEntry(top.id, RelationEdges(top.id, "hosted_space", {}), rest,
                            [visited |-> visited, active |-> active], found)

HostedDescendants(id) ==
  IF Backed("hosted_space")
  THEN HostedWalk(<<[id |-> id, leaving |-> FALSE]>>, {}, {}, <<>>)
  ELSE [status |-> "found", edges |-> <<>>]

(* _unique_entities: the first of each. *)
Unique(ids) == FoldLeft(LAMBDA s, id : IF id \in ToSet(s) THEN s ELSE Append(s, id), <<>>, ids)

----------------------------------------------------------------------------
(* Filters of a path step; unlike a request's they are all evaluated.      *)

AnchorMatches(f, x, expected) ==
  IF IsMissing(expected) THEN "property_unavailable"
  ELSE IF ~ValueValid(f.property, expected) THEN "filter_unsupported"
  ELSE Verdict(EvaluatePredicate(f.op, x, expected))

PathValueMatches(f, x, anchors) ==
  Unless(FilterValue(f.property, x),
         IF ~f.anchor THEN LiteralMatches(f, x)
         ELSE IF Len(anchors) # 1 THEN "ambiguous"
         ELSE AnchorMatches(f, x, Records[anchors[1]][f.property]))

PathStoredMatches(f, id, physical, anchors) ==
  IF physical = "" THEN "property_unavailable"
  ELSE PathValueMatches(f, Records[id][physical], anchors)

PathFilterMatches(f, id, anchors) ==
  PathStoredMatches(f, id, PhysicalProperty(TypeOf[id], f.property), anchors)

(* A failure counts before a refusal. *)
FirstFailure(verdicts) ==
  LET broken == SelectSeq(verdicts, LAMBDA v : v \notin {"yes", "no"})
  IN  IF broken # <<>> THEN Head(broken) ELSE FirstRefusal(verdicts)

PathVerdict(filters, id, anchors) ==
  LET own == SelectSeq(filters, LAMBDA f : f.source = "entity")
  IN  FirstFailure([i \in DOMAIN own |-> PathFilterMatches(own[i], id, anchors)])

EdgeFilterMatches(f, x) ==
  Unless(FilterValue(f.property, x), Verdict(EvaluatePredicate(f.op, x, f.value)))

EdgeVerdict(e, filters) ==
  LET own == SelectSeq(filters, LAMBDA f : f.source = "relation")
  IN  FirstRefusal([i \in DOMAIN own |-> EdgeFilterMatches(own[i], e.values[own[i].property])])

----------------------------------------------------------------------------
(* A cursor is the state of one call of resolve():                         *)
(*   stage    "scope" while named candidates are being scoped, "reached"   *)
(*            when entities are and the next step begins, "path" while a   *)
(*            step's sources are being read, "done" at the end             *)
(*   status   how it ended, "found" or a failure                           *)

Grounded(ref, many, allowEmpty, stage, status, entities) ==
  [ref |-> ref, many |-> many, allowEmpty |-> allowEmpty,
   stage |-> stage, status |-> status,
   candidates |-> <<>>, agenda |-> <<>>, scoped |-> <<>>,
   anchors |-> entities, entities |-> entities, edges |-> <<>>,
   step |-> 0, sources |-> <<>>, related |-> <<>>, evidence |-> <<>>,
   groups |-> {}, collapsed |-> FALSE]

Ended(c, status) == [c EXCEPT !.stage = "done", !.status = status]

(* The end of resolve(): many entities where one is asked for. *)
Concluded(c) ==
  IF Len(c.entities) > 1 /\ ~c.many THEN Ended(c, "ambiguous") ELSE Ended(c, "found")

(* The sources of a step, given what each entity reached is listed with. *)
OpenStep(c, views, open) ==
  LET spaces(i) == Unique([j \in DOMAIN views[i].edges |-> views[i].edges[j].from])
      broken == SelectSeq(views, LAMBDA v : v.status # "found")
  IN  IF broken # <<>> THEN Ended(c, Head(broken).status)
      ELSE [c EXCEPT !.stage = "path", !.step = @ + 1, !.related = <<>>, !.collapsed = open,
                     !.sources = FlattenSeq([i \in DOMAIN views |-> <<c.entities[i]>> \o spaces(i)]),
                     !.evidence = @ \o FlattenSeq([i \in DOMAIN views |-> views[i].edges])]

(* The next step begins: a collapsed container is listed with what it      *)
(* hosts when its contents are asked for.                                  *)
BeginStep(c) ==
  IF c.step = Len(c.ref.path) THEN Concluded(c)
  ELSE LET opened == IF c.ref.path[c.step + 1].relation = "contents"
                     THEN ToSet(c.entities) \cap Collapsed ELSE {}
       IN  OpenStep(c, [i \in DOMAIN c.entities |->
                          IF c.entities[i] \in opened THEN HostedDescendants(c.entities[i])
                          ELSE [status |-> "found", edges |-> <<>>]],
                    opened # {})

Settled(c) == IF c.stage = "reached" THEN BeginStep(c) ELSE c

(* All sources of the step are read: unique, filtered, and on. *)
KeepReached(c, reached, verdicts) ==
  LET broken == SelectSeq(reached, LAMBDA id : verdicts[id] \notin {"yes", "no"})
      kept == SelectSeq(reached, LAMBDA id : verdicts[id] = "yes")
      links == SelectSeq(c.related, LAMBDA r : r.entity \in ToSet(kept))
      groups == IF ~c.collapsed \/ kept = <<>> THEN {}
                ELSE {[space |-> s,
                       entities |-> {r.entity : r \in {q \in ToSet(links) : q.source = s}}] :
                        s \in {r.source : r \in ToSet(c.related)}}
      next == [c EXCEPT !.stage = "reached", !.entities = kept, !.groups = groups,
                        !.edges = [i \in DOMAIN links |->
                                     [entity |-> links[i].entity, edge |-> links[i].edge]]]
  IN  CASE broken # <<>> -> Ended(c, verdicts[Head(broken)])
        [] broken = <<>> /\ kept # <<>> -> next
        [] broken = <<>> /\ kept = <<>> /\ c.allowEmpty -> Concluded(next)
        [] OTHER -> Ended(c, "relationship_not_found")

FinishStep(c) ==
  LET reached == Unique([i \in DOMAIN c.related |-> c.related[i].entity])
  IN  KeepReached(c, reached, [id \in ToSet(reached) |->
                                 PathVerdict(c.ref.path[c.step].filters, id, c.anchors)])

(* One query of a step: the edges of its next source that its filters take. *)
KeepEdges(c, edges, verdicts) ==
  LET source == Head(c.sources)
      broken == SelectSeq(verdicts, LAMBDA v : v \notin {"yes", "no"})
      places == SelectSeq([i \in DOMAIN edges |-> i], LAMBDA i : verdicts[i] = "yes")
      kept == [i \in DOMAIN places |-> edges[places[i]]]
  IN  IF broken # <<>> THEN Ended(c, Head(broken))
      ELSE [c EXCEPT !.sources = Tail(@),
                     !.evidence = @ \o kept,
                     !.related = @ \o [i \in DOMAIN kept |->
                       [source |-> source, entity |-> Other(kept[i], source),
                        edge |-> kept[i]]]]

AfterSource(c) == IF c.stage = "path" /\ c.sources = <<>> THEN FinishStep(c) ELSE c

ReadEdges(c, edges) ==
  IF Len(edges) > MaxRecords THEN Ended(c, "collection_incomplete")
  ELSE AfterSource(KeepEdges(c, edges, [i \in DOMAIN edges |->
                     EdgeVerdict(edges[i], c.ref.path[c.step].filters)]))

ReadSource(c, pairs) ==
  ReadEdges(c, RelationEdges(Head(c.sources), c.ref.path[c.step].relation, pairs))

(* The named candidates are scoped: none, several, or one to follow. *)
FinishScope(c) ==
  CASE c.scoped = <<>> -> Ended(c, "entity_not_found")
    [] Len(c.scoped) > 1 -> Ended(c, "ambiguous")
    [] OTHER -> [c EXCEPT !.stage = "reached", !.entities = c.scoped, !.anchors = c.scoped]

(* The next candidate; one whose type has no container is in any scope. *)
RECURSIVE NextCandidate(_)
NextCandidate(c) ==
  IF c.candidates = <<>> THEN FinishScope(c)
  ELSE LET id == Head(c.candidates)
           rest == [c EXCEPT !.candidates = Tail(@)]
       IN  IF ScopeParents(TypeOf[id]) = {}
           THEN NextCandidate([rest EXCEPT !.scoped = Append(@, id)])
           ELSE [rest EXCEPT !.stage = "scope",
                             !.agenda = <<[id |-> id, of |-> id, visited |-> {}]>>]

AfterScope(c) == IF c.stage = "scope" /\ c.agenda = <<>> THEN NextCandidate(c) ELSE c

Climb(c, at, edges) ==
  IF Len(edges) > MaxRecords THEN Ended(c, "collection_incomplete")
  ELSE [c EXCEPT !.agenda = [i \in DOMAIN edges |->
                               [id |-> edges[i].to, of |-> at.of,
                                visited |-> at.visited \cup {at.id}]] \o Tail(@)]

(* One step of _belongs_to_household: the next container on the agenda.    *)
ScopeStep(c, at, parents, pairs) ==
  IF at.id = Household THEN [c EXCEPT !.agenda = <<>>, !.scoped = Append(@, at.of)]
  ELSE IF at.id \in at.visited \/ Cardinality(at.visited) >= ScopeDepth \/ parents = {}
  THEN [c EXCEPT !.agenda = Tail(@)]
  ELSE Climb(c, at, GetRelationships(at.id, [edge |-> CHOOSE r \in parents : TRUE,
                                             direction |-> "out"], pairs))

ReadScope(c, pairs) ==
  AfterScope(ScopeStep(c, Head(c.agenda), ScopeParents(TypeOf[Head(c.agenda).id]), pairs))

(* The tables that resolve_entity_alias reads: one, or all. *)
OfType(type) == SelectSeq(Order, LAMBDA id : type \in {None, TypeOf[id]})

Start(c, ids) == [c EXCEPT !.stage = "reached", !.entities = ids, !.anchors = ids]

Recalled(c, ref, focus) ==
  IF focus = <<>> THEN Ended(c, "discourse_context_missing")
  ELSE IF ~ref.many /\ Len(focus) # 1 THEN Ended(c, "ambiguous")
  ELSE Start(c, focus)

Named(c, ids) ==
  IF Household = None THEN FinishScope([c EXCEPT !.scoped = ids])
  ELSE NextCandidate([c EXCEPT !.candidates = ids])

(* The start of resolve(): what a reference denotes before its path.       *)
Ground(c, ref, discourse) ==
  CASE ref.kind = "unresolved" -> Ended(c, "ambiguous")
    [] ref.kind = "discourse" ->
         IF ref.offset > Len(discourse) THEN Ended(c, "discourse_context_missing")
         ELSE Recalled(c, ref, Listed({id \in discourse[Len(discourse) + 1 - ref.offset] :
                                         TypeOf[id] = ref.type}))
    [] ref.kind = "self" ->
         IF Caller = None THEN Ended(c, "caller_context_missing") ELSE Start(c, <<Caller>>)
    [] ref.kind = "current_household" ->
         IF Household = None THEN Ended(c, "entity_not_found") ELSE Start(c, <<Household>>)
    [] ref.kind = "assistant" -> Start(c, <<Assistant>>)
    [] ref.kind = "entity_id" -> Start(c, <<ref.value>>)
    [] ref.kind = "named_entity" ->
         IF Normalize(ref.value) = None THEN Ended(c, "computation_impossible")
         ELSE Named(c, MatchingNamedEntities(OfType(ref.type), ref.value, Caller, Household,
                                             MaxRecords))

----------------------------------------------------------------------------
(* The reference concepts the ontology loads: every step follows a known   *)
(* relation, and every filter is one its property's contract allows.       *)
FilterParses(f) ==
  /\ f.op \in Ordered
  /\ f.anchor => f.source = "entity"

ConceptParses(k) ==
  /\ k.path # <<>>
  /\ \A i \in DOMAIN k.path :
       /\ k.path[i].relation \in DOMAIN BaseRelations
       /\ \A f \in ToSet(k.path[i].filters) : FilterParses(f)

ConceptTyped(k) ==
  \A i \in DOMAIN k.path : \A f \in ToSet(k.path[i].filters) :
    /\ f.property \in DOMAIN Contracts
    /\ LiteralFits(f.property, f)
    /\ f.source = "relation" => k.path[i].relation \in Contracts[f.property].relations

ASSUME ConceptsLoad == \A k \in ToSet(Concepts) : ConceptParses(k) /\ ConceptTyped(k)

NoCursor == Grounded([path |-> <<>>], FALSE, FALSE, "done", "found", <<>>)
NoAnswer == [status |-> None, shape |-> "scalar", value |-> NoValue,
             focus |-> {}, groups |-> {}, concept |-> None]

----------------------------------------------------------------------------
(* The engine: subject, other and every exclusion are resolved in turn,    *)
(* whether or not an earlier one failed; the first failure is the answer.  *)

ExpectMany(r, ref, i) ==
  IF i = 1
  THEN /\ r.other = <<>>
       /\ \/ r.each \/ Operators[r.operation].shape = "collection"
          \/ r.operation = "select" /\ r.property = None
          \/ r.filters # <<>>
  ELSE i > 1 + Len(r.other) /\ ref.many

AllowEmpty(r) == r.operation \in {"count", "select"} \/ r.each

(* The cursor of the i-th reference; that of a kinship concept may find    *)
(* none or many.                                                           *)
Opening(r, ref, i) ==
  IF answer.status # None THEN Grounded(ref, TRUE, TRUE, "ground", "found", <<>>)
  ELSE Grounded(ref, ExpectMany(r, ref, i), i = 1 /\ AllowEmpty(r), "ground", "found", <<>>)

----------------------------------------------------------------------------
(* The concept by which the speaker is related to a person: the longest    *)
(* and most specific kinship path that leads there, if it is the only one. *)

SpeakerReference(k) == [kind |-> "self", value |-> None, type |-> "person",
                        path |-> k.path, offset |-> 0, many |-> FALSE]

Relates(r, a) ==
  /\ r.operation = "resolve_reference" /\ a.status = "found"
  /\ r.subject.path = <<>> /\ r.subject.kind \in {"named_entity", "entity_id"}
  /\ Caller \notin {None, a.value}

Specificity(k) ==
  <<Len(k.path), SumOf([i \in DOMAIN k.path |-> [v |-> Len(k.path[i].filters)]])>>

MoreSpecific(s, t) == s[1] > t[1] \/ (s[1] = t[1] /\ s[2] > t[2])

MostSpecific(hits) ==
  LET best == {k \in hits : \A other \in hits :
                 ~MoreSpecific(Specificity(Concepts[other]), Specificity(Concepts[k]))}
  IN  IF Cardinality(best) = 1 THEN Concepts[CHOOSE k \in best : TRUE].name ELSE None

----------------------------------------------------------------------------
Failures(done) == {i \in DOMAIN done : done[i].status # "found"}

Computed(r, c, subject, others) ==
  [status |-> c.result.status, shape |-> c.result.shape,
   value |-> c.result.value,
   focus |-> Focus(r, c.entities, others, c.result, subject.evidence),
   groups |-> IF c.result.status = "found"
              THEN VisibleGroups(c.result, subject.groups) ELSE {},
   concept |-> None]

Answered(r, done, others) ==
  IF Failures(done) # {}
  THEN [NoAnswer EXCEPT !.status = done[CHOOSE i \in Failures(done) :
                                          \A j \in Failures(done) : i <= j].status]
  ELSE Computed(r, Compute(r, done[1], others,
                           UNION {ToSet(done[i].entities) : i \in (2 + Len(r.other)) .. Len(done)}),
                done[1], others)

Init ==
  /\ location \in Layouts
  /\ moves = 0 /\ req = <<>> /\ turns = <<>> /\ pending = <<>>
  /\ cursor = NoCursor /\ resolved = <<>> /\ answer = NoAnswer /\ kin = {}
  /\ held = {} /\ seen = {}

(* A request is asked; one that does not validate is answered at once. *)
Ask(r, discourse) ==
  /\ req = <<>>
  /\ req' = <<r>> /\ turns' = discourse
  /\ held' = Placed(location) /\ seen' = Placed(location)
  /\ IF ~Validates(r)
     THEN /\ answer' = [NoAnswer EXCEPT !.status = "semantic_plan_unsupported"]
          /\ UNCHANGED pending
     ELSE /\ pending' = <<r.subject>> \o r.other \o r.exclude
          /\ UNCHANGED answer
  /\ UNCHANGED <<location, moves, cursor, resolved, kin>>

(* A resolution goes on, or is one more of those made. *)
Proceed(c) ==
  IF c.stage # "done" THEN cursor' = c /\ UNCHANGED <<pending, resolved>>
  ELSE /\ cursor' = NoCursor /\ pending' = Tail(pending)
       /\ resolved' = Append(resolved, c)

(* The next reference is grounded. *)
TakeReference ==
  /\ pending # <<>> /\ cursor = NoCursor
  /\ answer.status # None => resolved = <<>>
  /\ Proceed(Settled(Ground(Opening(req[1], Head(pending), Len(resolved) + 1),
                            Head(pending), turns)))
  /\ UNCHANGED <<location, moves, req, turns, answer, kin, held, seen>>

(* One get_relationships query, on the locations of this moment. *)
Read ==
  /\ cursor.stage \in {"scope", "path"}
  /\ Proceed(Settled(IF cursor.stage = "scope" THEN ReadScope(cursor, Placed(location))
                     ELSE ReadSource(cursor, Placed(location))))
  /\ UNCHANGED <<location, moves, req, turns, answer, kin, held, seen>>

(* A query fails: the dispatcher answers an error or raises. *)
ReadFails ==
  /\ cursor.stage \in {"scope", "path"}
  /\ Proceed(Ended(cursor, "computation_impossible"))
  /\ UNCHANGED <<location, moves, req, turns, answer, kin, held, seen>>

(* Everything is resolved: the answer is computed.  Of a person who was    *)
(* only named, the kinship concepts of the speaker are resolved as well,   *)
(* one after the other.                                                    *)
Answer ==
  /\ pending = <<>> /\ resolved # <<>> /\ answer.status = None
  /\ answer' = Answered(req[1], resolved,
                        IF req[1].other = <<>> THEN <<>> ELSE resolved[2].entities)
  /\ resolved' = <<>>
  /\ pending' = IF Relates(req[1], answer')
                THEN [i \in DOMAIN Concepts |-> SpeakerReference(Concepts[i])] ELSE <<>>
  /\ UNCHANGED <<location, moves, req, turns, cursor, kin, held, seen>>

(* A concept is resolved: it counts when it leads to the person, and one   *)
(* that fails is passed over.                                              *)
Relate ==
  /\ answer.status # None /\ resolved # <<>>
  /\ LET c == resolved[1]
     IN  kin' = IF c.status = "found" /\ answer.value \in ToSet(c.entities)
                THEN kin \cup {Len(Concepts) - Len(pending)} ELSE kin
  /\ resolved' = <<>>
  /\ answer' = [answer EXCEPT !.concept = IF pending = <<>> THEN MostSpecific(kin') ELSE None]
  /\ UNCHANGED <<location, moves, req, turns, pending, cursor, held, seen>>

(* The item writer commits a move between two queries. *)
Move(item, place) ==
  /\ pending # <<>> /\ moves < MaxMoves
  /\ location[item] # place
  /\ location' = [location EXCEPT ![item] = place]
  /\ moves' = moves + 1
  /\ held' = held \cap Placed(location')
  /\ seen' = seen \cup Placed(location')
  /\ UNCHANGED <<req, turns, pending, cursor, resolved, answer, kin>>

Next == \/ \E r \in Requests, d \in Discourses : Ask(r, d)
        \/ TakeReference \/ Read \/ ReadFails \/ Answer \/ Relate
        \/ \E m \in Moves : Move(m[1], m[2])

Spec == Init /\ [][Next]_vars

----------------------------------------------------------------------------
(* What a request means, as sets: pairs is the location relation it is     *)
(* read on.  Nothing here is taken from the steps above.                   *)

Stretch(stored, direction) ==
  (IF direction = "in" THEN {} ELSE stored)
    \cup (IF direction = "out" THEN {} ELSE {<<l[2], l[1]>> : l \in stored})

EdgePairs(edge, pairs) ==
  {<<e.from, e.to>> : e \in {s \in StaticEdges : s.edge = edge /\ ~s.ended}}
    \cup IF edge = "located_in" THEN pairs ELSE {}

LinksOf(p, pairs) == Stretch(EdgePairs(p.edge, pairs), p.direction)
Links(relation, pairs) == LinksOf(PhysicalRelation(relation), pairs)

Image(links, ids) == {l[2] : l \in {k \in links : k[1] \in ids}}

RECURSIVE Closure(_, _)
Closure(links, ids) ==
  IF Image(links, ids) \subseteq ids THEN ids
  ELSE Closure(links, ids \cup Image(links, ids))

Opened(ids, relation) ==
  IF relation # "contents" THEN ids
  ELSE ids \cup Closure(Links("hosted_space", {}), ids \cap Collapsed)

(* A path keeps an entity that some edge from the ones before it leads to. *)
RECURSIVE Along(_, _, _, _)
Along(path, ids, anchors, pairs) ==
  IF path = <<>> THEN ids
  ELSE LET step == Head(path)
           from == Opened(ids, step.relation)
       IN  Along(Tail(path),
                 {id \in Image(Links(step.relation, pairs), from) :
                    PathVerdict(step.filters, id, anchors) = "yes"},
                 anchors, pairs)

InScope(id, pairs) ==
  \/ ScopeParents(TypeOf[id]) = {}
  \/ Household \in Closure(UNION {Links(r, pairs) : r \in {"location", "host"}}, {id})

(* A name of its own beats an appellation, whoever has it. *)
CalledBy(ref) ==
  LET candidates == {id \in Ids : ref.type \in {None, TypeOf[id]}}
      owners == {id \in candidates : MatchesAlias(id, ref.value)}
  IN  IF owners # {} THEN owners
      ELSE {id \in candidates :
              MatchesScopedAppellation(id, ref.value, Caller, Household)}

Bases(ref, pairs) ==
  CASE ref.kind = "self" -> {Caller}
    [] ref.kind = "current_household" -> {Household}
    [] ref.kind = "assistant" -> {Assistant}
    [] ref.kind = "entity_id" -> {ref.value}
    [] ref.kind = "named_entity" ->
         {id \in CalledBy(ref) : InScope(id, pairs)}
    [] ref.kind = "discourse" /\ ref.offset \in 1 .. Len(turns) ->
         {id \in turns[Len(turns) + 1 - ref.offset] : TypeOf[id] = ref.type}
    [] OTHER -> {}

DenotesFrom(path, base, pairs) == Along(path, base, Listed(base), pairs)
Denotes(ref, pairs) == DenotesFrom(ref.path, Bases(ref, pairs), pairs)

(* Edges a filter of the request may look at: those of the last relation.  *)
EdgesFrom(before, id, edge) ==
  SetToSeq({[entity |-> id, edge |-> e] :
              e \in {s \in StaticEdges : /\ s.edge = edge /\ ~s.ended
                                         /\ \E x \in before : {s.from, s.to} = {x, id}}})

FinalEdges(ref, id) ==
  IF ref.path = <<>> THEN <<>>
  ELSE EdgesFrom(Denotes([ref EXCEPT !.path = Front(@)], {}), id,
                 PhysicalRelation(LastRelation(ref)).edge)

Passes(r, id) ==
  \/ r.filters = <<>>
  \/ CollectionVerdict(r, r.filters, id, FinalEdges(r.subject, id)) = "yes"

(* The collection, with its exclusions read on other pairs. *)
Meaning(r, pairs, excludedOn) ==
  {id \in Denotes(r.subject, pairs) : Passes(r, id)}
    \ UNION {Denotes(x, excludedOn) : x \in ToSet(r.exclude)}

----------------------------------------------------------------------------
(* One entity, related to the speaker as it says. *)
ReferenceBracketed(value, concept, low, high) ==
  /\ value \in high /\ Cardinality(low) <= 1
  /\ concept # None =>
       \E k \in ToSet(Concepts) :
         k.name = concept /\ value \in Along(k.path, {Caller}, <<Caller>>, {})

RowsBracketed(r, rows, low, high) ==
  /\ low \subseteq {w.entity : w \in rows}
  /\ {w.entity : w \in rows} \subseteq Denotes(r.subject, seen)
  /\ \A w \in rows : w.status \notin {"filter_input_missing", "filter_unsupported"}
                       => w.entity \in high

SameBracketed(same, low, high, rightHeld, rightSeen) ==
  IF same THEN high \cap rightSeen # {}
  ELSE ~(low # {} /\ held = seen /\ low = rightHeld)

ExtremeBracketed(r, value, low, high) ==
  /\ value \in high
  /\ \A id \in low :
       LET mine == Property(value, r.property)
           its == Property(id, r.property)
       IN  ~IF r.operation = "argmin" THEN Less(its, mine) ELSE Less(mine, its)

Bracketed(r, low, high) ==
  CASE r.each -> RowsBracketed(r, ToSet(answer.value), low, high)
    [] r.operation = "count" ->
         answer.value.v \in Cardinality(low) .. Cardinality(high)
    [] r.operation = "select" /\ r.property = None ->
         /\ low \subseteq ToSet(answer.value) /\ ToSet(answer.value) \subseteq high
         /\ Len(answer.value) = Cardinality(ToSet(answer.value))
    [] r.operation = "resolve_reference" ->
         ReferenceBracketed(answer.value, answer.concept, low, high)
    [] r.operation = "same_entity" ->
         SameBracketed(answer.value, low, high, Denotes(r.other[1], held),
                       Denotes(r.other[1], seen))
    [] r.operation \in {"argmin", "argmax"} /\ r.other = <<>> ->
         ExtremeBracketed(r, answer.value, low, high)
    [] r.operation \in {"sum", "min", "max"} /\ low = high ->
         answer.value = Aggregate(r.operation,
                          [i \in DOMAIN Listed(high) |-> Property(Listed(high)[i], r.property)])
    [] OTHER -> TRUE

(* A question's answer lies between what held throughout its reads and     *)
(* what held at some time during them: an item that stayed where it is     *)
(* asked for is never missed, cut off by the bound on records or counted   *)
(* twice, one that was never there is never reported, and with no move in  *)
(* between the answer is exact.  (An item moved within a collapsed         *)
(* container may be missed: there is no snapshot.)  A person is called the *)
(* speaker's kin only by a concept that leads to that person.              *)
AnswerBracketed ==
  answer.status = "found" =>
    Bracketed(req[1], Meaning(req[1], held, seen), Meaning(req[1], seen, held))

NotFoundJustified(refs, named, low) ==
  \/ low = {}
  \/ \E ref \in refs :
       IF named THEN ref.kind = "named_entity" /\ Bases(ref, held) = {}
       ELSE Denotes(ref, held) = {}

AmbiguityJustified(ref, base) ==
  \/ ref.kind = "unresolved"
  \/ Cardinality(base) > 1
  \/ Cardinality(DenotesFrom(ref.path, base, seen)) > 1

(* A question fails only for its reason: nothing is reported missing,      *)
(* ambiguous or too large that was none of these at any time of the reads. *)
FailureJustified ==
  CASE answer.status \in {"relationship_not_found", "entity_not_found"} ->
         NotFoundJustified(References(req[1]), answer.status = "entity_not_found",
                           Meaning(req[1], held, seen))
    [] answer.status = "ambiguous" ->
         \E ref \in References(req[1]) : AmbiguityJustified(ref, Bases(ref, seen))
    [] answer.status = "collection_incomplete" ->
         \E relation \in DOMAIN BaseRelations : \E links \in {Links(relation, seen)} :
           \E id \in Ids : Cardinality(Image(links, {id})) > MaxRecords
    [] answer.status = "discourse_context_missing" ->
         \E ref \in References(req[1]) : ref.kind = "discourse" /\ Bases(ref, seen) = {}
    [] answer.status = "semantic_plan_unsupported" -> pending = <<>> /\ cursor = NoCursor
    [] OTHER -> TRUE
============================================================================
