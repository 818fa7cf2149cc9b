--------------------------- MODULE GraphSnapshots ---------------------------
(***************************************************************************)
(* The household graph as JSON files: ingestion makes the tables equal to  *)
(* the files (persistence/ingestion.py), export writes the tables back to  *)
(* files (persistence/export.py).                                          *)
(*                                                                         *)
(* Ingestion validates the whole source first and then sends one statement *)
(* after another, outside a transaction: any of them may fail, and the     *)
(* transactions of the item writing service run in between.  Export reads  *)
(* table after table in the same way, and then replaces two directories    *)
(* with renames, any of which may fail, or be the last thing the process   *)
(* does.                                                                   *)
(***************************************************************************)
EXTENDS Naturals, Sequences, FiniteSets, SequencesExt

CONSTANTS
  Tables,          \* all table names, sorted
  Schemas,         \* relation -> [from, to, symmetric, temporal, unique]
  RetiredEdges, RetiredNodes,
  TableOf,         \* record id -> its table
  Sources,         \* what the data directory may hold
  Installed,       \* the source of the graph in the initial state
  Leftovers,       \* rows of retired tables from before
  Absent, Null,
  Items, Places,   \* what the item writing service writes
  Budgets          \* [ingestions, writes, exports, faults] a behaviour may have

Relations == DOMAIN Schemas

(* A schema file: endpoint types, and not both symmetric and unique_from. *)
WellFormed(schema) ==
  /\ schema.from # {} /\ schema.to # {}
  /\ {schema.symmetric, schema.temporal, schema.unique} \subseteq BOOLEAN
  /\ ~(schema.symmetric /\ schema.unique)

ASSUME SchemasAssumption == \A r \in Relations : WellFormed(Schemas[r])

Retired == RetiredEdges \cup RetiredNodes
Dirs == {"nodes", "edges"}
OldFiles == [old |-> <<>>]

VARIABLES
  nodes,           \* rows [id, fields]
  edges,           \* rows [relation, id, from, to, start, end]
  ing,             \* the ingestion: what it installs, the statements left
  exp,             \* the export: the tables left to read, what was read
  tree, backup,    \* the export directory and the backups of the last export:
                   \* a content, or <<>>, per directory
  left,            \* ingestions, writes, exports and faults still to come
  ghost            \* what properties compare with: see Init

vars == <<nodes, edges, ing, exp, tree, backup, left, ghost>>

RowsOf(rows, t) == {n \in rows : TableOf[n.id] = t}
EdgesOf(rows, r) == {e \in rows : e.relation = r}

----------------------------------------------------------------------------
(* Validation of a source: [nodes |-> table -> records, edges |-> relation *)
(* -> records].  A record's fields are the names it has, and bad the ones  *)
(* among them whose value is malformed.                                    *)

NameOk(n) == "name" \notin n.bad

AddressAsOk(n, t) == "address_as" \in n.fields => t = "person" /\ "address_as" \notin n.bad

GuestOk(n, t) == t = "person" => "is_guest" \notin n.fields

SpatialOk(n, t) ==
  CASE t = "space" -> "coordinate" \notin n.bad
    [] t = "embodiment" -> TRUE
    [] OTHER -> "coordinate" \notin n.fields

NodeOk(n, t) ==
  /\ "collapse" \notin n.bad
  /\ IF t = "embodiment"
     THEN "agent_id" \notin n.fields /\ "embodiment_type" \in n.fields \ n.bad
     ELSE NameOk(n)
  /\ TableOf[n.id] = t
  /\ AddressAsOk(n, t) /\ GuestOk(n, t) /\ SpatialOk(n, t)

TemporalOk(e, schema) ==
  /\ {e.start, e.end} # {Absent} => schema.temporal
  /\ e.start \notin {Null, "malformed"} /\ e.end # "malformed"

(* An item in an address or a space, or a space in a space. *)
LocatedInAllowed(from, to) ==
  \/ from = "item" /\ to \in {"address", "space"}
  \/ from = "space" /\ to = "space"

ValidEndpoints(schema, from, to) ==
  \/ from \in schema.from /\ to \in schema.to
  \/ schema.symmetric /\ from \in schema.to /\ to \in schema.from

(* The identity of a relationship that has none in the file. *)
ImplicitId(r, from, to) == <<r, from, to>>
EdgeId(r, e) == IF e.id = Null THEN ImplicitId(r, e.from, e.to) ELSE <<r, e.id>>

EdgePair(schema, e) == IF schema.symmetric THEN {e.from, e.to} ELSE <<e.from, e.to>>

Distinct(seq, F(_)) == \A i, j \in DOMAIN seq : F(seq[i]) = F(seq[j]) => i = j

(* Mutant: an endpoint need not be among the nodes of the source. *)
EdgeOkDangling(e, r, known) ==
  /\ IF r = "located_in" THEN LocatedInAllowed(TableOf[e.from], TableOf[e.to])
     ELSE ValidEndpoints(Schemas[r], TableOf[e.from], TableOf[e.to])
  /\ e.id # Null => TableOf[e.id] = r
  /\ TemporalOk(e, Schemas[r])

EdgeOk(e, r, known) ==
  /\ IF r = "located_in" THEN LocatedInAllowed(TableOf[e.from], TableOf[e.to])
     ELSE ValidEndpoints(Schemas[r], TableOf[e.from], TableOf[e.to])
  /\ {e.from, e.to} \subseteq known
  /\ e.id # Null => TableOf[e.id] = r
  /\ TemporalOk(e, Schemas[r])

EdgeFileOk(file, r, known) ==
  /\ \A i \in DOMAIN file : EdgeOk(file[i], r, known)
  /\ Distinct(file, LAMBDA e : EdgePair(Schemas[r], e))
  /\ Schemas[r].unique => Distinct(file, LAMBDA e : e.from)
  /\ Distinct(file, LAMBDA e : EdgeId(r, e))

(* A relation whose source entity type is absent needs no file. *)
MissingRelationships(src) ==
  {r \in Relations \ DOMAIN src.edges : Schemas[r].from \cap DOMAIN src.nodes # {}}

Known(src) == UNION {{src.nodes[t][i].id : i \in DOMAIN src.nodes[t]} : t \in DOMAIN src.nodes}

Valid(src) ==
  /\ MissingRelationships(src) = {}
  /\ \A t \in DOMAIN src.nodes :
       /\ \A i \in DOMAIN src.nodes[t] : NodeOk(src.nodes[t][i], t)
       /\ Distinct(src.nodes[t], LAMBDA n : n.id)
  /\ \A r \in DOMAIN src.edges : r \in Relations /\ EdgeFileOk(src.edges[r], r, Known(src))

NodeTables == ToSet(Tables) \ (Relations \cup Retired)

\* A source has no node file named after a relation or a retired table; what is left of
\* those is in its own table.  One location per item.  The service writes items only.
ASSUME GraphAssumption ==
  /\ Tables \in Seq(STRING) /\ Relations \cup Retired \subseteq ToSet(Tables)
  /\ Relations \cap Retired = {} /\ RetiredEdges \cap RetiredNodes = {}
  /\ "located_in" \in Relations /\ Schemas["located_in"].unique
  /\ Absent # Null /\ "malformed" \notin {Absent, Null}
  /\ \A src \in Sources \cup {Installed} : DOMAIN src.nodes \subseteq NodeTables
  /\ Valid(Installed)
  /\ \A t \in DOMAIN Installed.nodes : IsFiniteSet(DOMAIN Installed.nodes[t])
  /\ \A r \in DOMAIN Installed.edges : IsFiniteSet(DOMAIN Installed.edges[r])
  /\ IsFiniteSet(Leftovers.nodes) /\ \A n \in Leftovers.nodes : TableOf[n.id] \in RetiredNodes
  /\ IsFiniteSet(Leftovers.edges)
  /\ \A e \in Leftovers.edges : e.relation \in RetiredEdges /\ e.id[1] = e.relation
  /\ \A i \in Items : TableOf[i] = "item" /\ TableOf[i] \in NodeTables
  /\ \A p \in Places : TableOf[p] \in {"address", "space"} \cap NodeTables

----------------------------------------------------------------------------
(* The rows a source stands for, and the statements that install them.     *)

Row(n) == [id |-> n.id, fields |-> n.fields]

(* A null property is dropped by the database. *)
EdgeRow(r, e) ==
  [relation |-> r, id |-> EdgeId(r, e), from |-> e.from, to |-> e.to, start |-> e.start,
   end |-> IF e.end = Null THEN Absent ELSE e.end]

NodeRows(src, t) == {Row(src.nodes[t][i]) : i \in DOMAIN src.nodes[t]}
EdgeRows(src, r) == {EdgeRow(r, src.edges[r][i]) : i \in DOMAIN src.edges[r]}

IdsOf(rows) == {x.id : x \in rows}

(* The statements of an ingestion: one for each record of a file, and the  *)
(* prune of each table.  Node files come first, relationship files second; *)
(* the retired relations and the retired tables are only pruned.           *)
Records(phase, files) ==
  UNION {[phase : {phase}, table : {k}, row : DOMAIN files[Tables[k]], prune : {FALSE}] :
         k \in {j \in DOMAIN Tables : Tables[j] \in DOMAIN files}}

Prunes(phase, S) ==
  [phase : {phase}, table : {k \in DOMAIN Tables : Tables[k] \in S}, row : {0}, prune : {TRUE}]

Statements(src) ==
  Records(1, src.nodes) \cup Prunes(1, DOMAIN src.nodes)
    \cup Records(2, src.edges) \cup Prunes(2, DOMAIN src.edges)
    \cup Prunes(3, RetiredEdges) \cup Prunes(4, RetiredNodes)

(* Mutant: a table is emptied of old rows before the new ones are made. *)
EarlierPruned(s, u) ==
  \/ s.phase < u.phase
  \/ s.phase = u.phase /\ s.table < u.table
  \/ s.phase = u.phase /\ s.table = u.table /\ s.row < u.row

(* Tables in their order, the records of a table before its prune. *)
Earlier(s, u) ==
  \/ s.phase < u.phase
  \/ s.phase = u.phase /\ s.table < u.table
  \/ s.phase = u.phase /\ s.table = u.table /\ ~s.prune /\ (u.prune \/ s.row < u.row)

Replace(rows, row) == {x \in rows : x.id # row.id} \cup {row}

(* The database deletes the edges of a record that it deletes. *)
WithoutEdgesOf(ids) == {e \in edges : {e.from, e.to} \cap ids = {}}

NewNode(src, s) == Row(src.nodes[Tables[s.table]][s.row])
NewEdge(src, s) == EdgeRow(Tables[s.table], src.edges[Tables[s.table]][s.row])

Upsert(s) ==
  /\ s.phase = 1 /\ ~s.prune
  /\ nodes' = Replace(nodes, NewNode(ing.src, s)) /\ UNCHANGED edges

Relate(s) ==
  /\ s.phase = 2 /\ ~s.prune
  /\ edges' = Replace(edges, NewEdge(ing.src, s)) /\ UNCHANGED nodes

(* What a prune leaves of its table. *)
Keep(src, s) ==
  CASE s.phase = 1 -> IdsOf(NodeRows(src, Tables[s.table]))
    [] s.phase = 2 -> IdsOf(EdgeRows(src, Tables[s.table]))
    [] OTHER -> {}

Prune(s) ==
  LET gone == {n \in RowsOf(nodes, Tables[s.table]) : n.id \notin Keep(ing.src, s)}
  IN  /\ s.prune
      /\ nodes' = nodes \ gone
      /\ edges' = {e \in WithoutEdgesOf(IdsOf(gone)) :
                     e.relation = Tables[s.table] => e.id \in Keep(ing.src, s)}

Apply(s) == Upsert(s) \/ Relate(s) \/ Prune(s)

----------------------------------------------------------------------------
(* Nothing else of the process runs while directories are replaced. *)
Responsive == exp.pc \in {"idle", "read"}

Init ==
  /\ nodes = (UNION {NodeRows(Installed, t) : t \in DOMAIN Installed.nodes}) \cup Leftovers.nodes
  /\ edges = (UNION {EdgeRows(Installed, r) : r \in DOMAIN Installed.edges}) \cup Leftovers.edges
  /\ ing = [src |-> Installed, todo |-> {}, end |-> "none"]
  /\ exp = [pc |-> "idle", todo |-> <<>>, read |-> <<>>, new |-> <<>>, end |-> "none"]
  /\ \E old \in {<<>>, <<OldFiles>>} : tree = [d \in Dirs |-> old]
  /\ backup = [d \in Dirs |-> <<>>]
  /\ left \in Budgets
  /\ ghost = [nodes |-> nodes, edges |-> edges,   \* the graph when an ingestion began
              alone |-> TRUE,                     \* nobody else has written since
              clean |-> TRUE,                     \* and the graph was settled then
              settled |-> TRUE,                   \* it ended, alone: see IngestStep
              steady |-> TRUE,                    \* settled, and no write, during the export
              shot |-> <<>>, tree |-> tree]       \* the graph, the directories at the export

Ingesting == ing.todo # {}

(* The statement that is sent next. *)
Due(s) == s \in ing.todo /\ \A u \in ing.todo \ {s} : Earlier(s, u)

(* A refused source changes nothing. *)
StartIngest(src) ==
  /\ Responsive /\ ~Ingesting /\ left.ingestions > 0
  /\ IF Valid(src)
     THEN /\ left' = [left EXCEPT !.ingestions = @ - 1]
          /\ ing' = [src |-> src, todo |-> Statements(src), end |-> "none"]
          /\ ghost' = [ghost EXCEPT !.nodes = nodes, !.edges = edges, !.alone = TRUE,
                                    !.clean = ghost.settled, !.settled = FALSE,
                                    !.steady = @ /\ exp.pc # "read"]
     ELSE UNCHANGED <<left, ing, ghost>>
  /\ UNCHANGED <<nodes, edges, exp, tree, backup>>

(* A graph that is not settled is again when every relation is replaced. *)
IngestStep ==
  \E s \in ing.todo :
    LET last == ing.todo = {s}
    IN  /\ Responsive /\ Due(s)
        /\ Apply(s)
        /\ ing' = [ing EXCEPT !.todo = @ \ {s}, !.end = IF last THEN "ok" ELSE @]
        /\ ghost' = [ghost EXCEPT !.settled = /\ last /\ ghost.alone
                                              /\ ghost.clean \/ Relations \subseteq DOMAIN ing.src.edges]
        /\ UNCHANGED <<exp, tree, backup, left>>

(* The statement, or the reply to it, is lost; the rest is not sent. *)
IngestFails(applied) ==
  /\ Responsive /\ Ingesting /\ left.faults > 0
  /\ IF applied THEN \E s \in ing.todo : Due(s) /\ Apply(s) ELSE UNCHANGED <<nodes, edges>>
  /\ ing' = [ing EXCEPT !.todo = {}, !.end = "failed"]
  /\ left' = [left EXCEPT !.faults = @ - 1]
  /\ UNCHANGED <<exp, tree, backup, ghost>>

----------------------------------------------------------------------------
(* The transactions of the item writing service. *)

Present(id) == \E n \in nodes : n.id = id
Location(i, p) == EdgeRow("located_in", [id |-> Null, from |-> i, to |-> p,
                                        start |-> Absent, end |-> Absent])

Create(i, p) ==
  /\ ~Present(i) /\ Present(p)
  /\ nodes' = nodes \cup {[id |-> i, fields |-> {"name"}]}
  /\ edges' = edges \cup {Location(i, p)}

Move(i, p) ==
  /\ Present(i) /\ Present(p)
  /\ edges' = {e \in edges : ~(e.relation = "located_in" /\ e.from = i)} \cup {Location(i, p)}
  /\ UNCHANGED nodes

Delete(i) ==
  /\ Present(i)
  /\ nodes' = {n \in nodes : n.id # i}
  /\ edges' = WithoutEdgesOf({i})

Write ==
  /\ Responsive /\ left.writes > 0
  /\ \E i \in Items : Delete(i) \/ \E p \in Places : Create(i, p) \/ Move(i, p)
  /\ left' = [left EXCEPT !.writes = @ - 1]
  /\ ghost' = [ghost EXCEPT !.alone = FALSE, !.steady = @ /\ exp.pc # "read"]
  /\ UNCHANGED <<ing, exp, tree, backup>>

----------------------------------------------------------------------------
(* Export. *)

(* Every table of the database, the registered relations among them. *)
StartExport ==
  /\ exp.pc = "idle" /\ left.exports > 0
  /\ left' = [left EXCEPT !.exports = @ - 1]
  /\ exp' = [exp EXCEPT !.pc = "read", !.todo = Tables, !.new = <<>>, !.end = "none"]
  /\ ghost' = [ghost EXCEPT !.steady = ghost.settled, !.shot = <<nodes, edges>>, !.tree = tree]
  /\ UNCHANGED <<nodes, edges, ing, tree, backup>>

ReadTable ==
  LET t == Head(exp.todo)
  IN  /\ exp.pc = "read" /\ exp.todo # <<>>
      /\ exp' = [exp EXCEPT !.todo = Tail(@),
                            !.read = @ \o <<RowsOf(nodes, t) \cup EdgesOf(edges, t)>>]
      /\ UNCHANGED <<nodes, edges, ing, tree, backup, left, ghost>>

ReadRows(t) == UNION {exp.read[i] : i \in {j \in DOMAIN exp.read : Tables[j] = t}}

(* Mutant: every edge gets a null end. *)
CanonicalEdgeEnded(r, e) ==
  [id |-> IF e.id = ImplicitId(r, e.from, e.to) THEN Null ELSE e.id[2],
   from |-> e.from, to |-> e.to, start |-> e.start,
   end |-> IF e.end = Absent THEN Null ELSE e.end]

(* Implicit identities are left out; a current temporal edge gets a null end. *)
CanonicalEdge(r, e) ==
  [id |-> IF e.id = ImplicitId(r, e.from, e.to) THEN Null ELSE e.id[2],
   from |-> e.from, to |-> e.to, start |-> e.start,
   end |-> IF e.end = Absent /\ Schemas[r].temporal THEN Null ELSE e.end]

CanonicalNode(n) == [id |-> n.id, fields |-> n.fields, bad |-> {}]

(* Empty node tables and retired tables are omitted; relations are not. *)
NodeFiles ==
  LET full == {t \in ToSet(Tables) \ (Relations \cup Retired) : ReadRows(t) # {}}
  IN  [t \in full |-> SetToSeq({CanonicalNode(n) : n \in ReadRows(t)})]

EdgeFiles == [r \in Relations |-> SetToSeq({CanonicalEdge(r, e) : e \in ReadRows(r)})]

(* The staged directories are complete.  The backups get names of their    *)
(* own: those an earlier export left behind are not touched again.         *)
Stage ==
  /\ exp.pc = "read" /\ exp.todo = <<>>
  /\ exp' = [exp EXCEPT !.pc = "nodes", !.read = <<>>,
                        !.new = <<[nodes |-> NodeFiles, edges |-> EdgeFiles]>>]
  /\ backup' = [d \in Dirs |-> <<>>]
  /\ UNCHANGED <<nodes, edges, ing, tree, left, ghost>>

Then(d) == IF d = "nodes" THEN "edges" ELSE "clean"

(* Mutant: the old directory is deleted, not moved away. *)
MoveOldDeleting(d) ==
  /\ exp.pc = d /\ tree[d] # <<>>
  /\ tree' = [tree EXCEPT ![d] = <<>>]
  /\ UNCHANGED <<nodes, edges, ing, exp, backup, left, ghost>>

MoveOld(d) ==
  /\ exp.pc = d /\ tree[d] # <<>>
  /\ tree' = [tree EXCEPT ![d] = <<>>] /\ backup' = [backup EXCEPT ![d] = tree[d]]
  /\ UNCHANGED <<nodes, edges, ing, exp, left, ghost>>

MoveNew(d) ==
  /\ exp.pc = d /\ tree[d] = <<>>
  /\ tree' = [tree EXCEPT ![d] = <<exp.new[1][d]>>]
  /\ exp' = [exp EXCEPT !.pc = Then(d)]
  /\ UNCHANGED <<nodes, edges, ing, backup, left, ghost>>

Clean ==
  /\ exp.pc = "clean"
  /\ backup' = [d \in Dirs |-> <<>>]
  /\ exp' = [exp EXCEPT !.pc = "idle", !.end = "ok"]
  /\ UNCHANGED <<nodes, edges, ing, tree, left, ghost>>

(* An OSError: the directories moved away are moved back. *)
MoveFails ==
  /\ exp.pc \in Dirs /\ left.faults > 0
  /\ tree' = [d \in Dirs |-> IF backup[d] # <<>> THEN backup[d] ELSE tree[d]]
  /\ backup' = [d \in Dirs |-> <<>>]
  /\ exp' = [exp EXCEPT !.pc = "idle", !.end = "failed"]
  /\ left' = [left EXCEPT !.faults = @ - 1]
  /\ UNCHANGED <<nodes, edges, ing, ghost>>

(* A query fails, or a backup cannot be deleted. *)
ExportFails ==
  /\ exp.pc \in {"read", "clean"} /\ left.faults > 0
  /\ exp' = [exp EXCEPT !.pc = "idle", !.todo = <<>>, !.read = <<>>, !.end = "failed"]
  /\ left' = [left EXCEPT !.faults = @ - 1]
  /\ UNCHANGED <<nodes, edges, ing, tree, backup, ghost>>

(* The process stops; it sends no further statement. *)
Crash ==
  /\ left.faults > 0 /\ (Ingesting \/ exp.pc # "idle")
  /\ exp' = [exp EXCEPT !.pc = "idle", !.todo = <<>>, !.read = <<>>,
                        !.end = IF exp.pc = "idle" THEN @ ELSE "crashed"]
  /\ ing' = [ing EXCEPT !.todo = {}, !.end = IF Ingesting THEN "failed" ELSE @]
  /\ left' = [left EXCEPT !.faults = @ - 1]
  /\ UNCHANGED <<nodes, edges, tree, backup, ghost>>

Exported == exp.end = "ok"
ExportedSource == [nodes |-> tree["nodes"][1], edges |-> tree["edges"][1]]

Next ==
  \/ \E src \in Sources : StartIngest(src)
  \/ Exported /\ StartIngest(ExportedSource)
  \/ IngestStep \/ \E applied \in BOOLEAN : IngestFails(applied)
  \/ Write
  \/ StartExport \/ ReadTable \/ Stage
  \/ \E d \in Dirs : MoveOld(d) \/ MoveNew(d)
  \/ Clean \/ MoveFails \/ ExportFails \/ Crash

Spec == Init /\ [][Next]_vars

----------------------------------------------------------------------------
(* Properties. *)

Ended == ing.end = "ok" /\ ~Ingesting /\ ghost.alone

(* An ingestion that nobody interferes with makes every table of the       *)
(* source equal to it and empties the retired ones; other tables keep what *)
(* they had, less the edges of records that are gone.  Every edge it       *)
(* installed has both its ends.                                            *)
InstalledIsSource ==
  Ended =>
    LET ids == IdsOf(nodes)
    IN  /\ \A t \in ToSet(Tables) \ (Relations \cup Retired) :
             RowsOf(nodes, t) = IF t \in DOMAIN ing.src.nodes THEN NodeRows(ing.src, t)
                                ELSE RowsOf(ghost.nodes, t)
        /\ \A r \in Relations :
             IF r \in DOMAIN ing.src.edges
             THEN /\ EdgesOf(edges, r) = EdgeRows(ing.src, r)
                  /\ \A e \in EdgesOf(edges, r) : {e.from, e.to} \subseteq ids
             ELSE EdgesOf(edges, r) =
                    {e \in EdgesOf(ghost.edges, r) :
                       {e.from, e.to} \cap (IdsOf(ghost.nodes) \ ids) = {}}
        /\ \A t \in Retired : RowsOf(nodes, t) = {} /\ EdgesOf(edges, t) = {}

(* While an ingestion runs, and wherever it stops, an item that had a      *)
(* place and keeps it or gets another is somewhere, unless the place it    *)
(* had is removed, or the id of that relationship is given to another item *)
(* (then RELATE moves the relationship to that item at once).              *)
StaysSomewhere ==
  (Ingesting \/ ing.end = "failed") /\ ghost.alone /\ "located_in" \in DOMAIN ing.src.edges =>
    \A e \in EdgesOf(ghost.edges, "located_in"), f \in EdgeRows(ing.src, "located_in") :
      /\ e.from = f.from
      /\ e.to \in Known(ing.src)
      /\ \A g \in EdgeRows(ing.src, "located_in") : g.id = e.id => g.from = e.from
      => \E x \in EdgesOf(edges, "located_in") : x.from = e.from /\ x \in {e, f}

(* What is exported from a settled graph that nobody writes meanwhile is a *)
(* valid source; ingesting it brings back every relation, and every node   *)
(* table that had records, as they were.                                   *)
ExportedComesBack ==
  Exported /\ ghost.steady =>
    /\ Valid(ExportedSource)
    /\ Ended /\ ing.src = ExportedSource =>
         /\ \A r \in Relations : EdgesOf(edges, r) = EdgesOf(ghost.shot[2], r)
         /\ \A t \in DOMAIN ExportedSource.nodes : RowsOf(nodes, t) = RowsOf(ghost.shot[1], t)
         /\ {n \in ghost.shot[1] : TableOf[n.id] \notin Retired} \subseteq nodes

(* An export that fails leaves the old directories in their place, or both *)
(* new ones; one that is cut off leaves each old directory in its place or *)
(* beside it, until both new ones are there.                               *)
OldTreeSurvives ==
  LET replaced == exp.new # <<>> /\ \A d \in Dirs : tree[d] = <<exp.new[1][d]>>
      kept(d) == ghost.tree[d] # <<>> => tree[d] = ghost.tree[d]
      safe(d) == ghost.tree[d] # <<>> => ghost.tree[d] \in {tree[d], backup[d]}
  IN  /\ exp.end = "failed" => replaced \/ \A d \in Dirs : kept(d)
      /\ exp.end = "crashed" => replaced \/ \A d \in Dirs : safe(d)
      /\ Exported => replaced /\ \A d \in Dirs : backup[d] = <<>>
============================================================================
