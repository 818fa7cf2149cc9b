------------------------ MODULE GraphSnapshotsProofs ------------------------
(***************************************************************************)
(* What an export or an ingestion may do to the household, wherever it     *)
(* stops: the directories that stood when an export began survive it; an   *)
(* ingestion that has the graph to itself ends with the tables equal to    *)
(* its files; an item that has a place, and keeps one, is never seen       *)
(* without; and what is exported of a settled graph is a source that       *)
(* ingests to that graph.                                                  *)
(***************************************************************************)
EXTENDS GraphSnapshots, FiniteSetTheorems, TLAPS

(* A directory of the export tree that the renames have not reached, whose *)
(* old content has been moved beside it, or that holds the new content.    *)
Untouched(d) == tree[d] = ghost.tree[d] /\ backup[d] = <<>>
MovedAway(d) == tree[d] = <<>> /\ backup[d] = ghost.tree[d]
Replaced(d) == tree[d] = <<exp.new[1][d]>> /\ backup[d] = ghost.tree[d]

(* How far the renames have come, for each place the export can be at.     *)
(* There is an end only when there is no export, and it is what the        *)
(* property says of it.                                                    *)
Progress ==
  /\ exp.pc = "read" => \A d \in Dirs : tree[d] = ghost.tree[d]
  /\ exp.pc \in {"nodes", "edges", "clean"} => exp.new # <<>>
  /\ exp.pc = "nodes" => /\ Untouched("nodes") \/ MovedAway("nodes")
                         /\ Untouched("edges")
  /\ exp.pc = "edges" => /\ Replaced("nodes")
                         /\ Untouched("edges") \/ MovedAway("edges")
  /\ exp.pc = "clean" => \A d \in Dirs : Replaced(d)
  /\ exp.pc # "idle" => exp.end = "none"

Shape ==
  /\ exp.pc \in {"idle", "read", "nodes", "edges", "clean"}
  /\ DOMAIN exp = {"pc", "todo", "read", "new", "end"}
  /\ "tree" \in DOMAIN ghost
  /\ DOMAIN tree = Dirs /\ DOMAIN backup = Dirs

Inv == Shape /\ Progress /\ OldTreeSurvives

----------------------------------------------------------------------------
LEMMA InitInv ==
    Init => Inv
<1> SUFFICES ASSUME Init PROVE Inv
  OBVIOUS
<1>1. exp.pc = "idle" /\ exp.end = "none" /\ DOMAIN exp = {"pc", "todo", "read", "new", "end"}
  BY DEF Init
<1>2. "tree" \in DOMAIN ghost /\ DOMAIN tree = Dirs /\ DOMAIN backup = Dirs
  BY DEF Init
<1> QED
  BY <1>1, <1>2 DEF Inv, Shape, Progress, OldTreeSurvives, Exported

(* Steps that leave the export and the directories alone. *)
LEMMA SameExport ==
    ASSUME Inv, UNCHANGED <<exp, tree, backup>>,
           "tree" \in DOMAIN ghost', ghost'.tree = ghost.tree
    PROVE  Inv'
<1>1. Shape'
  BY DEF Inv, Shape
<1>2. Progress'
  BY DEF Inv, Progress, Untouched, MovedAway, Replaced
<1>3. OldTreeSurvives'
  BY DEF Inv, OldTreeSurvives, Exported
<1> QED
  BY <1>1, <1>2, <1>3 DEF Inv

(* Steps of an export that goes on: no end is to be accounted for. *)
LEMMA StillRunning ==
    ASSUME Shape', Progress', exp'.pc # "idle"
    PROVE  Inv'
<1>1. exp'.end = "none"
  BY DEF Progress
<1> QED
  BY <1>1 DEF Inv, OldTreeSurvives, Exported

----------------------------------------------------------------------------
LEMMA StepIngest ==
    ASSUME Inv,
           \/ \E src : StartIngest(src)
           \/ IngestStep \/ \E applied \in BOOLEAN : IngestFails(applied)
           \/ Write
    PROVE  Inv'
<1>1. UNCHANGED <<exp, tree, backup>>
  BY DEF StartIngest, IngestStep, IngestFails, Write
<1>2. \/ ghost' = ghost
      \/ ghost' = [ghost EXCEPT !.nodes = nodes, !.edges = edges, !.alone = TRUE,
                                !.clean = ghost.settled, !.settled = FALSE,
                                !.steady = @ /\ exp.pc # "read"]
      \/ \E settled : ghost' = [ghost EXCEPT !.settled = settled]
      \/ ghost' = [ghost EXCEPT !.alone = FALSE, !.steady = @ /\ exp.pc # "read"]
  BY DEF StartIngest, IngestStep, IngestFails, Write
<1>3. "tree" \in DOMAIN ghost' /\ ghost'.tree = ghost.tree
  BY <1>2 DEF Inv, Shape
<1> QED
  BY <1>1, <1>3, SameExport

LEMMA StepStartExport ==
    ASSUME Inv, StartExport
    PROVE  Inv'
<1>1. /\ exp'.pc = "read" /\ exp'.end = "none" /\ DOMAIN exp' = DOMAIN exp
      /\ ghost'.tree = tree /\ DOMAIN ghost' = DOMAIN ghost
      /\ UNCHANGED <<tree, backup>>
  BY DEF StartExport, Inv, Shape
<1>2. Shape'
  BY <1>1 DEF Inv, Shape
<1>3. Progress'
  BY <1>1 DEF Progress
<1> QED
  BY <1>1, <1>2, <1>3, StillRunning

LEMMA StepReadTable ==
    ASSUME Inv, ReadTable
    PROVE  Inv'
<1>1. /\ exp.pc = "read" /\ exp'.pc = "read" /\ exp'.end = exp.end /\ DOMAIN exp' = DOMAIN exp
      /\ UNCHANGED <<tree, backup, ghost>>
  BY DEF ReadTable, Inv, Shape
<1>2. Shape'
  BY <1>1 DEF Inv, Shape
<1>3. Progress'
  BY <1>1 DEF Inv, Progress
<1> QED
  BY <1>1, <1>2, <1>3, StillRunning

LEMMA StepStage ==
    ASSUME Inv, Stage
    PROVE  Inv'
<1>1. /\ exp.pc = "read" /\ exp'.pc = "nodes" /\ exp'.end = exp.end
      /\ exp'.new = <<[nodes |-> NodeFiles, edges |-> EdgeFiles]>>
      /\ DOMAIN exp' = DOMAIN exp
      /\ backup' = [d \in Dirs |-> <<>>]
      /\ UNCHANGED <<tree, ghost>>
  BY DEF Stage, Inv, Shape
<1>2. Shape'
  BY <1>1 DEF Inv, Shape
<1>3. exp'.new # <<>>
  BY <1>1
<1>4. \A d \in Dirs : Untouched(d)'
  BY <1>1 DEF Inv, Progress, Untouched
<1>5. Progress'
  BY <1>1, <1>3, <1>4 DEF Inv, Progress, Dirs
<1> QED
  BY <1>1, <1>2, <1>5, StillRunning

----------------------------------------------------------------------------
(* The renames. *)

LEMMA StepMoveOld ==
    ASSUME Inv, NEW d \in Dirs, MoveOld(d)
    PROVE  Inv'
<1>1. /\ exp.pc = d /\ tree[d] # <<>>
      /\ tree' = [tree EXCEPT ![d] = <<>>] /\ backup' = [backup EXCEPT ![d] = tree[d]]
      /\ UNCHANGED <<exp, ghost>>
  BY DEF MoveOld
<1>2. DOMAIN tree = Dirs /\ DOMAIN backup = Dirs
  BY DEF Inv, Shape
<1>3. tree'[d] = <<>> /\ backup'[d] = tree[d]
  BY <1>1, <1>2
<1>4. \A o \in Dirs \ {d} : tree'[o] = tree[o] /\ backup'[o] = backup[o]
  BY <1>1, <1>2
<1>5. Shape'
  BY <1>1 DEF Inv, Shape
<1>6. tree[d] = ghost.tree[d]
  BY <1>1 DEF Inv, Progress, Untouched, MovedAway, Dirs
<1>7. MovedAway(d)'
  BY <1>1, <1>3, <1>6 DEF MovedAway
<1>8. CASE d = "nodes"
  <2>1. Untouched("edges")'
    BY <1>1, <1>4, <1>8 DEF Inv, Progress, Untouched, Dirs
  <2>2. Progress'
    BY <1>1, <1>7, <1>8, <2>1 DEF Inv, Progress
  <2> QED
    BY <1>1, <1>5, <1>8, <2>2, StillRunning
<1>9. CASE d = "edges"
  <2>1. Replaced("nodes")'
    BY <1>1, <1>4, <1>9 DEF Inv, Progress, Replaced, Dirs
  <2>2. Progress'
    BY <1>1, <1>7, <1>9, <2>1 DEF Inv, Progress
  <2> QED
    BY <1>1, <1>5, <1>9, <2>2, StillRunning
<1> QED
  BY <1>8, <1>9 DEF Dirs

LEMMA StepMoveNew ==
    ASSUME Inv, NEW d \in Dirs, MoveNew(d)
    PROVE  Inv'
<1>1. /\ exp.pc = d /\ tree[d] = <<>>
      /\ tree' = [tree EXCEPT ![d] = <<exp.new[1][d]>>]
      /\ exp' = [exp EXCEPT !.pc = Then(d)]
      /\ UNCHANGED <<backup, ghost>>
  BY DEF MoveNew
<1>2. DOMAIN tree = Dirs
  BY DEF Inv, Shape
<1>3. tree'[d] = <<exp.new[1][d]>> /\ \A o \in Dirs \ {d} : tree'[o] = tree[o]
  BY <1>1, <1>2
<1>4. /\ exp'.pc = Then(d) /\ exp'.new = exp.new /\ exp'.end = exp.end
      /\ DOMAIN exp' = DOMAIN exp
  BY <1>1 DEF Inv, Shape
<1>5. Then(d) \in {"edges", "clean"}
  BY DEF Then
<1>6. Shape'
  BY <1>1, <1>4, <1>5 DEF Inv, Shape
<1>7. backup[d] = ghost.tree[d]
  BY <1>1 DEF Inv, Progress, Untouched, MovedAway, Dirs
<1>8. Replaced(d)'
  BY <1>1, <1>3, <1>4, <1>7 DEF Replaced
<1>9. exp.new # <<>> /\ exp.end = "none"
  BY <1>1 DEF Inv, Progress, Dirs
<1>10. CASE d = "nodes"
  <2>1. Untouched("edges")'
    BY <1>1, <1>3, <1>10 DEF Inv, Progress, Untouched, Dirs
  <2>2. Progress'
    BY <1>4, <1>8, <1>9, <1>10, <2>1 DEF Progress, Then
  <2> QED
    BY <1>4, <1>5, <1>6, <2>2, StillRunning
<1>11. CASE d = "edges"
  <2>1. Replaced("nodes")'
    BY <1>1, <1>3, <1>4, <1>11 DEF Inv, Progress, Replaced, Dirs
  <2>2. Progress'
    BY <1>4, <1>8, <1>9, <1>11, <2>1 DEF Progress, Then, Dirs
  <2> QED
    BY <1>4, <1>5, <1>6, <2>2, StillRunning
<1> QED
  BY <1>10, <1>11 DEF Dirs

----------------------------------------------------------------------------
(* The ends of an export. *)

LEMMA StepClean ==
    ASSUME Inv, Clean
    PROVE  Inv'
<1>1. /\ exp.pc = "clean" /\ exp'.pc = "idle" /\ exp'.end = "ok" /\ exp'.new = exp.new
      /\ DOMAIN exp' = DOMAIN exp
      /\ backup' = [d \in Dirs |-> <<>>]
      /\ UNCHANGED <<tree, ghost>>
  BY DEF Clean, Inv, Shape
<1>2. exp.new # <<>> /\ \A d \in Dirs : Replaced(d)
  BY <1>1 DEF Inv, Progress
<1>3. OldTreeSurvives'
  BY <1>1, <1>2 DEF OldTreeSurvives, Exported, Replaced
<1>4. Shape'
  BY <1>1 DEF Inv, Shape
<1>5. Progress'
  BY <1>1 DEF Progress
<1> QED
  BY <1>3, <1>4, <1>5 DEF Inv

LEMMA StepMoveFails ==
    ASSUME Inv, MoveFails
    PROVE  Inv'
<1>1. /\ exp.pc \in Dirs /\ exp'.pc = "idle" /\ exp'.end = "failed" /\ DOMAIN exp' = DOMAIN exp
      /\ tree' = [d \in Dirs |-> IF backup[d] # <<>> THEN backup[d] ELSE tree[d]]
      /\ backup' = [d \in Dirs |-> <<>>]
      /\ ghost' = ghost
  BY DEF MoveFails, Inv, Shape
<1>2. ASSUME NEW d \in Dirs, ghost.tree[d] # <<>>
      PROVE  tree'[d] = ghost.tree[d]
  <2>1. Untouched(d) \/ MovedAway(d) \/ Replaced(d)
    BY <1>1 DEF Inv, Progress, Dirs
  <2>2. tree'[d] = IF backup[d] # <<>> THEN backup[d] ELSE tree[d]
    BY <1>1
  <2> QED
    BY <1>2, <2>1, <2>2 DEF Untouched, MovedAway, Replaced
<1>3. OldTreeSurvives'
  BY <1>1, <1>2 DEF OldTreeSurvives, Exported
<1>4. Shape'
  BY <1>1 DEF Inv, Shape
<1>5. Progress'
  BY <1>1 DEF Progress, Dirs
<1> QED
  BY <1>3, <1>4, <1>5 DEF Inv

(* Reading, nothing has been renamed; cleaning up, everything has. *)
LEMMA StepExportFails ==
    ASSUME Inv, ExportFails
    PROVE  Inv'
<1>1. /\ exp.pc \in {"read", "clean"} /\ exp'.pc = "idle" /\ exp'.end = "failed"
      /\ exp'.new = exp.new /\ DOMAIN exp' = DOMAIN exp
      /\ UNCHANGED <<tree, backup, ghost>>
  BY DEF ExportFails, Inv, Shape
<1>2. CASE exp.pc = "read"
  <2>1. \A d \in Dirs : tree'[d] = ghost'.tree[d]
    BY <1>1, <1>2 DEF Inv, Progress
  <2> QED
    BY <1>1, <2>1 DEF OldTreeSurvives, Exported, Progress, Shape, Inv
<1>3. CASE exp.pc = "clean"
  <2>1. exp'.new # <<>> /\ \A d \in Dirs : tree'[d] = <<exp'.new[1][d]>>
    BY <1>1, <1>3 DEF Inv, Progress, Replaced
  <2> QED
    BY <1>1, <2>1 DEF OldTreeSurvives, Exported, Progress, Shape, Inv
<1> QED
  BY <1>1, <1>2, <1>3

(* Wherever the process stops, an old directory is in its place or beside  *)
(* it, or both new ones are there.                                         *)
LEMMA StepCrash ==
    ASSUME Inv, Crash
    PROVE  Inv'
<1>1. /\ exp'.pc = "idle" /\ exp'.new = exp.new /\ DOMAIN exp' = DOMAIN exp
      /\ exp'.end = IF exp.pc = "idle" THEN exp.end ELSE "crashed"
      /\ UNCHANGED <<tree, backup, ghost>>
  BY DEF Crash, Inv, Shape
<1>2. Shape' /\ Progress'
  BY <1>1 DEF Inv, Shape, Progress
<1>3. CASE exp.pc = "idle"
  <2>1. OldTreeSurvives'
    BY <1>1, <1>3 DEF Inv, OldTreeSurvives, Exported
  <2> QED
    BY <1>2, <2>1 DEF Inv
<1>4. CASE exp.pc \in {"read", "nodes", "edges"}
  <2>1. ASSUME NEW d \in Dirs PROVE ghost.tree[d] \in {tree[d], backup[d]}
    BY <1>4 DEF Inv, Progress, Untouched, MovedAway, Replaced, Dirs
  <2>2. exp'.end = "crashed"
    BY <1>1, <1>4
  <2>3. OldTreeSurvives'
    BY <1>1, <2>1, <2>2 DEF OldTreeSurvives, Exported
  <2> QED
    BY <1>2, <2>3 DEF Inv
<1>5. CASE exp.pc = "clean"
  <2>1. exp'.new # <<>> /\ \A d \in Dirs : tree'[d] = <<exp'.new[1][d]>>
    BY <1>1, <1>5 DEF Inv, Progress, Replaced
  <2>2. exp'.end = "crashed"
    BY <1>1, <1>5
  <2>3. OldTreeSurvives'
    BY <2>1, <2>2 DEF OldTreeSurvives, Exported
  <2> QED
    BY <1>2, <2>3 DEF Inv
<1> QED
  BY <1>3, <1>4, <1>5 DEF Inv, Shape

----------------------------------------------------------------------------
LEMMA StepInv ==
    Inv /\ [Next]_vars => Inv'
<1> SUFFICES ASSUME Inv, [Next]_vars PROVE Inv'
  OBVIOUS
<1>1. CASE \/ \E src : StartIngest(src)
           \/ IngestStep \/ \E applied \in BOOLEAN : IngestFails(applied)
           \/ Write
  BY <1>1, StepIngest
<1>2. CASE StartExport
  BY <1>2, StepStartExport
<1>3. CASE ReadTable
  BY <1>3, StepReadTable
<1>4. CASE Stage
  BY <1>4, StepStage
<1>5. CASE \E d \in Dirs : MoveOld(d)
  BY <1>5, StepMoveOld
<1>6. CASE \E d \in Dirs : MoveNew(d)
  BY <1>6, StepMoveNew
<1>7. CASE Clean
  BY <1>7, StepClean
<1>8. CASE MoveFails
  BY <1>8, StepMoveFails
<1>9. CASE ExportFails
  BY <1>9, StepExportFails
<1>10. CASE Crash
  BY <1>10, StepCrash
<1>11. CASE UNCHANGED vars
  <2>1. UNCHANGED <<exp, tree, backup, ghost>>
    BY <1>11 DEF vars
  <2> QED
    BY <2>1, SameExport DEF Inv, Shape
<1> QED
  BY <1>1, <1>2, <1>3, <1>4, <1>5, <1>6, <1>7, <1>8, <1>9, <1>10, <1>11 DEF Next

(* persistence/export.py replaces two directories with four renames, any   *)
(* of which may fail or be the last thing the process does: what stood     *)
(* there when the export began is in its place again after a failure, and  *)
(* beside it at worst after a crash, until both new directories are there. *)
THEOREM Survival ==
    Spec => []OldTreeSurvives
<1>1. Inv => OldTreeSurvives
  BY DEF Inv
<1>2. Spec => []Inv
  BY InitInv, StepInv, PTL DEF Spec
<1> QED
  BY <1>1, <1>2, PTL

----------------------------------------------------------------------------
(* A source that is installed: it is valid, and has node files for node    *)
(* tables only.                                                            *)
SourceOk(src) == Valid(src) /\ DOMAIN src.nodes \subseteq NodeTables

(* Every record is in a table of nodes, every edge in one of relations.    *)
NodesIn(rows) == \A n \in rows : TableOf[n.id] \in NodeTables \cup RetiredNodes
EdgesIn(rows) == \A e \in rows : e.relation \in Relations \cup RetiredEdges /\ e.id[1] = e.relation

(* The tables of nodes, of relations and the retired ones have nothing in  *)
(* common.                                                                 *)
LEMMA Disjoint ==
    /\ NodeTables \cap Relations = {} /\ NodeTables \cap Retired = {}
    /\ Relations \cap Retired = {} /\ RetiredNodes \cap RetiredEdges = {}
    /\ Relations \cap RetiredEdges = {} /\ Relations \cap RetiredNodes = {}
  BY GraphAssumption DEF NodeTables, Retired

LEMMA Positions ==
    /\ DOMAIN Tables \subseteq Nat
    /\ \A t \in ToSet(Tables) : \E k \in DOMAIN Tables : Tables[k] = t
  BY GraphAssumption DEF ToSet

(* The records of a node file are of its table and known, and each has an  *)
(* id of its own.                                                          *)
LEMMA NodeFacts ==
    ASSUME NEW src, SourceOk(src), NEW t \in DOMAIN src.nodes
    PROVE  /\ t \in NodeTables
           /\ \A n \in NodeRows(src, t) : TableOf[n.id] = t /\ n.id \in Known(src)
           /\ \A m, n \in NodeRows(src, t) : m.id = n.id => m = n
<1>1. /\ \A i \in DOMAIN src.nodes[t] : TableOf[src.nodes[t][i].id] = t
      /\ \A i, j \in DOMAIN src.nodes[t] : src.nodes[t][i].id = src.nodes[t][j].id => i = j
  BY DEF SourceOk, Valid, NodeOk, Distinct
<1>2. \A i \in DOMAIN src.nodes[t] : src.nodes[t][i].id \in Known(src)
  BY DEF Known
<1>3. \A n \in NodeRows(src, t) : \E i \in DOMAIN src.nodes[t] :
        n = Row(src.nodes[t][i]) /\ n.id = src.nodes[t][i].id
  BY DEF NodeRows, Row
<1> QED
  BY <1>1, <1>2, <1>3 DEF SourceOk

(* What is known is a record of the file of its table.                     *)
LEMMA KnownRows ==
    ASSUME NEW src, SourceOk(src), NEW id \in Known(src)
    PROVE  TableOf[id] \in DOMAIN src.nodes /\ id \in IdsOf(NodeRows(src, TableOf[id]))
<1>1. PICK t \in DOMAIN src.nodes : id \in {src.nodes[t][i].id : i \in DOMAIN src.nodes[t]}
  BY DEF Known
<1>2. PICK i \in DOMAIN src.nodes[t] : id = src.nodes[t][i].id
  BY <1>1
<1>3. Row(src.nodes[t][i]) \in NodeRows(src, t) /\ Row(src.nodes[t][i]).id = id
  BY <1>2 DEF NodeRows, Row
<1>4. TableOf[id] = t
  BY <1>3, NodeFacts
<1> QED
  BY <1>3, <1>4 DEF IdsOf

(* The relationships of a file are of its relation, between known records, *)
(* and each has an id of its own; where the schema says so, also a source. *)
LEMMA EdgeFacts ==
    ASSUME NEW src, SourceOk(src), NEW r \in DOMAIN src.edges
    PROVE  /\ r \in Relations
           /\ \A e \in EdgeRows(src, r) : /\ e.relation = r /\ e.id[1] = r
                                          /\ e.from \in Known(src) /\ e.to \in Known(src)
           /\ \A e, f \in EdgeRows(src, r) : e.id = f.id => e = f
           /\ Schemas[r].unique => \A e, f \in EdgeRows(src, r) : e.from = f.from => e = f
<1> DEFINE file == src.edges[r]
<1>1. r \in Relations /\ EdgeFileOk(file, r, Known(src))
  BY DEF SourceOk, Valid
<1>2. \A i \in DOMAIN file : file[i].from \in Known(src) /\ file[i].to \in Known(src)
  BY <1>1 DEF EdgeFileOk, EdgeOk
<1>3. \A i, j \in DOMAIN file : EdgeId(r, file[i]) = EdgeId(r, file[j]) => i = j
  BY <1>1 DEF EdgeFileOk, Distinct
<1>4. Schemas[r].unique => \A i, j \in DOMAIN file : file[i].from = file[j].from => i = j
  BY <1>1 DEF EdgeFileOk, Distinct
<1>5. \A i \in DOMAIN file : EdgeId(r, file[i])[1] = r
  BY DEF EdgeId, ImplicitId
<1>6. \A e \in EdgeRows(src, r) : \E i \in DOMAIN file :
        /\ e = EdgeRow(r, file[i]) /\ e.relation = r /\ e.id = EdgeId(r, file[i])
        /\ e.from = file[i].from /\ e.to = file[i].to
  BY DEF EdgeRows, EdgeRow
<1> HIDE DEF file
<1> QED
  BY <1>1, <1>2, <1>3, <1>4, <1>5, <1>6

(* What a statement is about. *)
LEMMA StatementFacts ==
    ASSUME NEW src, SourceOk(src), NEW s \in Statements(src)
    PROVE  /\ s.table \in DOMAIN Tables /\ s.prune \in BOOLEAN /\ s.phase \in {1, 2, 3, 4}
           /\ ~s.prune => s.phase \in {1, 2}
           /\ s.phase = 1 => Tables[s.table] \in DOMAIN src.nodes
           /\ s.phase = 2 => Tables[s.table] \in DOMAIN src.edges
           /\ s.phase = 3 => Tables[s.table] \in RetiredEdges
           /\ s.phase = 4 => Tables[s.table] \in RetiredNodes
           /\ s.phase = 1 /\ ~s.prune => NewNode(src, s) \in NodeRows(src, Tables[s.table])
           /\ s.phase = 2 /\ ~s.prune => NewEdge(src, s) \in EdgeRows(src, Tables[s.table])
<1>1. CASE s \in Records(1, src.nodes)
  <2>1. PICK k \in {j \in DOMAIN Tables : Tables[j] \in DOMAIN src.nodes} :
          s \in [phase : {1}, table : {k}, row : DOMAIN src.nodes[Tables[k]], prune : {FALSE}]
    BY <1>1 DEF Records
  <2>2. /\ s.phase = 1 /\ s.table = k /\ s.row \in DOMAIN src.nodes[Tables[k]]
        /\ ~s.prune /\ s.prune \in BOOLEAN
    BY <2>1
  <2>3. NewNode(src, s) \in NodeRows(src, Tables[k])
    BY <2>2 DEF NewNode, NodeRows
  <2> QED
    BY <2>1, <2>2, <2>3
<1>2. CASE s \in Records(2, src.edges)
  <2>1. PICK k \in {j \in DOMAIN Tables : Tables[j] \in DOMAIN src.edges} :
          s \in [phase : {2}, table : {k}, row : DOMAIN src.edges[Tables[k]], prune : {FALSE}]
    BY <1>2 DEF Records
  <2>2. /\ s.phase = 2 /\ s.table = k /\ s.row \in DOMAIN src.edges[Tables[k]]
        /\ ~s.prune /\ s.prune \in BOOLEAN
    BY <2>1
  <2>3. NewEdge(src, s) \in EdgeRows(src, Tables[k])
    BY <2>2 DEF NewEdge, EdgeRows
  <2> QED
    BY <2>1, <2>2, <2>3
<1>3. ASSUME NEW p \in {1, 2, 3, 4}, NEW S, s \in Prunes(p, S)
      PROVE  /\ s.phase = p /\ s.table \in DOMAIN Tables /\ Tables[s.table] \in S
             /\ s.prune /\ s.prune \in BOOLEAN
  <2> DEFINE T == {k \in DOMAIN Tables : Tables[k] \in S}
  <2>1. s \in [phase : {p}, table : T, row : {0}, prune : {TRUE}]
    BY <1>3 DEF Prunes
  <2>2. s.phase = p /\ s.table \in T /\ s.prune /\ s.prune \in BOOLEAN
    <3> HIDE DEF T
    <3> QED
      BY <2>1
  <2> QED
    BY <2>2
<1>4. CASE s \in Prunes(1, DOMAIN src.nodes)
  <2>1. /\ s.phase = 1 /\ s.table \in DOMAIN Tables /\ Tables[s.table] \in DOMAIN src.nodes
        /\ s.prune /\ s.prune \in BOOLEAN
    BY <1>3, <1>4
  <2> QED
    BY <2>1
<1>5. CASE s \in Prunes(2, DOMAIN src.edges)
  <2>1. /\ s.phase = 2 /\ s.table \in DOMAIN Tables /\ Tables[s.table] \in DOMAIN src.edges
        /\ s.prune /\ s.prune \in BOOLEAN
    BY <1>3, <1>5
  <2> QED
    BY <2>1
<1>6. CASE s \in Prunes(3, RetiredEdges)
  <2>1. /\ s.phase = 3 /\ s.table \in DOMAIN Tables /\ Tables[s.table] \in RetiredEdges
        /\ s.prune /\ s.prune \in BOOLEAN
    BY <1>3, <1>6
  <2> QED
    BY <2>1
<1>7. CASE s \in Prunes(4, RetiredNodes)
  <2>1. /\ s.phase = 4 /\ s.table \in DOMAIN Tables /\ Tables[s.table] \in RetiredNodes
        /\ s.prune /\ s.prune \in BOOLEAN
    BY <1>3, <1>7
  <2> QED
    BY <2>1
<1> QED
  BY <1>1, <1>2, <1>4, <1>5, <1>6, <1>7 DEF Statements

(* Every record has its statement, and every table that is written its     *)
(* prune.                                                                  *)
LEMMA AllStatements ==
    ASSUME NEW src, SourceOk(src), NEW k \in DOMAIN Tables
    PROVE  /\ Tables[k] \in DOMAIN src.nodes =>
                /\ \E s \in Statements(src) : s.phase = 1 /\ s.table = k /\ s.prune
                /\ \A n \in NodeRows(src, Tables[k]) : \E s \in Statements(src) :
                     s.phase = 1 /\ s.table = k /\ ~s.prune /\ NewNode(src, s) = n
           /\ Tables[k] \in DOMAIN src.edges =>
                /\ \E s \in Statements(src) : s.phase = 2 /\ s.table = k /\ s.prune
                /\ \A e \in EdgeRows(src, Tables[k]) : \E s \in Statements(src) :
                     s.phase = 2 /\ s.table = k /\ ~s.prune /\ NewEdge(src, s) = e
           /\ Tables[k] \in RetiredEdges =>
                \E s \in Statements(src) : s.phase = 3 /\ s.table = k /\ s.prune
           /\ Tables[k] \in RetiredNodes =>
                \E s \in Statements(src) : s.phase = 4 /\ s.table = k /\ s.prune
<1> DEFINE at(phase, row, prune) == [phase |-> phase, table |-> k, row |-> row, prune |-> prune]
<1>1. ASSUME NEW phase, NEW S, Tables[k] \in S
      PROVE  at(phase, 0, TRUE) \in Prunes(phase, S)
  BY <1>1 DEF Prunes
<1>2. ASSUME Tables[k] \in DOMAIN src.nodes, NEW n \in NodeRows(src, Tables[k])
      PROVE  \E s \in Records(1, src.nodes) :
               s.phase = 1 /\ s.table = k /\ ~s.prune /\ NewNode(src, s) = n
  <2>1. PICK i \in DOMAIN src.nodes[Tables[k]] : n = Row(src.nodes[Tables[k]][i])
    BY DEF NodeRows
  <2>2. at(1, i, FALSE)
          \in [phase : {1}, table : {k}, row : DOMAIN src.nodes[Tables[k]], prune : {FALSE}]
    OBVIOUS
  <2>3. at(1, i, FALSE) \in Records(1, src.nodes)
    BY <1>2, <2>2 DEF Records
  <2>4. NewNode(src, at(1, i, FALSE)) = n
    BY <2>1 DEF NewNode
  <2> QED
    BY <2>3, <2>4
<1>3. ASSUME Tables[k] \in DOMAIN src.edges, NEW e \in EdgeRows(src, Tables[k])
      PROVE  \E s \in Records(2, src.edges) :
               s.phase = 2 /\ s.table = k /\ ~s.prune /\ NewEdge(src, s) = e
  <2>1. PICK i \in DOMAIN src.edges[Tables[k]] : e = EdgeRow(Tables[k], src.edges[Tables[k]][i])
    BY DEF EdgeRows
  <2>2. at(2, i, FALSE)
          \in [phase : {2}, table : {k}, row : DOMAIN src.edges[Tables[k]], prune : {FALSE}]
    OBVIOUS
  <2>3. at(2, i, FALSE) \in Records(2, src.edges)
    BY <1>3, <2>2 DEF Records
  <2>4. NewEdge(src, at(2, i, FALSE)) = e
    BY <2>1 DEF NewEdge
  <2> QED
    BY <2>3, <2>4
<1>4. Tables[k] \in DOMAIN src.nodes => at(1, 0, TRUE) \in Statements(src)
  BY <1>1 DEF Statements
<1>5. Tables[k] \in DOMAIN src.edges => at(2, 0, TRUE) \in Statements(src)
  BY <1>1 DEF Statements
<1>6. Tables[k] \in RetiredEdges => at(3, 0, TRUE) \in Statements(src)
  BY <1>1 DEF Statements
<1>7. Tables[k] \in RetiredNodes => at(4, 0, TRUE) \in Statements(src)
  BY <1>1 DEF Statements
<1>8. Records(1, src.nodes) \cup Records(2, src.edges) \subseteq Statements(src)
  BY DEF Statements
<1>9. \A phase : /\ at(phase, 0, TRUE).phase = phase /\ at(phase, 0, TRUE).table = k
                 /\ at(phase, 0, TRUE).prune
  OBVIOUS
<1> HIDE DEF at
<1> QED
  BY <1>2, <1>3, <1>4, <1>5, <1>6, <1>7, <1>8, <1>9

(* A record that a prune deletes is not known to the source, and its table *)
(* is the one that is pruned.                                              *)
LEMMA GoneUnknown ==
    ASSUME NEW src, SourceOk(src), NEW s \in Statements(src), s.prune,
           NEW rows, NodesIn(rows),
           NEW n \in RowsOf(rows, Tables[s.table]), n.id \notin Keep(src, s)
    PROVE  n.id \notin Known(src) /\ Tables[s.table] \in DOMAIN src.nodes \cup RetiredNodes
<1> DEFINE t == Tables[s.table]
<1>1. TableOf[n.id] = t /\ t \in NodeTables \cup RetiredNodes
  BY DEF RowsOf, NodesIn
<1>2. t \in DOMAIN src.nodes \cup RetiredNodes
  BY <1>1, StatementFacts, Disjoint, EdgeFacts DEF Retired
<1>3. ASSUME n.id \in Known(src) PROVE FALSE
  <2>1. t \in DOMAIN src.nodes /\ n.id \in IdsOf(NodeRows(src, t))
    BY <1>1, <1>3, KnownRows
  <2>2. t \in NodeTables
    BY <2>1, NodeFacts
  <2>3. s.phase = 1
    BY <2>2, StatementFacts, Disjoint, EdgeFacts DEF Retired
  <2> QED
    BY <2>1, <2>3 DEF Keep
<1> QED
  BY <1>2, <1>3

----------------------------------------------------------------------------
(* What a statement has made true, and what the ones after it leave true. *)
Only(rows, row) == {x \in rows : x.id = row.id} = {row}
Effect(src, s, ns, es) ==
  /\ s.phase = 1 /\ ~s.prune => Only(ns, NewNode(src, s))
  /\ s.phase = 2 /\ ~s.prune => Only(es, NewEdge(src, s))
  /\ s.prune => /\ \A n \in RowsOf(ns, Tables[s.table]) : n.id \in Keep(src, s)
                /\ \A e \in EdgesOf(es, Tables[s.table]) : e.id \in Keep(src, s)

(* What becomes of the graph ns0, es0 that was there before: known records *)
(* stay, tables and relations without a file are left alone, but for the   *)
(* edges of records that are gone.                                         *)
Before(src, ns, es, ns0, es0) ==
  /\ IdsOf(ns) \subseteq Known(src) \cup IdsOf(ns0)
  /\ IdsOf(ns0) \cap Known(src) \subseteq IdsOf(ns)
  /\ \A t \in NodeTables \ DOMAIN src.nodes : RowsOf(ns, t) = RowsOf(ns0, t)
  /\ \A r \in Relations \ DOMAIN src.edges :
       EdgesOf(es, r) = {e \in EdgesOf(es0, r) : {e.from, e.to} \cap (IdsOf(ns0) \ IdsOf(ns)) = {}}

LEMMA ReplaceFacts ==
    ASSUME NEW rows, NEW row
    PROVE  /\ Only(Replace(rows, row), row)
           /\ IdsOf(Replace(rows, row)) = IdsOf(rows) \cup {row.id}
           /\ \A other : Only(rows, other) /\ other.id # row.id => Only(Replace(rows, row), other)
<1>1. Only(Replace(rows, row), row)
  BY DEF Only, Replace
<1>2. IdsOf(Replace(rows, row)) = IdsOf(rows) \cup {row.id}
  BY DEF IdsOf, Replace
<1>3. ASSUME NEW other, Only(rows, other), other.id # row.id
      PROVE  Only(Replace(rows, row), other)
  BY <1>3 DEF Only, Replace
<1> QED
  BY <1>1, <1>2, <1>3

LEMMA UpsertKeeps ==
    ASSUME SourceOk(ing.src), NodesIn(nodes), EdgesIn(edges),
           NEW s \in Statements(ing.src), Upsert(s)
    PROVE  /\ NodesIn(nodes') /\ EdgesIn(edges') /\ Effect(ing.src, s, nodes', edges')
           /\ \A u \in Statements(ing.src) :
                Effect(ing.src, u, nodes, edges) => Effect(ing.src, u, nodes', edges')
           /\ \A ns0, es0 : Before(ing.src, nodes, edges, ns0, es0) =>
                            Before(ing.src, nodes', edges', ns0, es0)
<1> DEFINE src == ing.src
           t == Tables[s.table]
           row == NewNode(src, s)
<1>1. /\ nodes' = Replace(nodes, row) /\ edges' = edges /\ s.phase = 1 /\ ~s.prune
  BY DEF Upsert
<1>2. /\ t \in DOMAIN src.nodes /\ t \in NodeTables /\ row \in NodeRows(src, t)
      /\ TableOf[row.id] = t
      /\ row.id \in Known(src) /\ row.id \in IdsOf(NodeRows(src, t))
  BY <1>1, StatementFacts, NodeFacts DEF IdsOf
<1> HIDE DEF row
<1>3. \A x \in nodes' : x = row \/ x \in nodes
  BY <1>1 DEF Replace
<1>4. NodesIn(nodes') /\ EdgesIn(edges')
  BY <1>1, <1>2, <1>3 DEF NodesIn, EdgesIn
<1>5. Effect(src, s, nodes', edges')
  BY <1>1, ReplaceFacts DEF Effect, row
<1>6. ASSUME NEW u \in Statements(src), Effect(src, u, nodes, edges)
      PROVE  Effect(src, u, nodes', edges')
  <2>1. ASSUME u.phase = 1, ~u.prune PROVE Only(nodes', NewNode(src, u))
    <3>1. NewNode(src, u) \in NodeRows(src, Tables[u.table]) /\ Tables[u.table] \in DOMAIN src.nodes
      BY <2>1, StatementFacts
    <3>2. CASE NewNode(src, u).id = row.id
      <4>1. Tables[u.table] = t
        BY <1>2, <3>1, <3>2, NodeFacts
      <4>2. NewNode(src, u) = row
        BY <1>2, <3>1, <3>2, <4>1, NodeFacts
      <4> QED
        BY <1>1, <4>2, ReplaceFacts
    <3>3. CASE NewNode(src, u).id # row.id
      BY <1>1, <1>6, <2>1, <3>3, ReplaceFacts DEF Effect
    <3> QED
      BY <3>2, <3>3
  <2>2. ASSUME u.phase = 2, ~u.prune PROVE Only(edges', NewEdge(src, u))
    BY <1>1, <1>6, <2>2 DEF Effect
  <2>3. ASSUME u.prune, NEW n \in RowsOf(nodes', Tables[u.table]) PROVE n.id \in Keep(src, u)
    <3>1. CASE n \in nodes
      BY <1>6, <2>3, <3>1 DEF Effect, RowsOf
    <3>2. CASE n = row
      <4>1. Tables[u.table] = t
        BY <1>2, <3>2 DEF RowsOf
      <4>2. u.phase = 1
        BY <1>2, <4>1, StatementFacts, EdgeFacts, Disjoint DEF Retired
      <4> QED
        BY <1>2, <3>2, <4>1, <4>2 DEF Keep
    <3> QED
      BY <1>3, <3>1, <3>2 DEF RowsOf
  <2>4. ASSUME u.prune, NEW e \in EdgesOf(edges', Tables[u.table]) PROVE e.id \in Keep(src, u)
    BY <1>1, <1>6, <2>4 DEF Effect
  <2> QED
    BY <2>1, <2>2, <2>3, <2>4 DEF Effect
<1>7. ASSUME NEW ns0, NEW es0, Before(src, nodes, edges, ns0, es0)
      PROVE  Before(src, nodes', edges', ns0, es0)
  <2>1. IdsOf(nodes') = IdsOf(nodes) \cup {row.id}
    BY <1>1, ReplaceFacts
  <2>2. IdsOf(nodes') \subseteq Known(src) \cup IdsOf(ns0)
    BY <1>2, <1>7, <2>1 DEF Before
  <2>3. IdsOf(ns0) \cap Known(src) \subseteq IdsOf(nodes')
    BY <1>7, <2>1 DEF Before
  <2>4. IdsOf(ns0) \ IdsOf(nodes') = IdsOf(ns0) \ IdsOf(nodes)
    BY <1>2, <1>7, <2>1 DEF Before
  <2>5. ASSUME NEW v \in NodeTables \ DOMAIN src.nodes PROVE RowsOf(nodes', v) = RowsOf(nodes, v)
    <3>1. \A x \in nodes : x.id = row.id => TableOf[x.id] # v
      BY <1>2
    <3> QED
      BY <1>1, <1>2, <3>1 DEF RowsOf, Replace
  <2> QED
    BY <1>1, <1>7, <2>2, <2>3, <2>4, <2>5 DEF Before
<1> QED
  BY <1>4, <1>5, <1>6, <1>7

LEMMA RelateKeeps ==
    ASSUME SourceOk(ing.src), NodesIn(nodes), EdgesIn(edges),
           NEW s \in Statements(ing.src), Relate(s)
    PROVE  /\ NodesIn(nodes') /\ EdgesIn(edges') /\ Effect(ing.src, s, nodes', edges')
           /\ \A u \in Statements(ing.src) :
                Effect(ing.src, u, nodes, edges) => Effect(ing.src, u, nodes', edges')
           /\ \A ns0, es0 : Before(ing.src, nodes, edges, ns0, es0) =>
                            Before(ing.src, nodes', edges', ns0, es0)
<1> DEFINE src == ing.src
           r == Tables[s.table]
           row == NewEdge(src, s)
<1>1. /\ edges' = Replace(edges, row) /\ nodes' = nodes /\ s.phase = 2 /\ ~s.prune
  BY DEF Relate
<1>2. /\ r \in DOMAIN src.edges /\ r \in Relations /\ row \in EdgeRows(src, r) /\ row.relation = r
      /\ row.id[1] = r /\ row.id \in IdsOf(EdgeRows(src, r))
  BY <1>1, StatementFacts, EdgeFacts DEF IdsOf
<1> HIDE DEF row
<1>3. \A x \in edges' : x = row \/ x \in edges
  BY <1>1 DEF Replace
<1>4. NodesIn(nodes') /\ EdgesIn(edges')
  BY <1>1, <1>2, <1>3 DEF NodesIn, EdgesIn
<1>5. Effect(src, s, nodes', edges')
  BY <1>1, ReplaceFacts DEF Effect, row
<1>6. ASSUME NEW u \in Statements(src), Effect(src, u, nodes, edges)
      PROVE  Effect(src, u, nodes', edges')
  <2>1. ASSUME u.phase = 1, ~u.prune PROVE Only(nodes', NewNode(src, u))
    BY <1>1, <1>6, <2>1 DEF Effect
  <2>2. ASSUME u.phase = 2, ~u.prune PROVE Only(edges', NewEdge(src, u))
    <3>1. /\ NewEdge(src, u) \in EdgeRows(src, Tables[u.table])
          /\ Tables[u.table] \in DOMAIN src.edges
          /\ NewEdge(src, u).id[1] = Tables[u.table]
      BY <2>2, StatementFacts, EdgeFacts
    <3>2. CASE NewEdge(src, u).id = row.id
      <4>1. Tables[u.table] = r
        BY <1>2, <3>1, <3>2
      <4>2. NewEdge(src, u) = row
        BY <1>2, <3>1, <3>2, <4>1, EdgeFacts
      <4> QED
        BY <1>1, <4>2, ReplaceFacts
    <3>3. CASE NewEdge(src, u).id # row.id
      BY <1>1, <1>6, <2>2, <3>3, ReplaceFacts DEF Effect
    <3> QED
      BY <3>2, <3>3
  <2>3. ASSUME u.prune, NEW e \in EdgesOf(edges', Tables[u.table]) PROVE e.id \in Keep(src, u)
    <3>1. CASE e \in edges
      BY <1>6, <2>3, <3>1 DEF Effect, EdgesOf
    <3>2. CASE e = row
      <4>1. Tables[u.table] = r
        BY <1>2, <3>2 DEF EdgesOf
      <4>2. u.phase = 2
        BY <1>2, <4>1, StatementFacts, NodeFacts, Disjoint DEF Retired
      <4> QED
        BY <1>2, <3>2, <4>1, <4>2 DEF Keep
    <3> QED
      BY <1>3, <3>1, <3>2 DEF EdgesOf
  <2>4. ASSUME u.prune, NEW n \in RowsOf(nodes', Tables[u.table]) PROVE n.id \in Keep(src, u)
    BY <1>1, <1>6, <2>4 DEF Effect
  <2> QED
    BY <2>1, <2>2, <2>3, <2>4 DEF Effect
<1>7. ASSUME NEW ns0, NEW es0, Before(src, nodes, edges, ns0, es0)
      PROVE  Before(src, nodes', edges', ns0, es0)
  <2>1. ASSUME NEW q \in Relations \ DOMAIN src.edges PROVE EdgesOf(edges', q) = EdgesOf(edges, q)
    <3>1. \A x \in edges : x.id = row.id => x.relation # q
      BY <1>2 DEF EdgesIn
    <3> QED
      BY <1>1, <1>2, <3>1 DEF EdgesOf, Replace
  <2> QED
    BY <1>1, <1>7, <2>1 DEF Before
<1> QED
  BY <1>4, <1>5, <1>6, <1>7

(* What a prune leaves alone. *)
LEMMA PruneFacts ==
    ASSUME SourceOk(ing.src), NodesIn(nodes), EdgesIn(edges),
           NEW s \in Statements(ing.src), Prune(s)
    PROVE  \E gone \in SUBSET nodes :
             /\ IdsOf(gone) \cap Known(ing.src) = {}
             /\ \A n \in gone : TableOf[n.id] = Tables[s.table]
                                /\ Tables[s.table] \in DOMAIN ing.src.nodes \cup RetiredNodes
             /\ nodes' = nodes \ gone /\ IdsOf(nodes') = IdsOf(nodes) \ IdsOf(gone)
             /\ \A n \in RowsOf(nodes', Tables[s.table]) : n.id \in Keep(ing.src, s)
             /\ edges' = {e \in edges : /\ {e.from, e.to} \cap IdsOf(gone) = {}
                                        /\ e.relation = Tables[s.table] => e.id \in Keep(ing.src, s)}
<1> DEFINE t == Tables[s.table]
           gone == {n \in RowsOf(nodes, t) : n.id \notin Keep(ing.src, s)}
<1>1. /\ s.prune /\ nodes' = nodes \ gone
      /\ edges' = {e \in edges : /\ {e.from, e.to} \cap IdsOf(gone) = {}
                                 /\ e.relation = t => e.id \in Keep(ing.src, s)}
  BY DEF Prune, WithoutEdgesOf
<1>2. \A n \in gone : n.id \notin Known(ing.src) /\ t \in DOMAIN ing.src.nodes \cup RetiredNodes
  BY <1>1, GoneUnknown
<1>3. gone \in SUBSET nodes /\ \A n \in gone : TableOf[n.id] = t
  BY DEF RowsOf
<1>4. \A n \in nodes : n.id \in IdsOf(gone) => n \in gone
  BY DEF RowsOf, IdsOf
<1>5. \A n \in RowsOf(nodes', t) : n.id \in Keep(ing.src, s)
  BY <1>1 DEF RowsOf
<1> HIDE DEF gone
<1>6. IdsOf(nodes') = IdsOf(nodes) \ IdsOf(gone)
  BY <1>1, <1>3, <1>4 DEF IdsOf
<1>7. IdsOf(gone) \cap Known(ing.src) = {}
  BY <1>2 DEF IdsOf
<1> QED
  BY <1>1, <1>2, <1>3, <1>5, <1>6, <1>7

(* A relationship of the source survives it. *)
LEMMA PruneSpares ==
    ASSUME SourceOk(ing.src), NodesIn(nodes), EdgesIn(edges),
           NEW s \in Statements(ing.src), Prune(s),
           NEW r \in DOMAIN ing.src.edges, NEW e \in EdgeRows(ing.src, r), e \in edges
    PROVE  e \in edges'
<1> DEFINE src == ing.src
           t == Tables[s.table]
<1>1. PICK gone \in SUBSET nodes :
        /\ IdsOf(gone) \cap Known(src) = {}
        /\ edges' = {x \in edges : /\ {x.from, x.to} \cap IdsOf(gone) = {}
                                   /\ x.relation = t => x.id \in Keep(src, s)}
  BY PruneFacts
<1>2. /\ r \in Relations /\ e.relation = r /\ e.from \in Known(src) /\ e.to \in Known(src)
      /\ e.id \in IdsOf(EdgeRows(src, r))
  BY EdgeFacts DEF IdsOf
<1>3. ASSUME r = t PROVE e.id \in Keep(src, s)
  <2>1. s.phase = 2
    BY <1>2, <1>3, StatementFacts, NodeFacts, Disjoint DEF Retired
  <2> QED
    BY <1>2, <1>3, <2>1 DEF Keep
<1> QED
  BY <1>1, <1>2, <1>3

LEMMA PruneKeeps ==
    ASSUME SourceOk(ing.src), NodesIn(nodes), EdgesIn(edges),
           NEW s \in Statements(ing.src), Prune(s)
    PROVE  /\ NodesIn(nodes') /\ EdgesIn(edges') /\ Effect(ing.src, s, nodes', edges')
           /\ \A u \in Statements(ing.src) :
                Effect(ing.src, u, nodes, edges) => Effect(ing.src, u, nodes', edges')
           /\ \A ns0, es0 : Before(ing.src, nodes, edges, ns0, es0) =>
                            Before(ing.src, nodes', edges', ns0, es0)
<1> DEFINE src == ing.src
           t == Tables[s.table]
<1>1. PICK gone \in SUBSET nodes :
        /\ IdsOf(gone) \cap Known(src) = {}
        /\ \A n \in gone : TableOf[n.id] = t /\ t \in DOMAIN src.nodes \cup RetiredNodes
        /\ nodes' = nodes \ gone /\ IdsOf(nodes') = IdsOf(nodes) \ IdsOf(gone)
        /\ \A n \in RowsOf(nodes', t) : n.id \in Keep(src, s)
        /\ edges' = {e \in edges : /\ {e.from, e.to} \cap IdsOf(gone) = {}
                                   /\ e.relation = t => e.id \in Keep(src, s)}
  BY PruneFacts
<1>2. nodes' \subseteq nodes /\ edges' \subseteq edges /\ s.prune
  BY <1>1 DEF Prune
<1>3. NodesIn(nodes') /\ EdgesIn(edges')
  BY <1>2 DEF NodesIn, EdgesIn
<1>4. Effect(src, s, nodes', edges')
  BY <1>1, <1>2 DEF Effect, EdgesOf
<1>5. \A r \in DOMAIN src.edges : \A e \in EdgeRows(src, r) : e \in edges => e \in edges'
  BY PruneSpares
<1>6. ASSUME NEW u \in Statements(src), Effect(src, u, nodes, edges)
      PROVE  Effect(src, u, nodes', edges')
  <2>1. ASSUME u.phase = 1, ~u.prune PROVE Only(nodes', NewNode(src, u))
    <3>1. NewNode(src, u).id \in Known(src)
      BY <2>1, StatementFacts, NodeFacts
    <3>2. NewNode(src, u) \notin gone
      BY <1>1, <3>1 DEF IdsOf
    <3> QED
      BY <1>1, <1>6, <2>1, <3>2 DEF Effect, Only
  <2>2. ASSUME u.phase = 2, ~u.prune PROVE Only(edges', NewEdge(src, u))
    <3>1. Only(edges, NewEdge(src, u))
      BY <1>6, <2>2 DEF Effect
    <3>2. NewEdge(src, u) \in edges
      BY <3>1 DEF Only
    <3>3. NewEdge(src, u) \in edges'
      BY <1>5, <2>2, <3>2, StatementFacts
    <3> QED
      BY <1>2, <3>1, <3>3 DEF Only
  <2>3. u.prune => /\ \A n \in RowsOf(nodes', Tables[u.table]) : n.id \in Keep(src, u)
                   /\ \A e \in EdgesOf(edges', Tables[u.table]) : e.id \in Keep(src, u)
    BY <1>2, <1>6 DEF Effect, RowsOf, EdgesOf
  <2> QED
    BY <2>1, <2>2, <2>3 DEF Effect
<1>7. ASSUME NEW ns0, NEW es0, Before(src, nodes, edges, ns0, es0)
      PROVE  Before(src, nodes', edges', ns0, es0)
  <2>1. /\ IdsOf(nodes) \subseteq Known(src) \cup IdsOf(ns0)
        /\ IdsOf(ns0) \cap Known(src) \subseteq IdsOf(nodes)
        /\ \A v \in NodeTables \ DOMAIN src.nodes : RowsOf(nodes, v) = RowsOf(ns0, v)
        /\ \A r \in Relations \ DOMAIN src.edges :
             EdgesOf(edges, r) = {e \in EdgesOf(es0, r) :
                                    {e.from, e.to} \cap (IdsOf(ns0) \ IdsOf(nodes)) = {}}
    BY <1>7 DEF Before
  <2>2. IdsOf(nodes') \subseteq Known(src) \cup IdsOf(ns0)
    BY <1>1, <2>1
  <2>3. IdsOf(ns0) \cap Known(src) \subseteq IdsOf(nodes')
    BY <1>1, <2>1
  <2>4. IdsOf(gone) \subseteq IdsOf(nodes)
    BY <1>1 DEF IdsOf
  <2>5. IdsOf(ns0) \ IdsOf(nodes') = (IdsOf(ns0) \ IdsOf(nodes)) \cup IdsOf(gone)
    BY <1>1, <2>1, <2>4
  <2>6. ASSUME NEW v \in NodeTables \ DOMAIN src.nodes PROVE RowsOf(nodes', v) = RowsOf(nodes, v)
    <3>1. \A n \in gone : TableOf[n.id] # v
      BY <1>1, Disjoint DEF Retired
    <3> QED
      BY <1>1, <3>1 DEF RowsOf
  <2>7. ASSUME NEW r \in Relations \ DOMAIN src.edges
        PROVE  EdgesOf(edges', r) = {e \in EdgesOf(edges, r) : {e.from, e.to} \cap IdsOf(gone) = {}}
    <3>1. r # t
      BY StatementFacts, NodeFacts, Disjoint DEF Retired
    <3> QED
      BY <1>1, <3>1 DEF EdgesOf
  <2>8. ASSUME NEW r \in Relations \ DOMAIN src.edges
        PROVE  EdgesOf(edges', r) = {e \in EdgesOf(es0, r) :
                                       {e.from, e.to} \cap (IdsOf(ns0) \ IdsOf(nodes')) = {}}
    <3>1. EdgesOf(edges, r) = {e \in EdgesOf(es0, r) :
                                 {e.from, e.to} \cap (IdsOf(ns0) \ IdsOf(nodes)) = {}}
      BY <2>1
    <3> QED
      BY <2>5, <2>7, <3>1
  <2> QED
    BY <2>1, <2>2, <2>3, <2>6, <2>8 DEF Before
<1> QED
  BY <1>3, <1>4, <1>6, <1>7

----------------------------------------------------------------------------
GraphTypes ==
  /\ DOMAIN ing = {"src", "todo", "end"}
  /\ DOMAIN ghost = {"nodes", "edges", "alone", "clean", "settled",
                    "steady", "shot", "tree"}
  /\ SourceOk(ing.src) /\ ing.todo \subseteq Statements(ing.src)
  /\ NodesIn(nodes) /\ EdgesIn(edges)
  /\ exp.new # <<>> => DOMAIN exp.new[1]["nodes"] \subseteq NodeTables

(* An ingestion that has the graph to itself: the statements before those  *)
(* that are left have had their effect, and the rest of the graph is as it *)
(* was.                                                                    *)
Installing ==
  ghost.alone /\ (Ingesting \/ ing.end = "ok") =>
    /\ \A s \in Statements(ing.src) \ ing.todo :
         /\ \A u \in ing.todo : Earlier(s, u)
         /\ Effect(ing.src, s, nodes, edges)
    /\ Before(ing.src, nodes, edges, ghost.nodes, ghost.edges)

GraphInv == GraphTypes /\ Installing /\ StaysSomewhere

(* Every statement keeps the effects of those before it. *)
LEMMA ApplyKeeps ==
    ASSUME SourceOk(ing.src), NodesIn(nodes), EdgesIn(edges),
           NEW s \in Statements(ing.src), Apply(s)
    PROVE  /\ NodesIn(nodes') /\ EdgesIn(edges') /\ Effect(ing.src, s, nodes', edges')
           /\ \A u \in Statements(ing.src) :
                Effect(ing.src, u, nodes, edges) => Effect(ing.src, u, nodes', edges')
           /\ \A ns0, es0 : Before(ing.src, nodes, edges, ns0, es0) =>
                            Before(ing.src, nodes', edges', ns0, es0)
<1>1. CASE Upsert(s)
  BY <1>1, UpsertKeeps
<1>2. CASE Relate(s)
  BY <1>2, RelateKeeps
<1>3. CASE Prune(s)
  BY <1>3, PruneKeeps
<1> QED
  BY <1>1, <1>2, <1>3 DEF Apply

(* Where an item is, or is going to be. *)
Moves(e, f) ==
  /\ e.from = f.from /\ e.to \in Known(ing.src)
  /\ \A g \in EdgeRows(ing.src, "located_in") : g.id = e.id => g.from = e.from

LEMMA SomewhereMeans ==
    StaysSomewhere <=>
      ((Ingesting \/ ing.end = "failed") /\ ghost.alone /\ "located_in" \in DOMAIN ing.src.edges =>
         \A e \in EdgesOf(ghost.edges, "located_in"), f \in EdgeRows(ing.src, "located_in") :
           Moves(e, f) => e \in edges \/ f \in edges)
<1>1. ASSUME NEW e \in EdgesOf(ghost.edges, "located_in"),
             NEW f \in EdgeRows(ing.src, "located_in"), Moves(e, f)
      PROVE  (\E x \in EdgesOf(edges, "located_in") : x.from = e.from /\ x \in {e, f})
               <=> (e \in edges \/ f \in edges)
  <2>1. e.relation = "located_in" /\ f.relation = "located_in" /\ e.from = f.from
    BY <1>1 DEF EdgesOf, EdgeRows, EdgeRow, Moves
  <2> QED
    BY <2>1 DEF EdgesOf
<1> QED
  BY <1>1 DEF StaysSomewhere, Moves

LEMMA MoveStep ==
    ASSUME GraphTypes, Installing, ghost.alone,
           NEW s \in ing.todo, Due(s), Apply(s), "located_in" \in DOMAIN ing.src.edges,
           NEW e, NEW f \in EdgeRows(ing.src, "located_in"), e.relation = "located_in",
           Moves(e, f), e \in edges \/ f \in edges
    PROVE  e \in edges' \/ f \in edges'
<1> DEFINE src == ing.src
           r == "located_in"
<1>1. /\ SourceOk(src) /\ NodesIn(nodes) /\ EdgesIn(edges) /\ s \in Statements(src)
  BY DEF GraphTypes
<1>2. /\ f.relation = r /\ f.id[1] = r /\ f.from \in Known(src) /\ f.to \in Known(src)
      /\ \A g \in EdgeRows(src, r) : g.id = f.id \/ g.from = f.from => g = f
  BY <1>1, EdgeFacts, GraphAssumption
<1>3. CASE Upsert(s)
  BY <1>3 DEF Upsert
<1>4. CASE Relate(s)
  <2> DEFINE row == NewEdge(src, s)
  <2>1. /\ edges' = Replace(edges, row) /\ row \in EdgeRows(src, Tables[s.table])
        /\ row.id[1] = Tables[s.table]
    BY <1>1, <1>4, StatementFacts, EdgeFacts DEF Relate
  <2> HIDE DEF row
  <2>2. row \in edges' /\ \A x \in edges : x.id # row.id => x \in edges'
    BY <2>1 DEF Replace
  <2>3. ASSUME f \in edges PROVE f \in edges'
    <3>1. f.id = row.id => row = f
      BY <1>2, <2>1
    <3> QED
      BY <2>2, <2>3, <3>1
  <2>4. ASSUME e \in edges PROVE e \in edges' \/ f \in edges'
    <3>1. e.id[1] = r
      BY <1>1, <2>4 DEF EdgesIn
    <3>2. e.id = row.id => row = f
      BY <1>2, <2>1, <3>1 DEF Moves
    <3> QED
      BY <2>2, <2>4, <3>2
  <2> QED
    BY <2>3, <2>4
<1>5. CASE Prune(s)
  <2>1. f \in edges => f \in edges'
    BY <1>1, <1>5, PruneSpares
  <2>2. PICK gone \in SUBSET nodes :
          /\ IdsOf(gone) \cap Known(src) = {}
          /\ edges' = {x \in edges : /\ {x.from, x.to} \cap IdsOf(gone) = {}
                                     /\ x.relation = Tables[s.table] => x.id \in Keep(src, s)}
    BY <1>1, <1>5, PruneFacts
  <2>3. ASSUME e \in edges, e \notin edges' PROVE f \in edges
    <3>1. {e.from, e.to} \cap IdsOf(gone) = {}
      BY <1>2, <2>2 DEF Moves
    <3>2. Tables[s.table] = r
      BY <2>2, <2>3, <3>1
    <3>3. s.phase = 2 /\ s.prune /\ s.table \in DOMAIN Tables /\ s.table \in Nat
      BY <1>1, <1>5, <3>2, StatementFacts, NodeFacts, Disjoint, Positions, GraphAssumption
         DEF Prune, Retired
    <3>4. PICK u \in Statements(src) :
            u.phase = 2 /\ u.table = s.table /\ ~u.prune /\ NewEdge(src, u) = f
      BY <1>1, <3>2, <3>3, AllStatements
    <3>5. ~Earlier(s, u) /\ u # s
      BY <3>3, <3>4 DEF Earlier
    <3>6. u \notin ing.todo
      BY <3>5 DEF Due
    <3>7. Effect(src, u, nodes, edges)
      BY <3>4, <3>6 DEF Installing, Ingesting
    <3> QED
      BY <3>4, <3>7 DEF Effect, Only
  <2> QED
    BY <2>1, <2>3
<1> QED
  BY <1>3, <1>4, <1>5 DEF Apply

(* The graph at the start: the installed source and what was left behind.  *)
LEMMA InitGraph ==
    Init => GraphInv
<1> SUFFICES ASSUME Init PROVE GraphInv
  OBVIOUS
<1>1. SourceOk(Installed)
  BY GraphAssumption DEF SourceOk
<1>2. NodesIn(nodes)
  <2>1. ASSUME NEW n \in nodes PROVE TableOf[n.id] \in NodeTables \cup RetiredNodes
    <3>1. nodes = (UNION {NodeRows(Installed, t) : t \in DOMAIN Installed.nodes}) \cup Leftovers.nodes
      BY DEF Init
    <3>2. n \in Leftovers.nodes \/ \E t \in DOMAIN Installed.nodes : n \in NodeRows(Installed, t)
      BY <3>1
    <3> QED
      BY <1>1, <3>2, NodeFacts, GraphAssumption
  <2> QED
    BY <2>1 DEF NodesIn
<1>3. EdgesIn(edges)
  <2>1. ASSUME NEW e \in edges
        PROVE  e.relation \in Relations \cup RetiredEdges /\ e.id[1] = e.relation
    <3>1. edges = (UNION {EdgeRows(Installed, r) : r \in DOMAIN Installed.edges}) \cup Leftovers.edges
      BY DEF Init
    <3>2. e \in Leftovers.edges \/ \E r \in DOMAIN Installed.edges : e \in EdgeRows(Installed, r)
      BY <3>1
    <3> QED
      BY <1>1, <3>2, EdgeFacts, GraphAssumption
  <2> QED
    BY <2>1 DEF EdgesIn
<1>4. /\ DOMAIN ing = {"src", "todo", "end"} /\ ing.src = Installed /\ ing.todo = {}
      /\ ing.end = "none" /\ exp.new = <<>>
      /\ DOMAIN ghost = {"nodes", "edges", "alone", "clean", "settled",
                    "steady", "shot", "tree"}
  BY DEF Init
<1>5. GraphTypes
  BY <1>1, <1>2, <1>3, <1>4 DEF GraphTypes
<1>6. Installing /\ StaysSomewhere
  BY <1>4 DEF Installing, StaysSomewhere, Ingesting
<1> QED
  BY <1>5, <1>6 DEF GraphInv

(* Steps that leave the graph and its ingestion alone. *)
LEMMA GraphSame ==
    ASSUME GraphInv, nodes' = nodes, edges' = edges, ing' = ing,
           DOMAIN ghost' = DOMAIN ghost, ghost'.nodes = ghost.nodes,
           ghost'.edges = ghost.edges, ghost'.alone = ghost.alone,
           exp'.new # <<>> => DOMAIN exp'.new[1]["nodes"] \subseteq NodeTables
    PROVE  GraphInv'
<1>1. GraphTypes'
  BY DEF GraphInv, GraphTypes
<1>2. Installing'
  BY DEF GraphInv, Installing, Ingesting
<1>3. StaysSomewhere'
  BY DEF GraphInv, StaysSomewhere, Ingesting
<1> QED
  BY <1>1, <1>2, <1>3 DEF GraphInv

(* A source that is taken: nothing is installed yet, and everything is     *)
(* where it was.                                                           *)
LEMMA GraphStartIngest ==
    ASSUME Inv, GraphInv, NEW src, DOMAIN src.nodes \subseteq NodeTables, StartIngest(src)
    PROVE  GraphInv'
<1>1. nodes' = nodes /\ edges' = edges /\ exp' = exp
  BY DEF StartIngest
<1>2. CASE Valid(src)
  <2>1. /\ ing' = [src |-> src, todo |-> Statements(src), end |-> "none"]
        /\ ghost' = [ghost EXCEPT !.nodes = nodes, !.edges = edges, !.alone = TRUE,
                                  !.clean = ghost.settled, !.settled = FALSE,
                                  !.steady = @ /\ exp.pc # "read"]
    BY <1>2 DEF StartIngest
  <2>2. /\ DOMAIN ing' = {"src", "todo", "end"} /\ ing'.src = src
        /\ ing'.todo = Statements(src) /\ ing'.end = "none"
    BY <2>1
  <2>3. /\ DOMAIN ghost' = DOMAIN ghost /\ ghost'.nodes = nodes /\ ghost'.edges = edges
    BY <2>1 DEF GraphInv, GraphTypes
  <2>4. GraphTypes'
    BY <1>1, <1>2, <2>2, <2>3 DEF GraphInv, GraphTypes, SourceOk
  <2>5. Before(src, nodes, edges, nodes, edges)
    BY DEF Before
  <2>6. Installing'
    BY <1>1, <2>2, <2>3, <2>5 DEF Installing
  <2>7. StaysSomewhere'
    BY <1>1, <2>2, <2>3 DEF StaysSomewhere, EdgesOf
  <2> QED
    BY <2>4, <2>6, <2>7 DEF GraphInv
<1>3. CASE ~Valid(src)
  <2>1. ing' = ing /\ ghost' = ghost
    BY <1>3 DEF StartIngest
  <2> QED
    BY <1>1, <2>1, GraphSame DEF GraphInv, GraphTypes
<1> QED
  BY <1>2, <1>3

(* An item that is somewhere stays somewhere when a statement is applied. *)
LEMMA GraphApply ==
    ASSUME GraphInv, NEW s \in ing.todo, Due(s), Apply(s),
           ing'.src = ing.src, ghost'.edges = ghost.edges, ghost'.alone = ghost.alone
    PROVE  StaysSomewhere'
<1>1. ASSUME ghost.alone, "located_in" \in DOMAIN ing.src.edges,
             NEW e \in EdgesOf(ghost.edges, "located_in"),
             NEW f \in EdgeRows(ing.src, "located_in"), Moves(e, f)
      PROVE  \E x \in EdgesOf(edges', "located_in") : x.from = e.from /\ x \in {e, f}
  <2>1. e.relation = "located_in" /\ f.relation = "located_in" /\ e.from = f.from
    BY <1>1 DEF EdgesOf, EdgeRows, EdgeRow, Moves
  <2>2. e \in edges \/ f \in edges
    BY <1>1, SomewhereMeans DEF GraphInv, Ingesting
  <2>3. e \in edges' \/ f \in edges'
    BY <1>1, <2>1, <2>2, MoveStep DEF GraphInv
  <2> QED
    BY <2>1, <2>3 DEF EdgesOf
<1> QED
  BY <1>1 DEF StaysSomewhere, Moves

LEMMA GraphIngestStep ==
    ASSUME Inv, GraphInv, IngestStep
    PROVE  GraphInv'
<1>1. PICK s \in ing.todo :
        /\ Due(s) /\ Apply(s)
        /\ ing' = [ing EXCEPT !.todo = @ \ {s}, !.end = IF ing.todo = {s} THEN "ok" ELSE @]
        /\ ghost' = [ghost EXCEPT !.settled =
                        /\ ing.todo = {s} /\ ghost.alone
                        /\ ghost.clean \/ Relations \subseteq DOMAIN ing.src.edges]
        /\ exp' = exp
  BY DEF IngestStep
<1>2. /\ DOMAIN ing' = DOMAIN ing /\ ing'.src = ing.src /\ ing'.todo = ing.todo \ {s}
      /\ DOMAIN ghost' = DOMAIN ghost /\ ghost'.nodes = ghost.nodes
      /\ ghost'.edges = ghost.edges /\ ghost'.alone = ghost.alone
  BY <1>1 DEF GraphInv, GraphTypes
<1>3. /\ SourceOk(ing.src) /\ NodesIn(nodes) /\ EdgesIn(edges) /\ s \in Statements(ing.src)
  BY DEF GraphInv, GraphTypes
<1>4. /\ NodesIn(nodes') /\ EdgesIn(edges') /\ Effect(ing.src, s, nodes', edges')
      /\ \A u \in Statements(ing.src) :
           Effect(ing.src, u, nodes, edges) => Effect(ing.src, u, nodes', edges')
      /\ \A ns0, es0 : Before(ing.src, nodes, edges, ns0, es0) =>
                       Before(ing.src, nodes', edges', ns0, es0)
  BY <1>1, <1>3, ApplyKeeps
<1>5. GraphTypes'
  BY <1>1, <1>2, <1>4 DEF GraphInv, GraphTypes
<1>6. Installing'
  <2> SUFFICES ASSUME ghost.alone
               PROVE  /\ \A u \in Statements(ing.src) \ ing'.todo :
                           /\ \A v \in ing'.todo : Earlier(u, v)
                           /\ Effect(ing.src, u, nodes', edges')
                      /\ Before(ing.src, nodes', edges', ghost.nodes, ghost.edges)
    BY <1>2 DEF Installing
  <2>1. Ingesting
    BY DEF Ingesting
  <2>2. Before(ing.src, nodes', edges', ghost.nodes, ghost.edges)
    BY <1>4, <2>1 DEF GraphInv, Installing
  <2>3. ASSUME NEW u \in Statements(ing.src) \ ing'.todo
        PROVE  (\A v \in ing'.todo : Earlier(u, v)) /\ Effect(ing.src, u, nodes', edges')
    <3>1. CASE u = s
      BY <1>1, <1>2, <1>4, <3>1 DEF Due
    <3>2. CASE u # s
      BY <1>2, <1>4, <2>1, <3>2 DEF GraphInv, Installing
    <3> QED
      BY <3>1, <3>2
  <2> QED
    BY <2>2, <2>3
<1>7. StaysSomewhere'
  BY <1>1, <1>2, GraphApply
<1> QED
  BY <1>5, <1>6, <1>7 DEF GraphInv

(* Wherever an ingestion stops, what it has not touched is as it was. *)
LEMMA GraphStops ==
    ASSUME GraphInv, Ingesting,
           DOMAIN ing' = DOMAIN ing, ing'.src = ing.src, ing'.todo = {}, ing'.end = "failed",
           ghost' = ghost, exp'.new = exp.new,
           NodesIn(nodes'), EdgesIn(edges'), StaysSomewhere'
    PROVE  GraphInv'
<1>1. GraphTypes'
  BY DEF GraphInv, GraphTypes
<1>2. Installing'
  BY DEF Installing, Ingesting
<1> QED
  BY <1>1, <1>2 DEF GraphInv

LEMMA GraphIngestFails ==
    ASSUME Inv, GraphInv, NEW applied \in BOOLEAN, IngestFails(applied)
    PROVE  GraphInv'
<1>1. /\ Ingesting /\ exp' = exp /\ ghost' = ghost
      /\ ing' = [ing EXCEPT !.todo = {}, !.end = "failed"]
  BY DEF IngestFails
<1>2. /\ DOMAIN ing' = DOMAIN ing /\ ing'.src = ing.src /\ ing'.todo = {} /\ ing'.end = "failed"
  BY <1>1 DEF GraphInv, GraphTypes
<1>3. CASE \E s \in ing.todo : Due(s) /\ Apply(s)
  <2>1. PICK s \in ing.todo : Due(s) /\ Apply(s)
    BY <1>3
  <2>2. NodesIn(nodes') /\ EdgesIn(edges')
    BY <2>1, ApplyKeeps DEF GraphInv, GraphTypes
  <2>3. StaysSomewhere'
    BY <1>1, <1>2, <2>1, GraphApply
  <2> QED
    BY <1>1, <1>2, <2>2, <2>3, GraphStops
<1>4. CASE nodes' = nodes /\ edges' = edges
  <2>1. NodesIn(nodes') /\ EdgesIn(edges')
    BY <1>4 DEF GraphInv, GraphTypes
  <2>2. StaysSomewhere'
    BY <1>1, <1>2, <1>4 DEF GraphInv, StaysSomewhere
  <2> QED
    BY <1>1, <1>2, <2>1, <2>2, GraphStops
<1> QED
  BY <1>3, <1>4 DEF IngestFails

----------------------------------------------------------------------------
(* A write of the item service: the graph is no longer the ingestion's own. *)
LEMMA GraphWrite ==
    ASSUME GraphInv, Write
    PROVE  GraphInv'
<1>1. /\ ing' = ing /\ exp' = exp
      /\ ghost' = [ghost EXCEPT !.alone = FALSE, !.steady = @ /\ exp.pc # "read"]
  BY DEF Write
<1>2. DOMAIN ghost' = DOMAIN ghost /\ ~ghost'.alone
  BY <1>1 DEF GraphInv, GraphTypes
<1>3. NodesIn(nodes) /\ EdgesIn(edges)
  BY DEF GraphInv, GraphTypes
<1>4. \A i, p : Location(i, p).relation = "located_in" /\ Location(i, p).id[1] = "located_in"
  BY DEF Location, EdgeRow, EdgeId, ImplicitId
<1>5. PICK i \in Items : Delete(i) \/ \E p \in Places : Create(i, p) \/ Move(i, p)
  BY DEF Write
<1>6. NodesIn(nodes') /\ EdgesIn(edges')
  <2>1. CASE Delete(i)
    BY <1>3, <2>1 DEF Delete, WithoutEdgesOf, NodesIn, EdgesIn
  <2>2. ASSUME NEW p \in Places, Create(i, p) PROVE NodesIn(nodes') /\ EdgesIn(edges')
    <3>1. \A n \in nodes' : n \in nodes \/ n.id = i
      BY <2>2 DEF Create
    <3>2. \A e \in edges' : e \in edges \/ e = Location(i, p)
      BY <2>2 DEF Create
    <3> QED
      BY <1>3, <1>4, <3>1, <3>2, GraphAssumption DEF NodesIn, EdgesIn
  <2>3. ASSUME NEW p \in Places, Move(i, p) PROVE NodesIn(nodes') /\ EdgesIn(edges')
    <3>1. nodes' = nodes /\ \A e \in edges' : e \in edges \/ e = Location(i, p)
      BY <2>3 DEF Move
    <3> QED
      BY <1>3, <1>4, <3>1, GraphAssumption DEF NodesIn, EdgesIn
  <2> QED
    BY <1>5, <2>1, <2>2, <2>3
<1>7. GraphTypes'
  BY <1>1, <1>2, <1>6 DEF GraphInv, GraphTypes
<1>8. Installing' /\ StaysSomewhere'
  BY <1>2 DEF Installing, StaysSomewhere
<1> QED
  BY <1>7, <1>8 DEF GraphInv

(* An export leaves the graph alone; the files it makes are named after    *)
(* node tables.                                                            *)
LEMMA GraphExport ==
    ASSUME Inv, GraphInv,
           \/ StartExport \/ ReadTable \/ Stage
           \/ \E d \in Dirs : MoveOld(d) \/ MoveNew(d)
           \/ Clean \/ MoveFails \/ ExportFails
    PROVE  GraphInv'
<1>1. nodes' = nodes /\ edges' = edges /\ ing' = ing
  BY DEF StartExport, ReadTable, Stage, MoveOld, MoveNew, Clean, MoveFails, ExportFails
<1>2. \/ ghost' = ghost
      \/ ghost' = [ghost EXCEPT !.steady = ghost.settled, !.shot = <<nodes, edges>>, !.tree = tree]
  BY DEF StartExport, ReadTable, Stage, MoveOld, MoveNew, Clean, MoveFails, ExportFails
<1>3. /\ DOMAIN ghost' = DOMAIN ghost /\ ghost'.nodes = ghost.nodes
      /\ ghost'.edges = ghost.edges /\ ghost'.alone = ghost.alone
  BY <1>2 DEF GraphInv, GraphTypes
<1>4. DOMAIN NodeFiles \subseteq NodeTables
  BY DEF NodeFiles, NodeTables
<1>5. exp'.new # <<>> => DOMAIN exp'.new[1]["nodes"] \subseteq NodeTables
  <2>1. DOMAIN exp = {"pc", "todo", "read", "new", "end"}
    BY DEF Inv, Shape
  <2>2. exp.new # <<>> => DOMAIN exp.new[1]["nodes"] \subseteq NodeTables
    BY DEF GraphInv, GraphTypes
  <2>3. CASE StartExport
    BY <2>1, <2>3 DEF StartExport
  <2>4. CASE Stage
    BY <1>4, <2>1, <2>4 DEF Stage
  <2>5. CASE \/ ReadTable \/ \E d \in Dirs : MoveOld(d) \/ MoveNew(d)
             \/ Clean \/ MoveFails \/ ExportFails
    <3>1. exp'.new = exp.new
      BY <2>1, <2>5 DEF ReadTable, MoveOld, MoveNew, Clean, MoveFails, ExportFails
    <3> QED
      BY <2>2, <3>1
  <2> QED
    BY <2>3, <2>4, <2>5
<1> QED
  BY <1>1, <1>3, <1>5, GraphSame

LEMMA GraphCrash ==
    ASSUME Inv, GraphInv, Crash
    PROVE  GraphInv'
<1>1. /\ nodes' = nodes /\ edges' = edges /\ ghost' = ghost
      /\ ing' = [ing EXCEPT !.todo = {}, !.end = IF Ingesting THEN "failed" ELSE @]
  BY DEF Crash
<1>2. exp'.new = exp.new
  BY DEF Crash, Inv, Shape
<1>3. /\ DOMAIN ing' = DOMAIN ing /\ ing'.src = ing.src /\ ing'.todo = {}
      /\ ing'.end = IF Ingesting THEN "failed" ELSE ing.end
  BY <1>1 DEF GraphInv, GraphTypes
<1>4. NodesIn(nodes') /\ EdgesIn(edges')
  BY <1>1 DEF GraphInv, GraphTypes
<1>5. CASE Ingesting
  <2>1. StaysSomewhere'
    BY <1>1, <1>3, <1>5 DEF GraphInv, StaysSomewhere
  <2> QED
    BY <1>1, <1>2, <1>3, <1>4, <1>5, <2>1, GraphStops
<1>6. CASE ~Ingesting
  <2>1. GraphTypes'
    BY <1>1, <1>2, <1>3, <1>4 DEF GraphInv, GraphTypes
  <2>2. Installing'
    BY <1>1, <1>3, <1>6 DEF GraphInv, Installing, Ingesting
  <2>3. StaysSomewhere'
    BY <1>1, <1>3, <1>6 DEF GraphInv, StaysSomewhere, Ingesting
  <2> QED
    BY <2>1, <2>2, <2>3 DEF GraphInv
<1> QED
  BY <1>5, <1>6

LEMMA StepGraph ==
    Inv /\ GraphInv /\ [Next]_vars => GraphInv'
<1> SUFFICES ASSUME Inv, GraphInv, [Next]_vars PROVE GraphInv'
  OBVIOUS
<1>1. CASE \E src \in Sources : StartIngest(src)
  BY <1>1, GraphStartIngest, GraphAssumption
<1>2. CASE Exported /\ StartIngest(ExportedSource)
  <2>1. exp.new # <<>> /\ tree["nodes"] = <<exp.new[1]["nodes"]>>
    BY <1>2 DEF Inv, OldTreeSurvives, Dirs
  <2>2. DOMAIN ExportedSource.nodes \subseteq NodeTables
    BY <2>1 DEF ExportedSource, GraphInv, GraphTypes
  <2>3. PICK src : src = ExportedSource
    OBVIOUS
  <2> QED
    BY <1>2, <2>2, <2>3, GraphStartIngest
<1>3. CASE IngestStep
  BY <1>3, GraphIngestStep
<1>4. CASE \E applied \in BOOLEAN : IngestFails(applied)
  BY <1>4, GraphIngestFails
<1>5. CASE Write
  BY <1>5, GraphWrite
<1>6. CASE \/ StartExport \/ ReadTable \/ Stage
           \/ \E d \in Dirs : MoveOld(d) \/ MoveNew(d)
           \/ Clean \/ MoveFails \/ ExportFails
  BY <1>6, GraphExport
<1>7. CASE Crash
  BY <1>7, GraphCrash
<1>8. CASE UNCHANGED vars
  <2>1. nodes' = nodes /\ edges' = edges /\ ing' = ing /\ exp' = exp /\ ghost' = ghost
    BY <1>8 DEF vars
  <2> QED
    BY <2>1, GraphSame DEF GraphInv, GraphTypes
<1> QED
  BY <1>1, <1>2, <1>3, <1>4, <1>5, <1>6, <1>7, <1>8 DEF Next

LEMMA GraphHolds ==
    Spec => []GraphInv
<1>1. Init => Inv /\ GraphInv
  BY InitInv, InitGraph
<1>2. (Inv /\ GraphInv) /\ [Next]_vars => (Inv /\ GraphInv)'
  BY StepInv, StepGraph
<1> QED
  BY <1>1, <1>2, PTL DEF Spec

----------------------------------------------------------------------------
(* When every statement has had its effect, the tables are the files.      *)

LEMMA NodesInstalled ==
    ASSUME GraphInv, Ended, NEW t \in DOMAIN ing.src.nodes
    PROVE  RowsOf(nodes, t) = NodeRows(ing.src, t)
<1> DEFINE src == ing.src
<1>1. /\ SourceOk(src) /\ \A s \in Statements(src) : Effect(src, s, nodes, edges)
  BY DEF GraphInv, GraphTypes, Installing, Ended, Ingesting
<1>2. t \in NodeTables
  BY <1>1, NodeFacts
<1>3. PICK k \in DOMAIN Tables : Tables[k] = t
  BY <1>2, Positions DEF NodeTables
<1>4. ASSUME NEW n \in NodeRows(src, t)
      PROVE  n \in RowsOf(nodes, t) /\ \A m \in nodes : m.id = n.id => m = n
  <2>1. PICK s \in Statements(src) : s.phase = 1 /\ ~s.prune /\ NewNode(src, s) = n
    BY <1>1, <1>3, AllStatements
  <2>2. Only(nodes, n)
    BY <1>1, <2>1 DEF Effect
  <2>3. TableOf[n.id] = t
    BY <1>1, NodeFacts
  <2> QED
    BY <2>2, <2>3 DEF Only, RowsOf
<1>5. ASSUME NEW m \in RowsOf(nodes, t) PROVE m \in NodeRows(src, t)
  <2>1. PICK s \in Statements(src) : s.phase = 1 /\ s.table = k /\ s.prune
    BY <1>1, <1>3, AllStatements
  <2>2. m.id \in Keep(src, s)
    BY <1>1, <1>3, <2>1 DEF Effect
  <2>3. PICK n \in NodeRows(src, t) : n.id = m.id
    BY <1>3, <2>1, <2>2 DEF Keep, IdsOf
  <2> QED
    BY <1>4, <2>3 DEF RowsOf
<1> QED
  BY <1>4, <1>5

LEMMA EdgesInstalled ==
    ASSUME GraphInv, Ended, NEW r \in DOMAIN ing.src.edges
    PROVE  /\ EdgesOf(edges, r) = EdgeRows(ing.src, r)
           /\ \A e \in EdgesOf(edges, r) : {e.from, e.to} \subseteq IdsOf(nodes)
<1> DEFINE src == ing.src
<1>1. /\ SourceOk(src) /\ \A s \in Statements(src) : Effect(src, s, nodes, edges)
  BY DEF GraphInv, GraphTypes, Installing, Ended, Ingesting
<1>2. r \in Relations
  BY <1>1, EdgeFacts
<1>3. PICK k \in DOMAIN Tables : Tables[k] = r
  BY <1>2, Positions, GraphAssumption
<1>4. ASSUME NEW f \in EdgeRows(src, r)
      PROVE  f \in EdgesOf(edges, r) /\ \A e \in edges : e.id = f.id => e = f
  <2>1. PICK s \in Statements(src) : s.phase = 2 /\ ~s.prune /\ NewEdge(src, s) = f
    BY <1>1, <1>3, AllStatements
  <2>2. Only(edges, f)
    BY <1>1, <2>1 DEF Effect
  <2>3. f.relation = r
    BY <1>1, EdgeFacts
  <2> QED
    BY <2>2, <2>3 DEF Only, EdgesOf
<1>5. ASSUME NEW e \in EdgesOf(edges, r) PROVE e \in EdgeRows(src, r)
  <2>1. PICK s \in Statements(src) : s.phase = 2 /\ s.table = k /\ s.prune
    BY <1>1, <1>3, AllStatements
  <2>2. e.id \in Keep(src, s)
    BY <1>1, <1>3, <2>1 DEF Effect
  <2>3. PICK f \in EdgeRows(src, r) : f.id = e.id
    BY <1>3, <2>1, <2>2 DEF Keep, IdsOf
  <2> QED
    BY <1>4, <2>3 DEF EdgesOf
<1>6. ASSUME NEW id \in Known(src) PROVE id \in IdsOf(nodes)
  <2>1. TableOf[id] \in DOMAIN src.nodes /\ id \in IdsOf(NodeRows(src, TableOf[id]))
    BY <1>1, KnownRows
  <2> QED
    BY <2>1, NodesInstalled DEF IdsOf, RowsOf
<1>7. ASSUME NEW e \in EdgesOf(edges, r) PROVE {e.from, e.to} \subseteq IdsOf(nodes)
  BY <1>1, <1>5, <1>6, EdgeFacts
<1> QED
  BY <1>4, <1>5, <1>7

LEMMA RetiredEmptied ==
    ASSUME GraphInv, Ended, NEW t \in Retired
    PROVE  RowsOf(nodes, t) = {} /\ EdgesOf(edges, t) = {}
<1> DEFINE src == ing.src
<1>1. /\ SourceOk(src) /\ \A s \in Statements(src) : Effect(src, s, nodes, edges)
  BY DEF GraphInv, GraphTypes, Installing, Ended, Ingesting
<1>2. PICK k \in DOMAIN Tables : Tables[k] = t
  BY Positions, GraphAssumption DEF Retired
<1>3. PICK s \in Statements(src) : s.phase \in {3, 4} /\ s.table = k /\ s.prune
  BY <1>1, <1>2, AllStatements DEF Retired
<1>4. Keep(src, s) = {}
  BY <1>3 DEF Keep
<1> QED
  BY <1>1, <1>2, <1>3, <1>4 DEF Effect

LEMMA SourceInstalled ==
    GraphInv => InstalledIsSource
<1> SUFFICES ASSUME GraphInv, Ended
             PROVE  /\ \A t \in NodeTables :
                         RowsOf(nodes, t) = IF t \in DOMAIN ing.src.nodes THEN NodeRows(ing.src, t)
                                            ELSE RowsOf(ghost.nodes, t)
                    /\ \A r \in Relations :
                         IF r \in DOMAIN ing.src.edges
                         THEN /\ EdgesOf(edges, r) = EdgeRows(ing.src, r)
                              /\ \A e \in EdgesOf(edges, r) : {e.from, e.to} \subseteq IdsOf(nodes)
                         ELSE EdgesOf(edges, r) =
                                {e \in EdgesOf(ghost.edges, r) :
                                   {e.from, e.to} \cap (IdsOf(ghost.nodes) \ IdsOf(nodes)) = {}}
                    /\ \A t \in Retired : RowsOf(nodes, t) = {} /\ EdgesOf(edges, t) = {}
  BY DEF InstalledIsSource, NodeTables
<1>1. Before(ing.src, nodes, edges, ghost.nodes, ghost.edges)
  BY DEF GraphInv, Installing, Ended
<1>2. ASSUME NEW t \in NodeTables
      PROVE  RowsOf(nodes, t) = IF t \in DOMAIN ing.src.nodes THEN NodeRows(ing.src, t)
                                ELSE RowsOf(ghost.nodes, t)
  BY <1>1, NodesInstalled DEF Before
<1>3. ASSUME NEW r \in Relations, r \in DOMAIN ing.src.edges
      PROVE  /\ EdgesOf(edges, r) = EdgeRows(ing.src, r)
             /\ \A e \in EdgesOf(edges, r) : {e.from, e.to} \subseteq IdsOf(nodes)
  BY <1>3, EdgesInstalled
<1>4. ASSUME NEW r \in Relations, r \notin DOMAIN ing.src.edges
      PROVE  EdgesOf(edges, r) =
               {e \in EdgesOf(ghost.edges, r) :
                  {e.from, e.to} \cap (IdsOf(ghost.nodes) \ IdsOf(nodes)) = {}}
  BY <1>1, <1>4 DEF Before
<1>5. \A t \in Retired : RowsOf(nodes, t) = {} /\ EdgesOf(edges, t) = {}
  BY RetiredEmptied
<1> QED
  BY <1>2, <1>3, <1>4, <1>5

(* ingest_directory (persistence/ingestion.py) upserts the records of a    *)
(* table and prunes what it does not list, table after table: when all of  *)
(* it is done and nobody else wrote meanwhile, every table of the source   *)
(* is the file, relationships have both ends, tables without a file keep   *)
(* what they had, and the retired ones are empty.                          *)
THEOREM InstallsSource ==
    Spec => []InstalledIsSource
<1> QED
  BY GraphHolds, SourceInstalled, PTL

(* A relationship file is related record by record before _prune_table     *)
(* deletes the rest of its table: whichever statement an ingestion stops   *)
(* at, an item that keeps its place or gets another is in one of the two.  *)
THEOREM ItemsStaySomewhere ==
    Spec => []StaysSomewhere
<1>1. GraphInv => StaysSomewhere
  BY DEF GraphInv
<1> QED
  BY GraphHolds, <1>1, PTL

----------------------------------------------------------------------------
(* A file that lists a set: each element once, and nothing else. *)
Enumerates(seq, S) ==
  /\ \A i, j \in DOMAIN seq : seq[i] = seq[j] => i = j
  /\ \A i \in DOMAIN seq : seq[i] \in S
  /\ \A x \in S : \E i \in DOMAIN seq : seq[i] = x

LEMMA Listed ==
    ASSUME NEW S, IsFiniteSet(S)
    PROVE  Enumerates(SetToSeq(S), S)
<1> DEFINE n == Cardinality(S)
           seq == SetToSeq(S)
<1>1. n \in Nat /\ ExistsBijection(1..n, S)
  BY FS_CardinalityType
<1>2. \E f \in [1..n -> S] : IsInjective(f)
  BY <1>1 DEF ExistsBijection, Bijection, Injection
<1>3. seq \in [1..n -> S] /\ IsInjective(seq)
  BY <1>2 DEF SetToSeq
<1>4. IsFiniteSet(1..n) /\ Cardinality(1..n) = n
  BY <1>1, FS_Interval
<1> HIDE DEF n, seq
<1>5. seq \in Injection(1..n, S)
  BY <1>3 DEF Injection
<1>6. seq \in Surjection(1..n, S)
  BY <1>4, <1>5, FS_Injection DEF n
<1> USE DEF seq
<1>7. Enumerates(seq, S)
  BY <1>3, <1>6 DEF Enumerates, IsInjective, Surjection
<1> QED
  BY <1>7

(* The image of a finite set is finite. *)
LEMMA FiniteRange ==
    ASSUME NEW D, IsFiniteSet(D), NEW f, DOMAIN f = D, f = [x \in D |-> f[x]]
    PROVE  IsFiniteSet({f[x] : x \in D})
<1> DEFINE T == {f[x] : x \in D}
<1>1. f \in [D -> T]
  OBVIOUS
<1>2. f \in Surjection(D, T)
  BY <1>1 DEF Surjection
<1> HIDE DEF T
<1>3. IsFiniteSet(T)
  BY <1>2, FS_Surjection
<1> QED
  BY <1>3 DEF T

----------------------------------------------------------------------------
(* A record of a settled graph, as validation would have it. *)
NodeFits(n) == n = Row(n) /\ NodeOk(CanonicalNode(n), TableOf[n.id])

(* The same of a relationship. *)
EdgeFits(r, e) ==
  /\ e = [relation |-> r, id |-> e.id, from |-> e.from, to |-> e.to,
          start |-> e.start, end |-> e.end]
  /\ \/ e.id = ImplicitId(r, e.from, e.to)
     \/ \E x : x # Null /\ TableOf[x] = r /\ e.id = <<r, x>>
  /\ IF r = "located_in" THEN LocatedInAllowed(TableOf[e.from], TableOf[e.to])
     ELSE ValidEndpoints(Schemas[r], TableOf[e.from], TableOf[e.to])
  /\ TemporalOk(e, Schemas[r]) /\ e.end # Null
  /\ TableOf[e.from] \in NodeTables /\ TableOf[e.to] \in NodeTables

NodesSound(ns) ==
  \A n \in ns : TableOf[n.id] \in NodeTables => /\ NodeFits(n)
                                                /\ \A m \in ns : m.id = n.id => m = n

(* What no two relationships of a relation have in common. *)
Alike(r, e, f) ==
  \/ e.id = f.id
  \/ EdgePair(Schemas[r], e) = EdgePair(Schemas[r], f)
  \/ Schemas[r].unique /\ e.from = f.from

RelationSound(r, ns, es) ==
  /\ \A e \in EdgesOf(es, r) : EdgeFits(r, e) /\ {e.from, e.to} \subseteq IdsOf(ns)
  /\ \A e, f \in EdgesOf(es, r) : Alike(r, e, f) => e = f

EdgesSound(ns, es) == \A r \in Relations : RelationSound(r, ns, es)

LEMMA SourceNodesFit ==
    ASSUME NEW src, SourceOk(src), NEW t \in DOMAIN src.nodes, NEW n \in NodeRows(src, t)
    PROVE  NodeFits(n) /\ TableOf[n.id] = t
<1>1. PICK i \in DOMAIN src.nodes[t] : n = Row(src.nodes[t][i])
  BY DEF NodeRows
<1> DEFINE m == src.nodes[t][i]
<1>2. NodeOk(m, t)
  BY DEF SourceOk, Valid
<1>3. n.id = m.id /\ n.fields = m.fields /\ n = [id |-> n.id, fields |-> n.fields]
  BY <1>1 DEF Row
<1>4. CanonicalNode(n).id = m.id /\ CanonicalNode(n).fields = m.fields /\ CanonicalNode(n).bad = {}
  BY <1>3 DEF CanonicalNode
<1>5. TableOf[n.id] = t
  BY <1>2, <1>3 DEF NodeOk
<1> HIDE DEF m
<1>6. NodeOk(CanonicalNode(n), t)
  BY <1>2, <1>4 DEF NodeOk, NameOk, AddressAsOk, GuestOk, SpatialOk
<1> QED
  BY <1>3, <1>5, <1>6 DEF NodeFits, Row

LEMMA SourceEdgesFit ==
    ASSUME NEW src, SourceOk(src), NEW r \in DOMAIN src.edges
    PROVE  /\ \A e \in EdgeRows(src, r) : EdgeFits(r, e) /\ {e.from, e.to} \subseteq Known(src)
           /\ \A e, f \in EdgeRows(src, r) : Alike(r, e, f) => e = f
<1> DEFINE file == src.edges[r]
<1>1. r \in Relations /\ EdgeFileOk(file, r, Known(src))
  BY DEF SourceOk, Valid
<1> HIDE DEF file
<1>2. ASSUME NEW e \in EdgeRows(src, r)
      PROVE  EdgeFits(r, e) /\ {e.from, e.to} \subseteq Known(src)
  <2>1. PICK i \in DOMAIN file : e = EdgeRow(r, file[i])
    BY DEF EdgeRows, file
  <2>2. EdgeOk(file[i], r, Known(src))
    BY <1>1, <2>1 DEF EdgeFileOk
  <2>3. /\ e = [relation |-> r, id |-> e.id, from |-> e.from, to |-> e.to,
                start |-> e.start, end |-> e.end]
        /\ e.id = EdgeId(r, file[i]) /\ e.from = file[i].from /\ e.to = file[i].to
        /\ e.start = file[i].start /\ e.end = IF file[i].end = Null THEN Absent ELSE file[i].end
    BY <2>1 DEF EdgeRow
  <2>4. \/ e.id = ImplicitId(r, e.from, e.to)
        \/ \E x : x # Null /\ TableOf[x] = r /\ e.id = <<r, x>>
    BY <2>2, <2>3 DEF EdgeId, EdgeOk
  <2>5. TemporalOk(e, Schemas[r]) /\ e.end # Null
    BY <2>2, <2>3, GraphAssumption DEF EdgeOk, TemporalOk
  <2>6. {e.from, e.to} \subseteq Known(src)
    BY <2>2, <2>3 DEF EdgeOk
  <2>7. TableOf[e.from] \in NodeTables /\ TableOf[e.to] \in NodeTables
    BY <2>6, KnownRows, NodeFacts
  <2>8. IF r = "located_in" THEN LocatedInAllowed(TableOf[e.from], TableOf[e.to])
        ELSE ValidEndpoints(Schemas[r], TableOf[e.from], TableOf[e.to])
    BY <2>2, <2>3 DEF EdgeOk
  <2> QED
    BY <2>3, <2>4, <2>5, <2>6, <2>7, <2>8 DEF EdgeFits
<1>3. ASSUME NEW e \in EdgeRows(src, r), NEW f \in EdgeRows(src, r), Alike(r, e, f)
      PROVE  e = f
  <2>1. PICK i \in DOMAIN file : e = EdgeRow(r, file[i])
    BY DEF EdgeRows, file
  <2>2. PICK j \in DOMAIN file : f = EdgeRow(r, file[j])
    BY DEF EdgeRows, file
  <2>3. /\ e.id = EdgeId(r, file[i]) /\ e.from = file[i].from /\ e.to = file[i].to
        /\ f.id = EdgeId(r, file[j]) /\ f.from = file[j].from /\ f.to = file[j].to
    BY <2>1, <2>2 DEF EdgeRow
  <2>4. i = j
    <3>1. CASE e.id = f.id
      BY <1>1, <2>3, <3>1 DEF EdgeFileOk, Distinct
    <3>2. CASE EdgePair(Schemas[r], e) = EdgePair(Schemas[r], f)
      <4>1. EdgePair(Schemas[r], file[i]) = EdgePair(Schemas[r], file[j])
        BY <2>3, <3>2 DEF EdgePair
      <4> QED
        BY <1>1, <4>1 DEF EdgeFileOk, Distinct
    <3>3. CASE Schemas[r].unique /\ e.from = f.from
      BY <1>1, <2>3, <3>3 DEF EdgeFileOk, Distinct
    <3> QED
      BY <1>3, <3>1, <3>2, <3>3 DEF Alike
  <2> QED
    BY <2>1, <2>2, <2>4
<1> QED
  BY <1>2, <1>3

----------------------------------------------------------------------------
(* What export writes for a relationship reads back as it. *)
LEMMA EdgeComesBack ==
    ASSUME NEW r, NEW e, EdgeFits(r, e)
    PROVE  LET c == CanonicalEdge(r, e)
           IN  /\ EdgeRow(r, c) = e /\ EdgeId(r, c) = e.id /\ c.from = e.from /\ c.to = e.to
               /\ c.id # Null => TableOf[c.id] = r
               /\ TemporalOk(c, Schemas[r])
<1> DEFINE c == CanonicalEdge(r, e)
<1>1. /\ c.id = IF e.id = ImplicitId(r, e.from, e.to) THEN Null ELSE e.id[2]
      /\ c.from = e.from /\ c.to = e.to /\ c.start = e.start
      /\ c.end = IF e.end = Absent /\ Schemas[r].temporal THEN Null ELSE e.end
  BY DEF CanonicalEdge
<1> HIDE DEF c
<1>2. EdgeId(r, c) = e.id /\ (c.id # Null => TableOf[c.id] = r)
  <2>1. CASE e.id = ImplicitId(r, e.from, e.to)
    BY <1>1, <2>1 DEF EdgeId
  <2>2. CASE e.id # ImplicitId(r, e.from, e.to)
    <3>1. PICK x : x # Null /\ TableOf[x] = r /\ e.id = <<r, x>>
      BY <2>2 DEF EdgeFits
    <3>2. c.id = x
      BY <1>1, <2>2, <3>1
    <3> QED
      BY <3>1, <3>2 DEF EdgeId
  <2> QED
    BY <2>1, <2>2
<1>3. TemporalOk(e, Schemas[r]) /\ e.end # Null
  BY DEF EdgeFits
<1>4. TemporalOk(c, Schemas[r])
  BY <1>1, <1>3, GraphAssumption DEF TemporalOk
<1>5. (IF c.end = Null THEN Absent ELSE c.end) = e.end
  BY <1>1, <1>3
<1>6. EdgeRow(r, c) = [relation |-> r, id |-> e.id, from |-> e.from, to |-> e.to,
                       start |-> e.start, end |-> e.end]
  BY <1>1, <1>2, <1>5 DEF EdgeRow
<1>7. e = [relation |-> r, id |-> e.id, from |-> e.from, to |-> e.to,
           start |-> e.start, end |-> e.end]
  BY DEF EdgeFits
<1> QED
  BY <1>1, <1>2, <1>4, <1>6, <1>7 DEF c

(* A source that lists the nodes ns and the relationships es. *)
IsCopy(src, ns, es) ==
  /\ DOMAIN src.nodes \subseteq NodeTables
  /\ \A n \in ns : TableOf[n.id] \in NodeTables => TableOf[n.id] \in DOMAIN src.nodes
  /\ \A t \in DOMAIN src.nodes :
       Enumerates(src.nodes[t], {CanonicalNode(n) : n \in RowsOf(ns, t)})
  /\ DOMAIN src.edges = Relations
  /\ \A r \in Relations :
       Enumerates(src.edges[r], {CanonicalEdge(r, e) : e \in EdgesOf(es, r)})

LEMMA CopiedNodes ==
    ASSUME NEW src, NEW ns, NEW es, NodesSound(ns), IsCopy(src, ns, es), NEW t \in DOMAIN src.nodes
    PROVE  /\ NodeRows(src, t) = RowsOf(ns, t)
           /\ \A i \in DOMAIN src.nodes[t] : NodeOk(src.nodes[t][i], t)
           /\ Distinct(src.nodes[t], LAMBDA n : n.id)
<1> DEFINE file == src.nodes[t]
<1>1. t \in NodeTables /\ Enumerates(file, {CanonicalNode(n) : n \in RowsOf(ns, t)})
  BY DEF IsCopy
<1> HIDE DEF file
<1>2. ASSUME NEW n \in RowsOf(ns, t)
      PROVE  Row(CanonicalNode(n)) = n /\ CanonicalNode(n).id = n.id /\ NodeOk(CanonicalNode(n), t)
  <2>1. TableOf[n.id] = t /\ n \in ns
    BY DEF RowsOf
  <2>2. NodeFits(n)
    BY <1>1, <2>1 DEF NodesSound
  <2> QED
    BY <2>1, <2>2 DEF NodeFits, Row, CanonicalNode
<1>3. ASSUME NEW i \in DOMAIN file
      PROVE  \E n \in RowsOf(ns, t) : file[i] = CanonicalNode(n)
  BY <1>1 DEF Enumerates
<1>4. NodeRows(src, t) = RowsOf(ns, t)
  <2>1. ASSUME NEW i \in DOMAIN file PROVE Row(file[i]) \in RowsOf(ns, t)
    BY <1>2, <1>3
  <2>2. ASSUME NEW n \in RowsOf(ns, t) PROVE \E i \in DOMAIN file : Row(file[i]) = n
    <3>1. PICK i \in DOMAIN file : file[i] = CanonicalNode(n)
      BY <1>1 DEF Enumerates
    <3> QED
      BY <1>2, <3>1
  <2>3. NodeRows(src, t) = {Row(file[i]) : i \in DOMAIN file}
    BY DEF NodeRows, file
  <2> QED
    BY <2>1, <2>2, <2>3
<1>5. \A i \in DOMAIN file : NodeOk(file[i], t)
  BY <1>2, <1>3
<1>6. ASSUME NEW i \in DOMAIN file, NEW j \in DOMAIN file, file[i].id = file[j].id
      PROVE  i = j
  <2>1. PICK m \in RowsOf(ns, t) : file[i] = CanonicalNode(m)
    BY <1>3
  <2>2. PICK n \in RowsOf(ns, t) : file[j] = CanonicalNode(n)
    BY <1>3
  <2>3. m.id = n.id
    BY <1>2, <1>6, <2>1, <2>2
  <2>4. m = n
    BY <1>1, <2>3 DEF RowsOf, NodesSound
  <2> QED
    BY <1>1, <2>1, <2>2, <2>4 DEF Enumerates
<1> QED
  BY <1>4, <1>5, <1>6 DEF Distinct, file

LEMMA CopiedKnown ==
    ASSUME NEW src, NEW ns, NEW es, NodesSound(ns), IsCopy(src, ns, es),
           NEW id \in IdsOf(ns), TableOf[id] \in NodeTables
    PROVE  id \in Known(src)
<1>1. PICK n \in ns : n.id = id
  BY DEF IdsOf
<1> DEFINE t == TableOf[id]
<1>2. t \in DOMAIN src.nodes /\ n \in RowsOf(ns, t)
  BY <1>1 DEF IsCopy, RowsOf
<1>3. n \in NodeRows(src, t)
  BY <1>2, CopiedNodes
<1>4. PICK i \in DOMAIN src.nodes[t] : n = Row(src.nodes[t][i])
  BY <1>3 DEF NodeRows
<1>5. src.nodes[t][i].id = id
  BY <1>1, <1>4 DEF Row
<1> QED
  BY <1>2, <1>5 DEF Known

LEMMA CopiedEdges ==
    ASSUME NEW src, NEW ns, NEW es, NodesSound(ns), EdgesSound(ns, es), IsCopy(src, ns, es),
           NEW r \in Relations
    PROVE  /\ EdgeRows(src, r) = EdgesOf(es, r)
           /\ EdgeFileOk(src.edges[r], r, Known(src))
<1> DEFINE file == src.edges[r]
<1>1. Enumerates(file, {CanonicalEdge(r, e) : e \in EdgesOf(es, r)})
  BY DEF IsCopy
<1>2. RelationSound(r, ns, es)
  BY DEF EdgesSound
<1> HIDE DEF file
<1>3. ASSUME NEW e \in EdgesOf(es, r)
      PROVE  /\ EdgeRow(r, CanonicalEdge(r, e)) = e /\ EdgeId(r, CanonicalEdge(r, e)) = e.id
             /\ CanonicalEdge(r, e).from = e.from /\ CanonicalEdge(r, e).to = e.to
             /\ EdgeOk(CanonicalEdge(r, e), r, Known(src))
  <2> DEFINE c == CanonicalEdge(r, e)
  <2>1. EdgeFits(r, e) /\ {e.from, e.to} \subseteq IdsOf(ns)
    BY <1>2 DEF RelationSound
  <2>2. /\ EdgeRow(r, c) = e /\ EdgeId(r, c) = e.id /\ c.from = e.from /\ c.to = e.to
        /\ c.id # Null => TableOf[c.id] = r
        /\ TemporalOk(c, Schemas[r])
    BY <2>1, EdgeComesBack
  <2>3. {e.from, e.to} \subseteq Known(src)
    BY <2>1, CopiedKnown DEF EdgeFits
  <2>4. IF r = "located_in" THEN LocatedInAllowed(TableOf[e.from], TableOf[e.to])
        ELSE ValidEndpoints(Schemas[r], TableOf[e.from], TableOf[e.to])
    BY <2>1 DEF EdgeFits
  <2> HIDE DEF c
  <2>5. EdgeOk(c, r, Known(src))
    BY <2>2, <2>3, <2>4 DEF EdgeOk
  <2> QED
    BY <2>2, <2>5 DEF c
<1>4. ASSUME NEW i \in DOMAIN file
      PROVE  \E e \in EdgesOf(es, r) : file[i] = CanonicalEdge(r, e)
  BY <1>1 DEF Enumerates
<1>5. EdgeRows(src, r) = EdgesOf(es, r)
  <2>1. ASSUME NEW i \in DOMAIN file PROVE EdgeRow(r, file[i]) \in EdgesOf(es, r)
    BY <1>3, <1>4
  <2>2. ASSUME NEW e \in EdgesOf(es, r) PROVE \E i \in DOMAIN file : EdgeRow(r, file[i]) = e
    <3>1. PICK i \in DOMAIN file : file[i] = CanonicalEdge(r, e)
      BY <1>1 DEF Enumerates
    <3> QED
      BY <1>3, <3>1
  <2>3. EdgeRows(src, r) = {EdgeRow(r, file[i]) : i \in DOMAIN file}
    BY DEF EdgeRows, file
  <2> QED
    BY <2>1, <2>2, <2>3
<1>6. \A i \in DOMAIN file : EdgeOk(file[i], r, Known(src))
  BY <1>3, <1>4
<1>7. ASSUME NEW i \in DOMAIN file, NEW j \in DOMAIN file,
             \/ EdgeId(r, file[i]) = EdgeId(r, file[j])
             \/ EdgePair(Schemas[r], file[i]) = EdgePair(Schemas[r], file[j])
             \/ Schemas[r].unique /\ file[i].from = file[j].from
      PROVE  i = j
  <2>1. PICK e \in EdgesOf(es, r) : file[i] = CanonicalEdge(r, e)
    BY <1>4
  <2>2. PICK f \in EdgesOf(es, r) : file[j] = CanonicalEdge(r, f)
    BY <1>4
  <2>3. /\ EdgeId(r, file[i]) = e.id /\ file[i].from = e.from /\ file[i].to = e.to
        /\ EdgeId(r, file[j]) = f.id /\ file[j].from = f.from /\ file[j].to = f.to
    BY <1>3, <2>1, <2>2
  <2>4. Alike(r, e, f)
    BY <1>7, <2>3 DEF Alike, EdgePair
  <2>5. e = f
    BY <1>2, <2>4 DEF RelationSound
  <2> QED
    BY <1>1, <2>1, <2>2, <2>5 DEF Enumerates
<1>8. EdgeFileOk(file, r, Known(src))
  BY <1>6, <1>7 DEF EdgeFileOk, Distinct
<1> QED
  BY <1>5, <1>8 DEF file

(* A copy of a sound graph is a valid source. *)
LEMMA CopyIsValid ==
    ASSUME NEW src, NEW ns, NEW es, NodesSound(ns), EdgesSound(ns, es), IsCopy(src, ns, es)
    PROVE  Valid(src)
<1>1. MissingRelationships(src) = {}
  BY DEF MissingRelationships, IsCopy
<1>2. \A t \in DOMAIN src.nodes :
        /\ \A i \in DOMAIN src.nodes[t] : NodeOk(src.nodes[t][i], t)
        /\ Distinct(src.nodes[t], LAMBDA n : n.id)
  BY CopiedNodes
<1>3. \A r \in DOMAIN src.edges : r \in Relations /\ EdgeFileOk(src.edges[r], r, Known(src))
  BY CopiedEdges DEF IsCopy
<1> QED
  BY <1>1, <1>2, <1>3 DEF Valid

----------------------------------------------------------------------------
(* What was read of a table. *)
Contents(ns, es, t) == RowsOf(ns, t) \cup EdgesOf(es, t)

(* The records are sound at all times.  The relationships are when the     *)
(* graph is settled, and those an ingestion found are when it was.         *)
Settled ==
  /\ NodesSound(nodes) /\ IsFiniteSet(nodes) /\ IsFiniteSet(edges)
  /\ ghost.settled => ~Ingesting /\ EdgesSound(nodes, edges)
  /\ Ingesting /\ ghost.clean => EdgesSound(ghost.nodes, ghost.edges)

(* While a steady graph is read, what has been read is what is there. *)
Reading ==
  /\ exp.pc # "read" => exp.read = <<>>
  /\ exp.pc = "read" /\ ghost.steady =>
       /\ ghost.settled /\ ghost.shot = <<nodes, edges>>
       /\ \E n \in 0..Len(Tables) :
            /\ exp.todo \in Seq(STRING) /\ Len(exp.todo) = Len(Tables) - n
            /\ \A i \in 1..Len(exp.todo) : exp.todo[i] = Tables[n + i]
            /\ exp.read = [i \in 1..n |-> Contents(nodes, edges, Tables[i])]

(* What an export of a steady graph has made is a copy of a sound graph.   *)
Copied ==
  exp.new # <<>> /\ ghost.steady =>
    /\ NodesIn(ghost.shot[1]) /\ NodesSound(ghost.shot[1])
    /\ EdgesSound(ghost.shot[1], ghost.shot[2])
    /\ IsCopy(exp.new[1], ghost.shot[1], ghost.shot[2])

CopyInv == Settled /\ Reading /\ Copied

----------------------------------------------------------------------------
LEMMA FiniteTables ==
    IsFiniteSet(ToSet(Tables))
<1>1. Tables \in Seq(STRING) /\ Len(Tables) \in Nat /\ DOMAIN Tables = 1..Len(Tables)
  BY GraphAssumption
<1>2. IsFiniteSet(DOMAIN Tables)
  BY <1>1, FS_Interval
<1>3. Tables = [i \in DOMAIN Tables |-> Tables[i]]
  BY <1>1
<1>4. IsFiniteSet({Tables[i] : i \in DOMAIN Tables})
  BY <1>2, <1>3, FiniteRange
<1> QED
  BY <1>4 DEF ToSet

LEMMA FiniteInstalled ==
    /\ IsFiniteSet(UNION {NodeRows(Installed, t) : t \in DOMAIN Installed.nodes})
    /\ IsFiniteSet(UNION {EdgeRows(Installed, r) : r \in DOMAIN Installed.edges})
<1>0. SourceOk(Installed)
  BY GraphAssumption DEF SourceOk
<1>1. IsFiniteSet(UNION {NodeRows(Installed, t) : t \in DOMAIN Installed.nodes})
  <2> DEFINE D == DOMAIN Installed.nodes
             f == [t \in D |-> NodeRows(Installed, t)]
  <2>1. D \subseteq ToSet(Tables)
    BY GraphAssumption DEF NodeTables
  <2>2. IsFiniteSet(D)
    BY <2>1, FiniteTables, FS_Subset
  <2>3. /\ DOMAIN f = D /\ f = [t \in D |-> f[t]]
        /\ {f[t] : t \in D} = {NodeRows(Installed, t) : t \in D}
    OBVIOUS
  <2>4. ASSUME NEW t \in D PROVE IsFiniteSet(NodeRows(Installed, t))
    <3> DEFINE R == DOMAIN Installed.nodes[t]
               g == [i \in R |-> Row(Installed.nodes[t][i])]
    <3>1. IsFiniteSet(R)
      BY GraphAssumption
    <3>2. DOMAIN g = R /\ g = [i \in R |-> g[i]] /\ {g[i] : i \in R} = NodeRows(Installed, t)
      BY DEF NodeRows
    <3> HIDE DEF R, g
    <3> QED
      BY <3>1, <3>2, FiniteRange
  <2> HIDE DEF D, f
  <2>5. IsFiniteSet({f[t] : t \in D})
    BY <2>2, <2>3, FiniteRange
  <2>6. \A T \in {f[t] : t \in D} : IsFiniteSet(T)
    BY <2>3, <2>4
  <2>7. IsFiniteSet(UNION {f[t] : t \in D})
    BY <2>5, <2>6, FS_UNION
  <2> QED
    BY <2>3, <2>7 DEF D
<1>2. IsFiniteSet(UNION {EdgeRows(Installed, r) : r \in DOMAIN Installed.edges})
  <2> DEFINE D == DOMAIN Installed.edges
             f == [r \in D |-> EdgeRows(Installed, r)]
  <2>1. D \subseteq ToSet(Tables)
    BY <1>0, EdgeFacts, GraphAssumption
  <2>2. IsFiniteSet(D)
    BY <2>1, FiniteTables, FS_Subset
  <2>3. /\ DOMAIN f = D /\ f = [r \in D |-> f[r]]
        /\ {f[r] : r \in D} = {EdgeRows(Installed, r) : r \in D}
    OBVIOUS
  <2>4. ASSUME NEW r \in D PROVE IsFiniteSet(EdgeRows(Installed, r))
    <3> DEFINE R == DOMAIN Installed.edges[r]
               g == [i \in R |-> EdgeRow(r, Installed.edges[r][i])]
    <3>1. IsFiniteSet(R)
      BY GraphAssumption
    <3>2. DOMAIN g = R /\ g = [i \in R |-> g[i]] /\ {g[i] : i \in R} = EdgeRows(Installed, r)
      BY DEF EdgeRows
    <3> HIDE DEF R, g
    <3> QED
      BY <3>1, <3>2, FiniteRange
  <2> HIDE DEF D, f
  <2>5. IsFiniteSet({f[r] : r \in D})
    BY <2>2, <2>3, FiniteRange
  <2>6. \A T \in {f[r] : r \in D} : IsFiniteSet(T)
    BY <2>3, <2>4
  <2>7. IsFiniteSet(UNION {f[r] : r \in D})
    BY <2>5, <2>6, FS_UNION
  <2> QED
    BY <2>3, <2>7 DEF D
<1> QED
  BY <1>1, <1>2

(* The graph at the start is the installed source. *)
LEMMA InitCopy ==
    Init => CopyInv
<1> SUFFICES ASSUME Init PROVE CopyInv
  OBVIOUS
<1> DEFINE made == UNION {NodeRows(Installed, t) : t \in DOMAIN Installed.nodes}
           related == UNION {EdgeRows(Installed, r) : r \in DOMAIN Installed.edges}
<1>0. SourceOk(Installed)
  BY GraphAssumption DEF SourceOk
<1>1. nodes = made \cup Leftovers.nodes /\ edges = related \cup Leftovers.edges
  BY DEF Init
<1>2. IsFiniteSet(made) /\ IsFiniteSet(related)
  BY FiniteInstalled
<1>3. IsFiniteSet(nodes) /\ IsFiniteSet(edges)
  <2> HIDE DEF made, related
  <2> QED
    BY <1>1, <1>2, FS_Union, GraphAssumption
<1>4. \A n \in nodes : TableOf[n.id] \in NodeTables =>
        \E t \in DOMAIN Installed.nodes : n \in NodeRows(Installed, t)
  BY <1>1, GraphAssumption, Disjoint DEF Retired
<1>5. NodesSound(nodes)
  <2>1. ASSUME NEW n \in nodes, TableOf[n.id] \in NodeTables,
               NEW m \in nodes, m.id = n.id
        PROVE  NodeFits(n) /\ m = n
    <3>1. PICK t \in DOMAIN Installed.nodes : n \in NodeRows(Installed, t)
      BY <1>4, <2>1
    <3>2. PICK v \in DOMAIN Installed.nodes : m \in NodeRows(Installed, v)
      BY <1>4, <2>1
    <3>3. t = v
      BY <1>0, <2>1, <3>1, <3>2, NodeFacts
    <3> QED
      BY <1>0, <2>1, <3>1, <3>2, <3>3, NodeFacts, SourceNodesFit
  <2> QED
    BY <2>1 DEF NodesSound
<1>6. ASSUME NEW r \in Relations PROVE RelationSound(r, nodes, edges)
  <2>1. ASSUME NEW e \in EdgesOf(edges, r)
        PROVE  r \in DOMAIN Installed.edges /\ e \in EdgeRows(Installed, r)
    <3>1. e \in edges /\ e.relation = r
      BY <2>1 DEF EdgesOf
    <3>2. e \notin Leftovers.edges
      BY <3>1, GraphAssumption, Disjoint
    <3>3. PICK v \in DOMAIN Installed.edges : e \in EdgeRows(Installed, v)
      BY <1>1, <3>1, <3>2
    <3>4. v = r
      BY <1>0, <3>1, <3>3, EdgeFacts
    <3> QED
      BY <3>3, <3>4
  <2>2. ASSUME NEW id \in Known(Installed) PROVE id \in IdsOf(nodes)
    <3>1. TableOf[id] \in DOMAIN Installed.nodes /\ id \in IdsOf(NodeRows(Installed, TableOf[id]))
      BY <1>0, KnownRows
    <3> QED
      BY <1>1, <3>1 DEF IdsOf
  <2> QED
    BY <1>0, <2>1, <2>2, SourceEdgesFit DEF RelationSound
<1>7. EdgesSound(nodes, edges)
  BY <1>6 DEF EdgesSound
<1>8. ing.todo = {} /\ exp.pc = "idle" /\ exp.read = <<>> /\ exp.new = <<>>
  BY DEF Init
<1>9. Settled
  BY <1>3, <1>5, <1>7, <1>8 DEF Settled, Ingesting
<1> QED
  BY <1>8, <1>9 DEF CopyInv, Reading, Copied

----------------------------------------------------------------------------
(* Records stay sound, whatever statement is applied. *)
LEMMA ApplySound ==
    ASSUME GraphTypes, NodesSound(nodes), IsFiniteSet(nodes), IsFiniteSet(edges),
           NEW s \in ing.todo, Apply(s)
    PROVE  NodesSound(nodes') /\ IsFiniteSet(nodes') /\ IsFiniteSet(edges')
<1>1. SourceOk(ing.src) /\ NodesIn(nodes) /\ EdgesIn(edges) /\ s \in Statements(ing.src)
  BY DEF GraphTypes
<1>2. CASE Upsert(s)
  <2> DEFINE row == NewNode(ing.src, s)
             rest == {x \in nodes : x.id # row.id}
  <2>1. nodes' = rest \cup {row} /\ edges' = edges
    BY <1>2 DEF Upsert, Replace
  <2>2. NodeFits(row)
    BY <1>1, <1>2, StatementFacts, SourceNodesFit DEF Upsert
  <2>3. IsFiniteSet(rest)
    BY FS_Subset
  <2>4. \A n \in rest : n \in nodes /\ n.id # row.id
    OBVIOUS
  <2> HIDE DEF row, rest
  <2>5. IsFiniteSet(nodes') /\ IsFiniteSet(edges')
    BY <2>1, <2>3, FS_AddElement
  <2>6. NodesSound(nodes')
    BY <2>1, <2>2, <2>4 DEF NodesSound
  <2> QED
    BY <2>5, <2>6
<1>3. CASE Relate(s)
  <2> DEFINE row == NewEdge(ing.src, s)
             rest == {x \in edges : x.id # row.id}
  <2>1. edges' = rest \cup {row} /\ nodes' = nodes
    BY <1>3 DEF Relate, Replace
  <2>2. IsFiniteSet(rest)
    BY FS_Subset
  <2> HIDE DEF row, rest
  <2>3. IsFiniteSet(edges')
    BY <2>1, <2>2, FS_AddElement
  <2> QED
    BY <2>1, <2>3
<1>4. CASE Prune(s)
  <2>1. nodes' \subseteq nodes /\ edges' \subseteq edges
    BY <1>4 DEF Prune, WithoutEdgesOf
  <2>2. IsFiniteSet(nodes') /\ IsFiniteSet(edges')
    BY <2>1, FS_Subset
  <2>3. NodesSound(nodes')
    BY <2>1 DEF NodesSound
  <2> QED
    BY <2>2, <2>3
<1> QED
  BY <1>2, <1>3, <1>4 DEF Apply

(* Fewer relationships, all of whose ends are there, are sound. *)
LEMMA FewerSound ==
    ASSUME NEW r, NEW ns0, NEW es0, RelationSound(r, ns0, es0), NEW ns, NEW es,
           EdgesOf(es, r) \subseteq EdgesOf(es0, r),
           \A e \in EdgesOf(es, r) : {e.from, e.to} \subseteq IdsOf(ns)
    PROVE  RelationSound(r, ns, es)
  BY DEF RelationSound

(* The graph that an ingestion leaves is sound, if it replaced every       *)
(* relation or found them so.                                              *)
LEMMA InstalledSound ==
    /\ SourceOk(ing.src) /\ InstalledIsSource /\ Ended
    /\ \/ EdgesSound(ghost.nodes, ghost.edges)
       \/ Relations \subseteq DOMAIN ing.src.edges
    => EdgesSound(nodes, edges)
<1> SUFFICES ASSUME SourceOk(ing.src), InstalledIsSource, Ended,
                    \/ EdgesSound(ghost.nodes, ghost.edges)
                    \/ Relations \subseteq DOMAIN ing.src.edges
             PROVE  EdgesSound(nodes, edges)
  OBVIOUS
<1>1. ASSUME NEW r \in Relations PROVE RelationSound(r, nodes, edges)
  <2>1. CASE r \in DOMAIN ing.src.edges
    <3>1. /\ EdgesOf(edges, r) = EdgeRows(ing.src, r)
          /\ \A e \in EdgesOf(edges, r) : {e.from, e.to} \subseteq IdsOf(nodes)
      BY <2>1 DEF InstalledIsSource
    <3> QED
      BY <2>1, <3>1, SourceEdgesFit DEF RelationSound
  <2>2. CASE r \notin DOMAIN ing.src.edges
    <3>1. EdgesOf(edges, r) =
            {e \in EdgesOf(ghost.edges, r) :
               {e.from, e.to} \cap (IdsOf(ghost.nodes) \ IdsOf(nodes)) = {}}
      BY <2>2 DEF InstalledIsSource
    <3>2. RelationSound(r, ghost.nodes, ghost.edges)
      BY <2>2 DEF EdgesSound
    <3>3. \A e \in EdgesOf(edges, r) : {e.from, e.to} \subseteq IdsOf(nodes)
      BY <3>1, <3>2 DEF RelationSound
    <3> QED
      BY <3>1, <3>2, <3>3, FewerSound
  <2> QED
    BY <2>1, <2>2
<1> QED
  BY <1>1 DEF EdgesSound

(* Another location, of an item that has none. *)
LEMMA LocationSound ==
    ASSUME NEW ns, NEW es, RelationSound("located_in", ns, es),
           NEW i \in Items, NEW p \in Places, {i, p} \subseteq IdsOf(ns),
           \A e \in EdgesOf(es, "located_in") : e.from # i
    PROVE  RelationSound("located_in", ns, es \cup {Location(i, p)})
<1> DEFINE r == "located_in"
           loc == Location(i, p)
<1>1. loc = [relation |-> r, id |-> ImplicitId(r, i, p), from |-> i, to |-> p,
             start |-> Absent, end |-> Absent]
  BY GraphAssumption DEF Location, EdgeRow, EdgeId
<1>2. /\ loc.relation = r /\ loc.id = ImplicitId(r, i, p) /\ loc.from = i /\ loc.to = p
      /\ loc.start = Absent /\ loc.end = Absent
  BY <1>1
<1> HIDE DEF loc
<1>3. EdgeFits(r, loc)
  <2>1. TemporalOk(loc, Schemas[r]) /\ loc.end # Null
    BY <1>2, GraphAssumption DEF TemporalOk
  <2>2. LocatedInAllowed(TableOf[loc.from], TableOf[loc.to])
    BY <1>2, GraphAssumption DEF LocatedInAllowed
  <2>3. TableOf[loc.from] \in NodeTables /\ TableOf[loc.to] \in NodeTables
    BY <1>2, GraphAssumption
  <2> QED
    BY <1>1, <1>2, <2>1, <2>2, <2>3 DEF EdgeFits
<1>4. Schemas[r].unique /\ ~Schemas[r].symmetric
  BY GraphAssumption, SchemasAssumption DEF WellFormed
<1>5. ASSUME NEW e \in EdgesOf(es, r) PROVE ~Alike(r, e, loc) /\ ~Alike(r, loc, e)
  <2>1. e.from # i
    BY <1>5
  <2>2. e.id # loc.id
    <3>1. EdgeFits(r, e)
      BY <1>5 DEF RelationSound
    <3>2. CASE e.id = ImplicitId(r, e.from, e.to)
      BY <1>2, <2>1, <3>2 DEF ImplicitId
    <3>3. ASSUME NEW x, e.id = <<r, x>> PROVE e.id # loc.id
      BY <1>2, <3>3 DEF ImplicitId
    <3> QED
      BY <3>1, <3>2, <3>3 DEF EdgeFits
  <2>3. EdgePair(Schemas[r], e) # EdgePair(Schemas[r], loc)
    BY <1>2, <1>4, <2>1 DEF EdgePair
  <2> QED
    BY <1>2, <2>1, <2>2, <2>3 DEF Alike
<1>6. \A e \in EdgesOf(es \cup {loc}, r) : e \in EdgesOf(es, r) \/ e = loc
  BY DEF EdgesOf
<1> QED
  BY <1>2, <1>3, <1>5, <1>6 DEF RelationSound, loc

(* The transactions of the item writing service keep a graph sound. *)
LEMMA WriteSound ==
    ASSUME NodesSound(nodes), IsFiniteSet(nodes), IsFiniteSet(edges),
           NEW i \in Items, Delete(i) \/ \E p \in Places : Create(i, p) \/ Move(i, p)
    PROVE  /\ NodesSound(nodes') /\ IsFiniteSet(nodes') /\ IsFiniteSet(edges')
           /\ EdgesSound(nodes, edges) => EdgesSound(nodes', edges')
<1>1. CASE Delete(i)
  <2>1. nodes' \subseteq nodes /\ edges' \subseteq edges
    BY <1>1 DEF Delete, WithoutEdgesOf
  <2>2. NodesSound(nodes') /\ IsFiniteSet(nodes') /\ IsFiniteSet(edges')
    BY <2>1, FS_Subset DEF NodesSound
  <2>3. ASSUME NEW r \in Relations, RelationSound(r, nodes, edges)
        PROVE  RelationSound(r, nodes', edges')
    <3>1. IdsOf(nodes') = IdsOf(nodes) \ {i}
      BY <1>1 DEF Delete, IdsOf
    <3>2. EdgesOf(edges', r) \subseteq EdgesOf(edges, r)
      BY <2>1 DEF EdgesOf
    <3>3. ASSUME NEW e \in EdgesOf(edges', r) PROVE {e.from, e.to} \subseteq IdsOf(nodes')
      <4>1. {e.from, e.to} \subseteq IdsOf(nodes)
        BY <2>3, <3>2 DEF RelationSound
      <4>2. {e.from, e.to} \cap {i} = {}
        BY <1>1 DEF Delete, WithoutEdgesOf, EdgesOf
      <4> QED
        BY <3>1, <4>1, <4>2
    <3> QED
      BY <2>3, <3>2, <3>3, FewerSound
  <2> QED
    BY <2>2, <2>3 DEF EdgesSound
<1>2. ASSUME NEW p \in Places, Create(i, p)
      PROVE  /\ NodesSound(nodes') /\ IsFiniteSet(nodes') /\ IsFiniteSet(edges')
             /\ EdgesSound(nodes, edges) => EdgesSound(nodes', edges')
  <2> DEFINE n == [id |-> i, fields |-> {"name"}]
  <2>1. /\ nodes' = nodes \cup {n} /\ edges' = edges \cup {Location(i, p)}
        /\ i \notin IdsOf(nodes) /\ p \in IdsOf(nodes)
    BY <1>2 DEF Create, Present, IdsOf
  <2>2. n.id = i /\ n.fields = {"name"} /\ NodeFits(n)
    <3>1. CanonicalNode(n) = [id |-> i, fields |-> {"name"}, bad |-> {}]
      BY DEF CanonicalNode
    <3>2. NodeOk(CanonicalNode(n), "item")
      BY <3>1, GraphAssumption DEF NodeOk, NameOk, AddressAsOk, GuestOk, SpatialOk
    <3> QED
      BY <3>2, GraphAssumption DEF NodeFits, Row
  <2> HIDE DEF n
  <2>3. NodesSound(nodes')
    BY <2>1, <2>2 DEF NodesSound, IdsOf
  <2>4. IsFiniteSet(nodes') /\ IsFiniteSet(edges')
    BY <2>1, FS_AddElement
  <2>5. IdsOf(nodes') = IdsOf(nodes) \cup {i}
    BY <2>1, <2>2 DEF IdsOf
  <2>6. ASSUME NEW r \in Relations, RelationSound(r, nodes, edges)
        PROVE  RelationSound(r, nodes', edges')
    <3>1. RelationSound(r, nodes', edges)
      BY <2>5, <2>6 DEF RelationSound
    <3>2. CASE r = "located_in"
      <4>1. \A e \in EdgesOf(edges, r) : e.from # i
        BY <2>1, <2>6 DEF RelationSound
      <4> QED
        BY <2>1, <2>5, <3>1, <3>2, <4>1, LocationSound
    <3>3. CASE r # "located_in"
      <4>1. EdgesOf(edges', r) = EdgesOf(edges, r)
        BY <2>1, <3>3 DEF EdgesOf, Location, EdgeRow
      <4> QED
        BY <3>1, <4>1 DEF RelationSound
    <3> QED
      BY <3>2, <3>3
  <2> QED
    BY <2>3, <2>4, <2>6 DEF EdgesSound
<1>3. ASSUME NEW p \in Places, Move(i, p)
      PROVE  /\ NodesSound(nodes') /\ IsFiniteSet(nodes') /\ IsFiniteSet(edges')
             /\ EdgesSound(nodes, edges) => EdgesSound(nodes', edges')
  <2> DEFINE rest == {e \in edges : ~(e.relation = "located_in" /\ e.from = i)}
  <2>1. nodes' = nodes /\ edges' = rest \cup {Location(i, p)} /\ {i, p} \subseteq IdsOf(nodes)
    BY <1>3 DEF Move, Present, IdsOf
  <2>2. IsFiniteSet(rest) /\ \A r : EdgesOf(rest, r) \subseteq EdgesOf(edges, r)
    BY FS_Subset DEF EdgesOf
  <2>3. \A e \in EdgesOf(rest, "located_in") : e.from # i
    BY DEF EdgesOf
  <2>4. \A r \in Relations : r # "located_in" => EdgesOf(rest, r) = EdgesOf(edges, r)
    BY DEF EdgesOf
  <2> HIDE DEF rest
  <2>5. IsFiniteSet(edges')
    BY <2>1, <2>2, FS_AddElement
  <2>6. ASSUME NEW r \in Relations, RelationSound(r, nodes, edges)
        PROVE  RelationSound(r, nodes', edges')
    <3>1. RelationSound(r, nodes, rest)
      BY <2>2, <2>6 DEF RelationSound
    <3>2. CASE r = "located_in"
      BY <2>1, <2>3, <3>1, <3>2, LocationSound
    <3>3. CASE r # "located_in"
      <4>1. EdgesOf(edges', r) = EdgesOf(rest, r)
        BY <2>1, <3>3 DEF EdgesOf, Location, EdgeRow
      <4> QED
        BY <2>1, <3>1, <4>1 DEF RelationSound
    <3> QED
      BY <3>2, <3>3
  <2> QED
    BY <2>1, <2>5, <2>6 DEF EdgesSound
<1> QED
  BY <1>1, <1>2, <1>3

----------------------------------------------------------------------------
(* Steps that leave the graph, its ingestion and what is read of it alone. *)
LEMMA CopySame ==
    ASSUME CopyInv, nodes' = nodes, edges' = edges, ing' = ing, exp' = exp, ghost' = ghost
    PROVE  CopyInv'
<1>1. Settled'
  BY DEF CopyInv, Settled, Ingesting
<1>2. Reading'
  BY DEF CopyInv, Reading
<1>3. Copied'
  BY DEF CopyInv, Copied
<1> QED
  BY <1>1, <1>2, <1>3 DEF CopyInv

(* While an ingestion runs nothing steady is read. *)
LEMMA NothingSteady ==
    ASSUME CopyInv, Ingesting
    PROVE  ~ghost.settled /\ ~(exp.pc = "read" /\ ghost.steady)
  BY DEF CopyInv, Settled, Reading

LEMMA CopyStartIngest ==
    ASSUME GraphInv, CopyInv, NEW src, StartIngest(src)
    PROVE  CopyInv'
<1>1. nodes' = nodes /\ edges' = edges /\ exp' = exp /\ ~Ingesting
  BY DEF StartIngest
<1>2. CASE Valid(src)
  <2>1. ghost' = [ghost EXCEPT !.nodes = nodes, !.edges = edges, !.alone = TRUE,
                               !.clean = ghost.settled, !.settled = FALSE,
                               !.steady = @ /\ exp.pc # "read"]
    BY <1>2 DEF StartIngest
  <2>2. /\ ghost'.nodes = nodes /\ ghost'.edges = edges /\ ghost'.clean = ghost.settled
        /\ ~ghost'.settled /\ ghost'.shot = ghost.shot
        /\ ghost'.steady => ghost.steady /\ exp.pc # "read"
    BY <2>1 DEF GraphInv, GraphTypes
  <2>3. Settled'
    BY <1>1, <2>2 DEF CopyInv, Settled
  <2>4. Reading'
    BY <1>1, <2>2 DEF CopyInv, Reading
  <2>5. Copied'
    BY <1>1, <2>2 DEF CopyInv, Copied
  <2> QED
    BY <2>3, <2>4, <2>5 DEF CopyInv
<1>3. CASE ~Valid(src)
  <2>1. ing' = ing /\ ghost' = ghost
    BY <1>3 DEF StartIngest
  <2> QED
    BY <1>1, <2>1, CopySame
<1> QED
  BY <1>2, <1>3

LEMMA CopyIngestStep ==
    ASSUME Inv, GraphInv, CopyInv, IngestStep
    PROVE  CopyInv'
<1>1. PICK s \in ing.todo :
        /\ Apply(s)
        /\ ing' = [ing EXCEPT !.todo = @ \ {s}, !.end = IF ing.todo = {s} THEN "ok" ELSE @]
        /\ ghost' = [ghost EXCEPT !.settled =
                        /\ ing.todo = {s} /\ ghost.alone
                        /\ ghost.clean \/ Relations \subseteq DOMAIN ing.src.edges]
        /\ exp' = exp
  BY DEF IngestStep
<1>2. /\ ing'.src = ing.src /\ ing'.todo = ing.todo \ {s}
      /\ ing'.end = IF ing.todo = {s} THEN "ok" ELSE ing.end
      /\ ghost'.nodes = ghost.nodes /\ ghost'.edges = ghost.edges /\ ghost'.alone = ghost.alone
      /\ ghost'.clean = ghost.clean /\ ghost'.steady = ghost.steady /\ ghost'.shot = ghost.shot
      /\ ghost'.settled => /\ ing.todo = {s} /\ ghost.alone
                           /\ ghost.clean \/ Relations \subseteq DOMAIN ing.src.edges
  BY <1>1 DEF GraphInv, GraphTypes
<1>3. Ingesting /\ ~(exp.pc = "read" /\ ghost.steady)
  BY NothingSteady DEF Ingesting
<1>4. NodesSound(nodes') /\ IsFiniteSet(nodes') /\ IsFiniteSet(edges')
  BY <1>1, ApplySound DEF GraphInv, CopyInv, Settled
<1>5. Ingesting /\ ghost.clean => EdgesSound(ghost.nodes, ghost.edges)
  BY DEF CopyInv, Settled
<1>6. ASSUME ghost'.settled PROVE ~Ingesting' /\ EdgesSound(nodes', edges')
  <2>1. Ended'
    BY <1>2, <1>6 DEF Ended, Ingesting
  <2>2. GraphInv'
    BY GraphIngestStep
  <2>3. InstalledIsSource'
    BY <2>2, SourceInstalled, PTL
  <2>4. SourceOk(ing.src)'
    BY <2>2 DEF GraphInv, GraphTypes
  <2>5. (\/ EdgesSound(ghost.nodes, ghost.edges)
         \/ Relations \subseteq DOMAIN ing.src.edges)'
    BY <1>2, <1>3, <1>5, <1>6
  <2>6. EdgesSound(nodes, edges)'
    BY <2>1, <2>3, <2>4, <2>5, InstalledSound, PTL
  <2> QED
    BY <2>1, <2>6 DEF Ended
<1>7. Settled'
  BY <1>2, <1>3, <1>4, <1>5, <1>6 DEF Settled
<1>8. Reading'
  BY <1>1, <1>2, <1>3 DEF CopyInv, Reading
<1>9. Copied'
  BY <1>1, <1>2 DEF CopyInv, Copied
<1> QED
  BY <1>7, <1>8, <1>9 DEF CopyInv

LEMMA CopyIngestFails ==
    ASSUME GraphInv, CopyInv, NEW applied \in BOOLEAN, IngestFails(applied)
    PROVE  CopyInv'
<1>1. /\ Ingesting /\ exp' = exp /\ ghost' = ghost
      /\ ing' = [ing EXCEPT !.todo = {}, !.end = "failed"]
  BY DEF IngestFails
<1>2. ~ghost.settled /\ ~(exp.pc = "read" /\ ghost.steady)
  BY <1>1, NothingSteady
<1>3. ing'.todo = {}
  BY <1>1 DEF GraphInv, GraphTypes
<1>4. NodesSound(nodes') /\ IsFiniteSet(nodes') /\ IsFiniteSet(edges')
  <2>1. CASE \E s \in ing.todo : Apply(s)
    BY <2>1, ApplySound DEF GraphInv, CopyInv, Settled
  <2>2. CASE nodes' = nodes /\ edges' = edges
    BY <2>2 DEF CopyInv, Settled
  <2> QED
    BY <2>1, <2>2 DEF IngestFails
<1>5. Settled'
  BY <1>1, <1>2, <1>3, <1>4 DEF Settled, Ingesting
<1>6. Reading'
  BY <1>1, <1>2 DEF CopyInv, Reading
<1>7. Copied'
  BY <1>1 DEF CopyInv, Copied
<1> QED
  BY <1>5, <1>6, <1>7 DEF CopyInv

LEMMA CopyWrite ==
    ASSUME GraphInv, CopyInv, Write
    PROVE  CopyInv'
<1>1. /\ ing' = ing /\ exp' = exp
      /\ ghost' = [ghost EXCEPT !.alone = FALSE, !.steady = @ /\ exp.pc # "read"]
  BY DEF Write
<1>2. /\ ghost'.nodes = ghost.nodes /\ ghost'.edges = ghost.edges /\ ghost'.clean = ghost.clean
      /\ ghost'.settled = ghost.settled /\ ghost'.shot = ghost.shot
      /\ ghost'.steady => ghost.steady /\ exp.pc # "read"
  BY <1>1 DEF GraphInv, GraphTypes
<1>3. PICK i \in Items : Delete(i) \/ \E p \in Places : Create(i, p) \/ Move(i, p)
  BY DEF Write
<1>4. /\ NodesSound(nodes') /\ IsFiniteSet(nodes') /\ IsFiniteSet(edges')
      /\ EdgesSound(nodes, edges) => EdgesSound(nodes', edges')
  BY <1>3, WriteSound DEF CopyInv, Settled
<1>5. Settled'
  BY <1>1, <1>2, <1>4 DEF CopyInv, Settled, Ingesting
<1>6. Reading'
  BY <1>1, <1>2 DEF CopyInv, Reading
<1>7. Copied'
  BY <1>1, <1>2 DEF CopyInv, Copied
<1> QED
  BY <1>5, <1>6, <1>7 DEF CopyInv

----------------------------------------------------------------------------
LEMMA CopyStartExport ==
    ASSUME Inv, GraphInv, CopyInv, StartExport
    PROVE  CopyInv'
<1>1. /\ exp.pc = "idle" /\ nodes' = nodes /\ edges' = edges /\ ing' = ing
      /\ exp' = [exp EXCEPT !.pc = "read", !.todo = Tables, !.new = <<>>, !.end = "none"]
      /\ ghost' = [ghost EXCEPT !.steady = ghost.settled, !.shot = <<nodes, edges>>, !.tree = tree]
  BY DEF StartExport
<1>2. exp'.pc = "read" /\ exp'.todo = Tables /\ exp'.new = <<>> /\ exp'.read = exp.read
  BY <1>1 DEF Inv, Shape
<1>3. /\ ghost'.nodes = ghost.nodes /\ ghost'.edges = ghost.edges /\ ghost'.clean = ghost.clean
      /\ ghost'.settled = ghost.settled /\ ghost'.steady = ghost.settled
      /\ ghost'.shot = <<nodes, edges>>
  BY <1>1 DEF GraphInv, GraphTypes
<1>4. exp.read = <<>>
  BY <1>1 DEF CopyInv, Reading
<1>5. Settled'
  BY <1>1, <1>3 DEF CopyInv, Settled, Ingesting
<1>6. Reading'
  <2>1. exp'.todo \in Seq(STRING) /\ Len(exp'.todo) = Len(Tables) - 0 /\ 0 \in 0..Len(Tables)
    BY <1>2, GraphAssumption
  <2>2. \A i \in 1..Len(exp'.todo) : exp'.todo[i] = Tables[0 + i]
    BY <1>2, GraphAssumption
  <2>3. exp'.read = [i \in 1..0 |-> Contents(nodes', edges', Tables[i])]
    BY <1>2, <1>4
  <2> QED
    BY <1>1, <1>2, <1>3, <2>1, <2>2, <2>3 DEF Reading
<1>7. Copied'
  BY <1>2 DEF Copied
<1> QED
  BY <1>5, <1>6, <1>7 DEF CopyInv

LEMMA CopyReadTable ==
    ASSUME Inv, CopyInv, ReadTable
    PROVE  CopyInv'
<1>1. /\ exp.pc = "read" /\ exp.todo # <<>>
      /\ exp' = [exp EXCEPT !.todo = Tail(@),
                            !.read = @ \o <<Contents(nodes, edges, Head(exp.todo))>>]
      /\ nodes' = nodes /\ edges' = edges /\ ing' = ing /\ ghost' = ghost
  BY DEF ReadTable, Contents
<1>2. /\ exp'.pc = "read" /\ exp'.new = exp.new /\ exp'.todo = Tail(exp.todo)
      /\ exp'.read = exp.read \o <<Contents(nodes, edges, Head(exp.todo))>>
  BY <1>1 DEF Inv, Shape
<1>3. Settled'
  BY <1>1 DEF CopyInv, Settled, Ingesting
<1>4. Reading'
  <2> SUFFICES ASSUME ghost.steady
               PROVE  \E n \in 0..Len(Tables) :
                        /\ exp'.todo \in Seq(STRING) /\ Len(exp'.todo) = Len(Tables) - n
                        /\ \A i \in 1..Len(exp'.todo) : exp'.todo[i] = Tables[n + i]
                        /\ exp'.read = [i \in 1..n |-> Contents(nodes', edges', Tables[i])]
    BY <1>1, <1>2 DEF CopyInv, Reading
  <2> DEFINE at(i) == Contents(nodes, edges, Tables[i])
  <2>1. PICK n \in 0..Len(Tables) :
          /\ exp.todo \in Seq(STRING) /\ Len(exp.todo) = Len(Tables) - n
          /\ \A i \in 1..Len(exp.todo) : exp.todo[i] = Tables[n + i]
          /\ exp.read = [i \in 1..n |-> at(i)]
    BY <1>1 DEF CopyInv, Reading
  <2> HIDE DEF at
  <2>2. Len(Tables) \in Nat /\ Len(exp.todo) \in Nat \ {0} /\ n \in Nat /\ n + 1 \in 0..Len(Tables)
    BY <1>1, <2>1, GraphAssumption
  <2>3. Head(exp.todo) = Tables[n + 1]
    BY <1>1, <2>1, <2>2
  <2>4. /\ exp'.todo \in Seq(STRING) /\ Len(exp'.todo) = Len(Tables) - (n + 1)
        /\ \A i \in 1..Len(exp'.todo) : exp'.todo[i] = Tables[(n + 1) + i]
    <3> DEFINE old == exp.todo
               rest == exp'.todo
    <3>1. old \in Seq(STRING) /\ old # <<>> /\ rest = Tail(old)
      BY <1>1, <1>2, <2>1
    <3>2. \A i \in 1..Len(old) : old[i] = Tables[n + i]
      BY <2>1
    <3>3. Len(old) = Len(Tables) - n /\ Len(old) \in Nat
      BY <2>1, <2>2
    <3> HIDE DEF old, rest
    <3>4. /\ rest \in Seq(STRING) /\ Len(rest) = Len(old) - 1
          /\ \A i \in 1..Len(rest) : rest[i] = old[i + 1]
      BY <3>1
    <3>5. Len(rest) = Len(Tables) - (n + 1)
      BY <2>2, <3>3, <3>4
    <3>6. ASSUME NEW i \in 1..Len(rest) PROVE rest[i] = Tables[(n + 1) + i]
      <4>1. i + 1 \in 1..Len(old) /\ n + (i + 1) = (n + 1) + i
        BY <2>2, <3>3, <3>4
      <4> QED
        BY <3>2, <3>4, <4>1
    <3> QED
      BY <3>4, <3>5, <3>6 DEF rest
  <2>5. exp'.read = exp.read \o <<at(n + 1)>>
    BY <1>2, <2>3 DEF at
  <2>6. exp'.read = [i \in 1..(n + 1) |-> at(i)]
    BY <2>1, <2>2, <2>5
  <2> QED
    BY <1>1, <2>2, <2>4, <2>6 DEF at
<1>5. Copied'
  BY <1>1, <1>2 DEF CopyInv, Copied
<1> QED
  BY <1>3, <1>4, <1>5 DEF CopyInv

(* Everything has been read, so the files are a copy of the graph. *)
LEMMA CopyStage ==
    ASSUME Inv, GraphInv, CopyInv, Stage
    PROVE  CopyInv'
<1>1. /\ exp.pc = "read" /\ exp.todo = <<>>
      /\ exp' = [exp EXCEPT !.pc = "nodes", !.read = <<>>,
                            !.new = <<[nodes |-> NodeFiles, edges |-> EdgeFiles]>>]
      /\ nodes' = nodes /\ edges' = edges /\ ing' = ing /\ ghost' = ghost
  BY DEF Stage
<1>2. /\ exp'.pc = "nodes" /\ exp'.read = <<>>
      /\ exp'.new[1].nodes = NodeFiles /\ exp'.new[1].edges = EdgeFiles
  BY <1>1 DEF Inv, Shape
<1>3. Settled'
  BY <1>1 DEF CopyInv, Settled, Ingesting
<1>4. Reading'
  BY <1>2 DEF Reading
<1>5. ASSUME ghost.steady
      PROVE  NodesSound(nodes) /\ EdgesSound(nodes, edges) /\ IsCopy(exp'.new[1], nodes, edges)
  <2>1. PICK n \in 0..Len(Tables) :
          /\ Len(exp.todo) = Len(Tables) - n
          /\ exp.read = [i \in 1..n |-> Contents(nodes, edges, Tables[i])]
    BY <1>1, <1>5 DEF CopyInv, Reading
  <2>2. Len(Tables) \in Nat /\ n = Len(Tables) /\ DOMAIN Tables = 1..Len(Tables)
    BY <1>1, <2>1, GraphAssumption
  <2>3. exp.read = [i \in DOMAIN Tables |-> Contents(nodes, edges, Tables[i])]
    BY <2>1, <2>2
  <2>4. NodesIn(nodes) /\ EdgesIn(edges)
    BY DEF GraphInv, GraphTypes
  <2>5. ASSUME NEW t \in ToSet(Tables) PROVE ReadRows(t) = Contents(nodes, edges, t)
    <3>1. PICK k \in DOMAIN Tables : Tables[k] = t
      BY Positions
    <3>2. \A i \in DOMAIN exp.read : Tables[i] = t => exp.read[i] = Contents(nodes, edges, t)
      BY <2>3
    <3>3. k \in DOMAIN exp.read
      BY <2>3, <3>1
    <3> QED
      BY <3>1, <3>2, <3>3 DEF ReadRows
  <2>6. ASSUME NEW t \in NodeTables PROVE ReadRows(t) = RowsOf(nodes, t)
    <3>1. EdgesOf(edges, t) = {}
      BY <2>4, Disjoint DEF EdgesIn, EdgesOf, Retired
    <3> QED
      BY <2>5, <3>1 DEF NodeTables, Contents
  <2>7. ASSUME NEW r \in Relations PROVE ReadRows(r) = EdgesOf(edges, r)
    <3>1. RowsOf(nodes, r) = {}
      BY <2>4, Disjoint DEF NodesIn, RowsOf
    <3>2. r \in ToSet(Tables)
      BY GraphAssumption
    <3> QED
      BY <2>5, <3>1, <3>2 DEF Contents
  <2>8. NodesSound(nodes) /\ EdgesSound(nodes, edges) /\ IsFiniteSet(nodes) /\ IsFiniteSet(edges)
    BY <1>1, <1>5 DEF CopyInv, Settled, Reading
  <2> DEFINE full == {t \in NodeTables : ReadRows(t) # {}}
             new == exp'.new[1]
  <2>9. new.nodes = [t \in full |-> SetToSeq({CanonicalNode(m) : m \in ReadRows(t)})]
    BY <1>2 DEF NodeFiles, NodeTables
  <2>10. new.edges = [r \in Relations |-> SetToSeq({CanonicalEdge(r, e) : e \in ReadRows(r)})]
    BY <1>2 DEF EdgeFiles
  <2> HIDE DEF full, new
  <2>11. DOMAIN new.nodes = full /\ full \subseteq NodeTables /\ DOMAIN new.edges = Relations
    BY <2>9, <2>10 DEF full
  <2>12. ASSUME NEW m \in nodes, TableOf[m.id] \in NodeTables PROVE TableOf[m.id] \in full
    <3>1. m \in RowsOf(nodes, TableOf[m.id])
      BY DEF RowsOf
    <3> QED
      BY <2>6, <2>12, <3>1 DEF full
  <2>13. ASSUME NEW t \in full
         PROVE  Enumerates(new.nodes[t], {CanonicalNode(m) : m \in RowsOf(nodes, t)})
    <3> DEFINE D == RowsOf(nodes, t)
               f == [m \in D |-> CanonicalNode(m)]
    <3>1. IsFiniteSet(D)
      BY <2>8, FS_Subset DEF RowsOf
    <3>2. DOMAIN f = D /\ f = [m \in D |-> f[m]] /\ {f[m] : m \in D} = {CanonicalNode(m) : m \in D}
      OBVIOUS
    <3>3. new.nodes[t] = SetToSeq({CanonicalNode(m) : m \in D})
      BY <2>6, <2>9, <2>11
    <3> HIDE DEF D, f
    <3>4. IsFiniteSet({CanonicalNode(m) : m \in D})
      BY <3>1, <3>2, FiniteRange
    <3>5. Enumerates(new.nodes[t], {CanonicalNode(m) : m \in D})
      BY <3>3, <3>4, Listed
    <3> QED
      BY <3>5 DEF D
  <2>14. ASSUME NEW r \in Relations
         PROVE  Enumerates(new.edges[r], {CanonicalEdge(r, e) : e \in EdgesOf(edges, r)})
    <3> DEFINE D == EdgesOf(edges, r)
               f == [e \in D |-> CanonicalEdge(r, e)]
    <3>1. IsFiniteSet(D)
      BY <2>8, FS_Subset DEF EdgesOf
    <3>2. /\ DOMAIN f = D /\ f = [e \in D |-> f[e]]
          /\ {f[e] : e \in D} = {CanonicalEdge(r, e) : e \in D}
      OBVIOUS
    <3>3. new.edges[r] = SetToSeq({CanonicalEdge(r, e) : e \in D})
      BY <2>7, <2>10
    <3> HIDE DEF D, f
    <3>4. IsFiniteSet({CanonicalEdge(r, e) : e \in D})
      BY <3>1, <3>2, FiniteRange
    <3>5. Enumerates(new.edges[r], {CanonicalEdge(r, e) : e \in D})
      BY <3>3, <3>4, Listed
    <3> QED
      BY <3>5 DEF D
  <2>15. IsCopy(new, nodes, edges)
    BY <2>11, <2>12, <2>13, <2>14 DEF IsCopy
  <2> QED
    BY <2>8, <2>15 DEF new
<1>6. ghost.steady => ghost.shot = <<nodes, edges>>
  BY <1>1 DEF CopyInv, Reading
<1>7. Copied'
  BY <1>1, <1>5, <1>6 DEF Copied, GraphInv, GraphTypes
<1> QED
  BY <1>3, <1>4, <1>7 DEF CopyInv

(* The renames, and every end of an export. *)
LEMMA CopyRest ==
    ASSUME Inv, GraphInv, CopyInv,
           \/ \E d \in Dirs : MoveOld(d) \/ MoveNew(d)
           \/ Clean \/ MoveFails \/ ExportFails \/ Crash
    PROVE  CopyInv'
<1>1. nodes' = nodes /\ edges' = edges /\ ghost' = ghost
  BY DEF MoveOld, MoveNew, Clean, MoveFails, ExportFails, Crash
<1>2. \/ ing' = ing
      \/ ing' = [ing EXCEPT !.todo = {}, !.end = IF Ingesting THEN "failed" ELSE @]
  BY DEF MoveOld, MoveNew, Clean, MoveFails, ExportFails, Crash
<1>3. ing'.todo = ing.todo \/ ing'.todo = {}
  BY <1>2 DEF GraphInv, GraphTypes
<1>4. exp'.new = exp.new /\ exp'.pc # "read" /\ exp'.read = <<>>
  <2>1. DOMAIN exp = {"pc", "todo", "read", "new", "end"}
    BY DEF Inv, Shape
  <2>2. exp.pc # "read" => exp.read = <<>>
    BY DEF CopyInv, Reading
  <2>3. CASE \E d \in Dirs : MoveOld(d)
    BY <2>2, <2>3 DEF MoveOld, Dirs
  <2>4. CASE \E d \in Dirs : MoveNew(d)
    BY <2>1, <2>2, <2>4 DEF MoveNew, Then, Dirs
  <2>5. CASE Clean
    BY <2>1, <2>2, <2>5 DEF Clean
  <2>6. CASE MoveFails
    BY <2>1, <2>2, <2>6 DEF MoveFails, Dirs
  <2>7. CASE ExportFails
    BY <2>1, <2>7 DEF ExportFails
  <2>8. CASE Crash
    BY <2>1, <2>8 DEF Crash
  <2> QED
    BY <2>3, <2>4, <2>5, <2>6, <2>7, <2>8
<1>5. Settled'
  BY <1>1, <1>3 DEF CopyInv, Settled, Ingesting
<1>6. Reading'
  BY <1>4 DEF Reading
<1>7. Copied'
  BY <1>1, <1>4 DEF CopyInv, Copied
<1> QED
  BY <1>5, <1>6, <1>7 DEF CopyInv

LEMMA StepCopy ==
    Inv /\ GraphInv /\ CopyInv /\ [Next]_vars => CopyInv'
<1> SUFFICES ASSUME Inv, GraphInv, CopyInv, [Next]_vars PROVE CopyInv'
  OBVIOUS
<1>1. CASE \E src : StartIngest(src)
  BY <1>1, CopyStartIngest
<1>2. CASE IngestStep
  BY <1>2, CopyIngestStep
<1>3. CASE \E applied \in BOOLEAN : IngestFails(applied)
  BY <1>3, CopyIngestFails
<1>4. CASE Write
  BY <1>4, CopyWrite
<1>5. CASE StartExport
  BY <1>5, CopyStartExport
<1>6. CASE ReadTable
  BY <1>6, CopyReadTable
<1>7. CASE Stage
  BY <1>7, CopyStage
<1>8. CASE \/ \E d \in Dirs : MoveOld(d) \/ MoveNew(d)
           \/ Clean \/ MoveFails \/ ExportFails \/ Crash
  BY <1>8, CopyRest
<1>9. CASE UNCHANGED vars
  <2>1. nodes' = nodes /\ edges' = edges /\ ing' = ing /\ exp' = exp /\ ghost' = ghost
    BY <1>9 DEF vars
  <2> QED
    BY <2>1, CopySame
<1> QED
  BY <1>1, <1>2, <1>3, <1>4, <1>5, <1>6, <1>7, <1>8, <1>9 DEF Next

LEMMA WhatComesBack ==
    ASSUME Inv, GraphInv, CopyInv
    PROVE  ExportedComesBack
<1> SUFFICES ASSUME Exported, ghost.steady
             PROVE  /\ Valid(ExportedSource)
                    /\ Ended /\ ing.src = ExportedSource =>
                         /\ \A r \in Relations : EdgesOf(edges, r) = EdgesOf(ghost.shot[2], r)
                         /\ \A t \in DOMAIN ExportedSource.nodes :
                              RowsOf(nodes, t) = RowsOf(ghost.shot[1], t)
                         /\ {n \in ghost.shot[1] : TableOf[n.id] \notin Retired} \subseteq nodes
  BY DEF ExportedComesBack
<1> DEFINE src == ExportedSource
           ns == ghost.shot[1]
           es == ghost.shot[2]
           new == exp.new[1]
<1>1. exp.new # <<>> /\ tree["nodes"] = <<new["nodes"]>> /\ tree["edges"] = <<new["edges"]>>
  BY DEF Inv, OldTreeSurvives, Dirs
<1>2. NodesIn(ns) /\ NodesSound(ns) /\ EdgesSound(ns, es) /\ IsCopy(new, ns, es)
  BY <1>1 DEF CopyInv, Copied
<1>3. src.nodes = new.nodes /\ src.edges = new.edges
  BY <1>1 DEF ExportedSource
<1> HIDE DEF src, ns, es, new
<1>4. IsCopy(src, ns, es)
  BY <1>2, <1>3 DEF IsCopy
<1>5. Valid(src)
  BY <1>2, <1>4, CopyIsValid
<1>6. ASSUME Ended, ing.src = src
      PROVE  /\ \A r \in Relations : EdgesOf(edges, r) = EdgesOf(es, r)
             /\ \A t \in DOMAIN src.nodes : RowsOf(nodes, t) = RowsOf(ns, t)
             /\ {n \in ns : TableOf[n.id] \notin Retired} \subseteq nodes
  <2>1. \A r \in Relations : EdgesOf(edges, r) = EdgesOf(es, r)
    BY <1>2, <1>4, <1>6, EdgesInstalled, CopiedEdges DEF IsCopy
  <2>2. \A t \in DOMAIN src.nodes : RowsOf(nodes, t) = RowsOf(ns, t)
    BY <1>2, <1>4, <1>6, NodesInstalled, CopiedNodes
  <2>3. ASSUME NEW n \in ns, TableOf[n.id] \notin Retired PROVE n \in nodes
    <3>1. TableOf[n.id] \in NodeTables
      BY <1>2, <2>3 DEF NodesIn, Retired
    <3>2. TableOf[n.id] \in DOMAIN src.nodes
      BY <1>4, <2>3, <3>1 DEF IsCopy
    <3> QED
      BY <2>2, <3>2 DEF RowsOf
  <2> QED
    BY <2>1, <2>2, <2>3
<1> QED
  BY <1>5, <1>6 DEF src, ns, es

(* canonical export (persistence/export.py) leaves out implicit ids and    *)
(* empty tables and adds null ends: what it writes of a settled graph,     *)
(* nobody writing meanwhile, ingest_directory accepts, and brings back     *)
(* every relation and every record as they were.                           *)
THEOREM ExportsComeBack ==
    Spec => []ExportedComesBack
<1>1. Init => Inv /\ GraphInv /\ CopyInv
  BY InitInv, InitGraph, InitCopy
<1>2. (Inv /\ GraphInv /\ CopyInv) /\ [Next]_vars => (Inv /\ GraphInv /\ CopyInv)'
  BY StepInv, StepGraph, StepCopy
<1>3. Inv /\ GraphInv /\ CopyInv => ExportedComesBack
  BY WhatComesBack
<1> QED
  BY <1>1, <1>2, <1>3, PTL DEF Spec

=============================================================================
