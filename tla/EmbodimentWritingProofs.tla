----------------------- MODULE EmbodimentWritingProofs -----------------------
(***************************************************************************)
(* The embodiment graph stays well formed for any number of callers,       *)
(* services, bodies and abandoned transactions, and the writing service    *)
(* implements EmbodimentStore.                                             *)
(***************************************************************************)
EXTENDS EmbodimentWriting, TLAPS

\* A suspended method has arguments.
CallShape == \A c \in Callers : pc[c] # "idle" => call[c] \in Call

TypeInv == TypeOK /\ CallShape

\* The named parts of the tables' well-formedness.
GraphOK == OneAssignmentPerBody /\ AssignmentEndpointsExist

\* The tables a transaction leaves behind have their types.
LEMMA TransactionTypes ==
    ASSUME TypeOK, NEW t \in Call, Transaction(t)
    PROVE  /\ nodes' \in [Bodies -> Node]
           /\ edges' \in SUBSET Edge
           /\ agents' = agents
<1>1. TxNodes(t) \in [Bodies -> Node]
  BY DEF TypeOK, Call, TxNodes, Node
<1>2. TxEdges(t) \in SUBSET Edge
  BY DEF TypeOK, Call, TxEdges, Edge
<1> QED
  BY <1>1, <1>2 DEF Transaction, TypeOK

LEMMA InitTypes == Init => TypeInv
  BY MaxAbandonedAssumption
  DEF Init, TypeInv, TypeOK, CallShape, NoNodes, Node, Link, Stages, Edge

LEMMA StepTypes == TypeInv /\ [Next]_vars => TypeInv'
<1> SUFFICES ASSUME TypeInv, [Next]_vars PROVE TypeInv'
  OBVIOUS
<1> USE DEF TypeInv, TypeOK, CallShape, Stages
<1>0. NoNodes \in [Bodies -> Node]
  BY DEF NoNodes, Node
<1>1. ASSUME NEW c \in Callers, NEW t \in Call, Start(c, t) PROVE TypeInv'
  BY <1>1 DEF Start, Goto, tables
<1>2. ASSUME NEW c \in Callers, Acquire(c) PROVE TypeInv'
  BY <1>2 DEF Acquire, Goto, tables
<1>3. ASSUME NEW c \in Callers, ReadNodes(c) PROVE TypeInv'
  BY <1>3 DEF ReadNodes, Goto, tables
<1>4. ASSUME NEW c \in Callers, ReadEdges(c) PROVE TypeInv'
  <2>1. CASE DecisionFails(c)
    <3>1. Raise(c) /\ UNCHANGED <<tables, service, orphans, abandoned>>
      BY <1>4, <2>1 DEF ReadEdges
    <3> QED
      BY <1>0, <3>1 DEF Raise, Forget, Release, Goto, tables, Link
  <2>2. CASE ~DecisionFails(c)
    <3>1. AssignedAgent(call[c].body, edges) \in Link
      BY DEF AssignedAgent, AgentAmong, AssignmentsOf, Link
    <3> QED
      BY <1>0, <1>4, <2>2, <3>1 DEF ReadEdges, Goto, tables
  <2> QED
    BY <2>1, <2>2
<1>5. ASSUME NEW c \in Callers, ReadAgents(c) PROVE TypeInv'
  BY <1>0, <1>5 DEF ReadAgents, Raise, Forget, Release, Goto, tables, Link
<1>6. ASSUME NEW c \in Callers, Commit(c) PROVE TypeInv'
  <2>1. call[c] \in Call
    BY <1>6 DEF Commit
  <2>2. /\ nodes' \in [Bodies -> Node]
        /\ edges' \in SUBSET Edge
        /\ agents' = agents
    BY <1>6, <2>1, TransactionTypes DEF Commit
  <2>3. CASE TxGuard(call[c]) /\ call[c].op \in {"update", "assign", "unassign"}
    BY <1>6, <2>2, <2>3 DEF Commit, Release, Goto
  <2>4. CASE ~(TxGuard(call[c]) /\ call[c].op \in {"update", "assign", "unassign"})
    <3>1. /\ Goto(c, "idle") /\ Forget(c) /\ Release(c)
          /\ UNCHANGED <<service, orphans, abandoned>>
      BY <1>6, <2>4 DEF Commit
    <3>2. NoAgent \in Link
      BY DEF Link
    <3> QED
      BY <1>0, <2>2, <3>1, <3>2 DEF Release, Forget, Goto
  <2> QED
    BY <2>3, <2>4
<1>7. ASSUME NEW c \in Callers, ReadBack(c) PROVE TypeInv'
  BY <1>0, <1>7 DEF ReadBack, Forget, Goto, tables, Link
<1>8. ASSUME NEW c \in Callers, QueryFails(c) PROVE TypeInv'
  BY <1>0, <1>8 DEF QueryFails, Raise, Forget, Release, Goto, tables, Link
<1>9. ASSUME NEW c \in Callers, Abandon(c) PROVE TypeInv'
  BY <1>0, <1>9, MaxAbandonedAssumption
  DEF Abandon, Raise, Forget, Release, Goto, tables, Link
<1>10. ASSUME NEW t \in orphans, LateTransaction(t) PROVE TypeInv'
  <2>1. /\ nodes' \in [Bodies -> Node]
        /\ edges' \in SUBSET Edge
        /\ agents' = agents
    BY <1>10, TransactionTypes DEF LateTransaction
  <2> QED
    BY <1>10, <2>1 DEF LateTransaction
<1>11. ASSUME NEW a \in Agents, EnsureRegisteredAgent(a) PROVE TypeInv'
  BY <1>11 DEF EnsureRegisteredAgent
<1>12. CASE UNCHANGED vars
  BY <1>12 DEF vars
<1> QED
  BY <1>1, <1>2, <1>3, <1>4, <1>5, <1>6, <1>7, <1>8, <1>9, <1>10, <1>11, <1>12
  DEF Next, Step

\* Every state of the service has the declared types.
THEOREM TypeCorrect == Spec => []TypeOK
<1>1. TypeInv => TypeOK
  BY DEF TypeInv
<1> QED
  BY InitTypes, StepTypes, <1>1, PTL DEF Spec

-----------------------------------------------------------------------------
(* Well-formed tables *)

\* A transaction keeps the tables well formed, whenever it runs: its guard is
\* evaluated against the tables it changes.
LEMMA TransactionGraph ==
    ASSUME TypeOK, GraphOK, NEW t \in Call, Transaction(t)
    PROVE  GraphOK'
<1> USE DEF GraphOK, OneAssignmentPerBody, AssignmentEndpointsExist, TypeOK, Edge
<1>1. CASE ~TxGuard(t)
  BY <1>1 DEF Transaction
<1>2. CASE TxGuard(t) /\ t.op \in {"create", "update"}
  <2>1. t.body \in Bodies /\ t.caps # NoBody
    BY <1>2, NoBodyAssumption DEF Call
  <2>2. nodes' = [nodes EXCEPT ![t.body] = t.caps] /\ edges' = edges /\ agents' = agents
    BY <1>2 DEF Transaction, TxNodes, TxEdges
  <2> QED
    BY <2>1, <2>2
<1>3. CASE TxGuard(t) /\ t.op \in {"delete", "unassign"}
  <2>1. t.body \in Bodies
    BY DEF Call
  <2>2. edges' = {e \in edges : e.in # t.body} /\ agents' = agents
    BY <1>3 DEF Transaction, TxEdges
  <2>3. \A b \in Bodies \ {t.body} : nodes'[b] = nodes[b]
    BY <1>3, <2>1 DEF Transaction, TxNodes
  <2> QED
    BY <2>1, <2>2, <2>3
<1>4. CASE TxGuard(t) /\ t.op = "assign"
  <2>1. t.body \in Bodies /\ t.agent \in Agents
    BY <1>4 DEF Call
  <2>2. nodes' = nodes /\ agents' = agents /\ nodes[t.body] # NoBody /\ t.agent \in agents
    BY <1>4 DEF Transaction, TxNodes, TxGuard
  <2>3. CASE AssignmentsOf(t.body, edges) = {}
    <3>1. edges' = edges \cup {[in |-> t.body, out |-> t.agent]}
      BY <1>4, <2>3 DEF Transaction, TxEdges
    <3>2. \A e \in edges : e.in # t.body
      <4>1. ASSUME NEW e \in edges, e.in = t.body PROVE FALSE
        <5>1. e = [in |-> t.body, out |-> e.out] /\ e.out \in Agents
          BY <4>1
        <5> QED
          BY <2>3, <5>1 DEF AssignmentsOf
      <4> QED
        BY <4>1
    <3> QED
      BY <2>1, <2>2, <3>1, <3>2
  <2>4. CASE AssignmentsOf(t.body, edges) # {}
    BY <1>4, <2>2, <2>4 DEF Transaction, TxEdges
  <2> QED
    BY <2>3, <2>4
<1> QED
  BY <1>1, <1>2, <1>3, <1>4 DEF Call

Inv == TypeInv /\ GraphOK

LEMMA InitInv == Init => Inv
  BY InitTypes
  DEF Init, Inv, GraphOK, OneAssignmentPerBody, AssignmentEndpointsExist

LEMMA StepInv == Inv /\ [Next]_vars => Inv'
<1> SUFFICES ASSUME Inv, [Next]_vars PROVE GraphOK'
  BY StepTypes DEF Inv
<1> USE DEF Inv, TypeInv
<1>1. ASSUME UNCHANGED tables PROVE GraphOK'
  BY <1>1 DEF tables, GraphOK, OneAssignmentPerBody, AssignmentEndpointsExist
<1>2. ASSUME NEW c \in Callers, NEW t \in Call, Start(c, t) PROVE GraphOK'
  BY <1>1, <1>2 DEF Start
<1>3. ASSUME NEW c \in Callers,
             Acquire(c) \/ ReadNodes(c) \/ ReadEdges(c) \/ ReadAgents(c) \/ ReadBack(c)
      PROVE  GraphOK'
  BY <1>1, <1>3 DEF Acquire, ReadNodes, ReadEdges, ReadAgents, ReadBack
<1>4. ASSUME NEW c \in Callers, Commit(c) PROVE GraphOK'
  <2>1. call[c] \in Call
    BY <1>4 DEF Commit, CallShape
  <2> QED
    BY <1>4, <2>1, TransactionGraph DEF Commit
<1>5. ASSUME NEW c \in Callers, QueryFails(c) \/ Abandon(c) PROVE GraphOK'
  BY <1>1, <1>5 DEF QueryFails, Abandon
<1>6. ASSUME NEW t \in orphans, LateTransaction(t) PROVE GraphOK'
  BY <1>6, TransactionGraph DEF LateTransaction, TypeOK
<1>7. ASSUME NEW a \in Agents, EnsureRegisteredAgent(a) PROVE GraphOK'
  BY <1>7 DEF EnsureRegisteredAgent, GraphOK, OneAssignmentPerBody, AssignmentEndpointsExist
<1>8. CASE UNCHANGED vars
  BY <1>1, <1>8 DEF vars, tables
<1> QED
  BY <1>2, <1>3, <1>4, <1>5, <1>6, <1>7, <1>8 DEF Next, Step

LEMMA Invariance == Spec => []Inv
  BY InitInv, StepInv, PTL DEF Spec

\* No interleaving of callers, services and late transactions gives a body two
\* assignments: each assign transaction looks before it relates.
THEOREM SingleAssignment == Spec => []OneAssignmentPerBody
<1>1. Inv => OneAssignmentPerBody
  BY DEF Inv, GraphOK
<1> QED
  BY Invariance, <1>1, PTL

\* No assignment outlives its body or names a missing agent.
THEOREM NoDanglingAssignment == Spec => []AssignmentEndpointsExist
<1>1. Inv => AssignmentEndpointsExist
  BY DEF Inv, GraphOK
<1> QED
  BY Invariance, <1>1, PTL

\* The three together: what list() and the runtime take for granted.
THEOREM Soundness == Spec => []AssignmentsAreSound
<1>1. TypeOK /\ OneAssignmentPerBody /\ AssignmentEndpointsExist => AssignmentsAreSound
  BY DEF AssignmentsAreSound
<1> QED
  BY <1>1, TypeCorrect, SingleAssignment, NoDanglingAssignment, PTL

-----------------------------------------------------------------------------
(* Refinement of EmbodimentStore *)

\* The rows of other bodies do not matter to a body's assignment.
LEMMA LinkAfterRemoval ==
    ASSUME NEW rows \in SUBSET Edge, NEW b \in Bodies, NEW d \in Bodies
    PROVE  AssignedAgent(d, {e \in rows : e.in # b}) =
               IF d = b THEN NoAgent ELSE AssignedAgent(d, rows)
<1>1. AssignmentsOf(d, {e \in rows : e.in # b}) = IF d = b THEN {} ELSE AssignmentsOf(d, rows)
  BY DEF AssignmentsOf
<1>2. AgentAmong({}) = NoAgent
  BY DEF AgentAmong
<1> QED
  BY <1>1, <1>2 DEF AssignedAgent

LEMMA LinkAfterInsertion ==
    ASSUME NEW rows \in SUBSET Edge, NEW b \in Bodies, NEW a \in Agents, NEW d \in Bodies,
           AssignmentsOf(b, rows) = {}
    PROVE  AssignedAgent(d, rows \cup {[in |-> b, out |-> a]}) =
               IF d = b THEN a ELSE AssignedAgent(d, rows)
<1>1. CASE d = b
  <2>1. AssignmentsOf(b, rows \cup {[in |-> b, out |-> a]}) = {a}
    BY DEF AssignmentsOf
  <2>2. AgentAmong({a}) = a
    BY DEF AgentAmong
  <2> QED
    BY <1>1, <2>1, <2>2 DEF AssignedAgent
<1>2. CASE d # b
  <2>1. AssignmentsOf(d, rows \cup {[in |-> b, out |-> a]}) = AssignmentsOf(d, rows)
    BY <1>2 DEF AssignmentsOf
  <2> QED
    BY <1>2, <2>1 DEF AssignedAgent
<1> QED
  BY <1>1, <1>2

\* An absent body and a body without an edge are unassigned.
LEMMA Unassigned ==
    ASSUME TypeOK, GraphOK, NEW b \in Bodies,
           nodes[b] = NoBody \/ AssignmentsOf(b, edges) = {}
    PROVE  AssignmentsOf(b, edges) = {} /\ AssignedAgent(b, edges) = NoAgent
<1>1. AssignmentsOf(b, edges) = {}
  BY DEF GraphOK, AssignmentEndpointsExist, AssignmentsOf
<1> QED
  BY <1>1 DEF AssignedAgent, AgentAmong

LEMMA TransactionRefines ==
    ASSUME TypeOK, GraphOK, NEW t \in Call, Transaction(t)
    PROVE  [Store!StoreNext]_(Store!storeVars)
<1> DEFINE Linked == [b \in Bodies |-> AssignedAgent(b, edges)]
<1> USE DEF TypeOK, Store!storeVars
<1>0. t.body \in Bodies /\ edges \in SUBSET Edge
  BY DEF Call
<1>1. CASE ~TxGuard(t)
  BY <1>1 DEF Transaction
<1>2. CASE TxGuard(t) /\ t.op = "create"
  <2>1. nodes' = [nodes EXCEPT ![t.body] = t.caps] /\ edges' = edges /\ agents' = agents
    BY <1>2 DEF Transaction, TxNodes, TxEdges
  <2>2. nodes[t.body] = NoBody /\ Linked[t.body] = NoAgent
    BY <1>0, <1>2, Unassigned DEF TxGuard
  <2>3. t.caps \in SUBSET Capabilities
    BY <1>2 DEF Call
  <2>4. Store!CreateBody(t.body, t.caps)
    BY <2>1, <2>2 DEF Store!CreateBody
  <2> QED
    BY <1>0, <2>3, <2>4 DEF Store!StoreNext, Store!WriteBody
<1>3. CASE TxGuard(t) /\ t.op = "update"
  <2>1. nodes' = [nodes EXCEPT ![t.body] = t.caps] /\ edges' = edges /\ agents' = agents
    BY <1>3 DEF Transaction, TxNodes, TxEdges
  <2>2. nodes[t.body] # NoBody
    BY <1>3 DEF TxGuard
  <2>3. t.caps \in SUBSET Capabilities
    BY <1>3 DEF Call
  <2>4. Store!UpdateBody(t.body, t.caps)
    BY <2>1, <2>2 DEF Store!UpdateBody
  <2> QED
    BY <1>0, <2>3, <2>4 DEF Store!StoreNext, Store!WriteBody
<1>4. CASE TxGuard(t) /\ t.op \in {"delete", "unassign"}
  <2>1. edges' = {e \in edges : e.in # t.body} /\ agents' = agents
    BY <1>4 DEF Transaction, TxEdges
  <2>2. nodes[t.body] # NoBody
    BY <1>4 DEF TxGuard
  <2>0. \A d \in Bodies : AssignedAgent(d, edges') =
          IF d = t.body THEN NoAgent ELSE AssignedAgent(d, edges)
    <3> DEFINE body == t.body
    <3>1. body \in Bodies /\ edges \in SUBSET Edge
      BY <1>0
    <3>2. edges' = {e \in edges : e.in # body}
      BY <2>1
    <3> HIDE DEF body
    <3>3. \A d \in Bodies : AssignedAgent(d, {e \in edges : e.in # body}) =
            IF d = body THEN NoAgent ELSE AssignedAgent(d, edges)
      BY ONLY <3>1, LinkAfterRemoval
    <3>4. \A d \in Bodies : AssignedAgent(d, edges') =
            IF d = body THEN NoAgent ELSE AssignedAgent(d, edges)
      BY ONLY <3>2, <3>3, Zenon
    <3> QED
      BY <3>4 DEF body
  <2>3. Linked' = [Linked EXCEPT ![t.body] = NoAgent]
    BY <1>0, <2>0
  <2>4. CASE t.op = "delete"
    <3>1. nodes' = [nodes EXCEPT ![t.body] = NoBody]
      BY <1>4, <2>4 DEF Transaction, TxNodes
    <3>2. Store!DeleteBody(t.body)
      BY <2>1, <2>2, <2>3, <3>1 DEF Store!DeleteBody
    <3> QED
      BY <1>0, <3>2 DEF Store!StoreNext, Store!WriteBody
  <2>5. CASE t.op = "unassign"
    <3>1. nodes' = nodes
      BY <1>4, <2>5 DEF Transaction, TxNodes
    <3>2. Store!UnassignBody(t.body)
      BY <2>1, <2>2, <2>3, <3>1 DEF Store!UnassignBody
    <3> QED
      BY <1>0, <3>2 DEF Store!StoreNext, Store!WriteBody
  <2> QED
    BY <1>4, <2>4, <2>5
<1>5. CASE TxGuard(t) /\ t.op = "assign"
  <2>1. nodes' = nodes /\ agents' = agents /\ nodes[t.body] # NoBody /\ t.agent \in agents
    BY <1>5 DEF Transaction, TxNodes, TxGuard
  <2>2. t.agent \in Agents
    BY <1>5 DEF Call
  <2>3. CASE AssignmentsOf(t.body, edges) = {}
    <3>1. edges' = edges \cup {[in |-> t.body, out |-> t.agent]}
      BY <1>5, <2>3 DEF Transaction, TxEdges
    <3>0. \A d \in Bodies : AssignedAgent(d, edges') =
            IF d = t.body THEN t.agent ELSE AssignedAgent(d, edges)
      <4> DEFINE rows == edges
                 body == t.body
                 to == t.agent
      <4>1. rows \in SUBSET Edge /\ body \in Bodies /\ to \in Agents
        BY <1>0, <2>2
      <4>2. AssignmentsOf(body, rows) = {}
        BY <2>3
      <4>3. edges' = rows \cup {[in |-> body, out |-> to]}
        BY <3>1
      <4> HIDE DEF rows, body, to
      <4>4. \A d \in Bodies : AssignedAgent(d, rows \cup {[in |-> body, out |-> to]}) =
              IF d = body THEN to ELSE AssignedAgent(d, rows)
        BY ONLY <4>1, <4>2, LinkAfterInsertion
      <4>5. \A d \in Bodies : AssignedAgent(d, edges') =
              IF d = body THEN to ELSE AssignedAgent(d, rows)
        BY ONLY <4>3, <4>4, Zenon
      <4> QED
        BY <4>5 DEF rows, body, to
    <3>2. Linked' = [Linked EXCEPT ![t.body] = t.agent]
      BY <1>0, <3>0
    <3>3. Linked[t.body] = NoAgent
      BY <1>0, <2>3, Unassigned
    <3>4. Store!AssignBody(t.body, t.agent)
      BY <2>1, <3>2, <3>3 DEF Store!AssignBody
    <3> QED
      BY <1>0, <2>2, <3>4 DEF Store!StoreNext, Store!WriteBody
  <2>4. CASE AssignmentsOf(t.body, edges) # {}
    BY <1>5, <2>1, <2>4 DEF Transaction, TxEdges
  <2> QED
    BY <2>3, <2>4
<1> QED
  BY <1>1, <1>2, <1>3, <1>4, <1>5 DEF Call

\* Every behaviour of the writing service is one of EmbodimentStore: a reader
\* of the tables sees whole transactions, a new body unassigned, and a body
\* moved to another agent only after it was unassigned.
THEOREM Implementation == Spec => ImplementsStore
<1>1. Init => Store!StoreInit
  <2> SUFFICES ASSUME Init PROVE Store!StoreInit
    OBVIOUS
  <2>1. \A b \in Bodies : AssignedAgent(b, edges) = NoAgent
    BY DEF Init, AssignedAgent, AgentAmong, AssignmentsOf
  <2> QED
    BY <2>1 DEF Init, Store!StoreInit, NoNodes
<1>2. Inv /\ [Next]_vars => [Store!StoreNext]_(Store!storeVars)
  <2> SUFFICES ASSUME Inv, [Next]_vars PROVE [Store!StoreNext]_(Store!storeVars)
    OBVIOUS
  <2> USE DEF Inv, TypeInv
  <2>1. ASSUME UNCHANGED tables PROVE [Store!StoreNext]_(Store!storeVars)
    BY <2>1 DEF tables, Store!storeVars
  <2>2. ASSUME NEW c \in Callers, NEW t \in Call, Start(c, t) PROVE UNCHANGED tables
    BY <2>2 DEF Start
  <2>3. ASSUME NEW c \in Callers,
               \/ Acquire(c) \/ ReadNodes(c) \/ ReadEdges(c) \/ ReadAgents(c)
               \/ ReadBack(c) \/ QueryFails(c) \/ Abandon(c)
        PROVE  UNCHANGED tables
    BY <2>3 DEF Acquire, ReadNodes, ReadEdges, ReadAgents, ReadBack, QueryFails, Abandon
  <2>4. ASSUME NEW c \in Callers, Commit(c) PROVE [Store!StoreNext]_(Store!storeVars)
    <3>1. call[c] \in Call
      BY <2>4 DEF Commit, CallShape
    <3> QED
      BY <2>4, <3>1, TransactionRefines DEF Commit
  <2>5. ASSUME NEW t \in orphans, LateTransaction(t)
        PROVE  [Store!StoreNext]_(Store!storeVars)
    BY <2>5, TransactionRefines DEF LateTransaction, TypeOK
  <2>6. ASSUME NEW a \in Agents, EnsureRegisteredAgent(a)
        PROVE  [Store!StoreNext]_(Store!storeVars)
    <3>1. Store!MaterializeAgent(a)
      BY <2>6 DEF EnsureRegisteredAgent, Store!MaterializeAgent
    <3> QED
      BY <3>1 DEF Store!StoreNext
  <2>7. CASE UNCHANGED vars
    BY <2>1, <2>7 DEF vars, tables
  <2> QED
    BY <2>1, <2>2, <2>3, <2>4, <2>5, <2>6, <2>7 DEF Next, Step
<1> QED
  BY Invariance, <1>1, <1>2, PTL DEF Spec, ImplementsStore, Store!StoreSpec

-----------------------------------------------------------------------------
(* The service's lock: a decision outlives the reads it was taken from.     *)

InCritical(c) == pc[c] \in {"nodes", "edges", "agents", "commit"}

\* A caller that reads or commits holds the lock of its service.
LockHeld == \A c \in Callers : InCritical(c) => lock[service[c]] = c

NoOrphans == abandoned = 0 => orphans = {}

Sharing == abandoned = 0 /\ \A c, d \in Callers : service[c] = service[d]

\* What a caller read is what the tables hold, and what it decided still holds.
ReadsHold(c) ==
    /\ pc[c] = "edges" => seenNodes[c] = nodes
    /\ pc[c] = "agents" => /\ call[c].op = "assign"
                           /\ nodes[call[c].body] # NoBody
                           /\ seenLink[c] = AssignedAgent(call[c].body, edges)
    /\ pc[c] = "commit" /\ call[c].op # "unassign" => TxGuard(call[c])

DecisionsInv ==
    /\ TypeInv
    /\ LockHeld
    /\ NoOrphans
    /\ Sharing => \A c \in Callers : ReadsHold(c)

\* The lock is exclusive: LockHeld is kept by every step.
LEMMA StepLock == TypeInv /\ LockHeld /\ [Next]_vars => LockHeld'
<1> SUFFICES ASSUME TypeInv, LockHeld, [Next]_vars PROVE LockHeld'
  OBVIOUS
<1> USE DEF TypeInv, TypeOK, LockHeld, InCritical
<1>1. ASSUME NEW c \in Callers, NEW t \in Call, Start(c, t) PROVE LockHeld'
  BY <1>1 DEF Start, Goto
<1>2. ASSUME NEW c \in Callers, Acquire(c) PROVE LockHeld'
  BY <1>2, FreeAssumption DEF Acquire, Goto
<1>3. ASSUME NEW c \in Callers, ReadNodes(c) PROVE LockHeld'
  BY <1>3 DEF ReadNodes, Goto
<1>4. ASSUME NEW c \in Callers, InCritical(c), Release(c), service' = service,
             NEW s \in {"idle", "readback"}, Goto(c, s)
      PROVE  LockHeld'
  BY <1>4 DEF Release, Goto
<1>5. ASSUME NEW c \in Callers, ReadEdges(c) PROVE LockHeld'
  <2>1. CASE DecisionFails(c)
    BY <1>4, <1>5, <2>1 DEF ReadEdges, Raise
  <2>2. CASE ~DecisionFails(c)
    BY <1>5, <2>2 DEF ReadEdges, Goto
  <2> QED
    BY <2>1, <2>2
<1>6. ASSUME NEW c \in Callers, ReadAgents(c) PROVE LockHeld'
  <2>1. CASE Raise(c)
    BY <1>4, <1>6, <2>1 DEF ReadAgents, Raise
  <2>2. CASE ~Raise(c)
    BY <1>6, <2>2 DEF ReadAgents, Goto
  <2> QED
    BY <2>1, <2>2
<1>7. ASSUME NEW c \in Callers, Commit(c) PROVE LockHeld'
  BY <1>4, <1>7 DEF Commit
<1>8. ASSUME NEW c \in Callers, ReadBack(c) PROVE LockHeld'
  BY <1>8 DEF ReadBack, Goto
<1>9. ASSUME NEW c \in Callers, QueryFails(c) \/ Abandon(c) PROVE LockHeld'
  BY <1>4, <1>9 DEF QueryFails, Abandon, Raise
<1>10. ASSUME NEW t \in orphans, LateTransaction(t) PROVE LockHeld'
  BY <1>10 DEF LateTransaction
<1>11. ASSUME NEW a \in Agents, EnsureRegisteredAgent(a) PROVE LockHeld'
  BY <1>11 DEF EnsureRegisteredAgent
<1>12. CASE UNCHANGED vars
  BY <1>12 DEF vars
<1> QED
  BY <1>1, <1>2, <1>3, <1>5, <1>6, <1>7, <1>8, <1>9, <1>10, <1>11, <1>12 DEF Next, Step

LEMMA StepOrphans == TypeInv /\ NoOrphans /\ [Next]_vars => NoOrphans'
<1> SUFFICES ASSUME TypeInv, NoOrphans, [Next]_vars PROVE NoOrphans'
  OBVIOUS
<1> USE DEF TypeInv, TypeOK, NoOrphans
<1>1. ASSUME NEW c \in Callers, Abandon(c) PROVE NoOrphans'
  BY <1>1, MaxAbandonedAssumption DEF Abandon
<1>2. ASSUME NEW t \in orphans, LateTransaction(t) PROVE NoOrphans'
  BY <1>2 DEF LateTransaction
<1>3. CASE UNCHANGED <<orphans, abandoned>>
  BY <1>3
<1> QED
  BY <1>1, <1>2, <1>3
  DEF Next, Step, Start, Acquire, ReadNodes, ReadEdges, ReadAgents, Commit, ReadBack,
      QueryFails, EnsureRegisteredAgent, vars

\* What a caller knows is not disturbed by a step that leaves its own state and
\* the bodies alone: an agent that appears takes nothing back.
LEMMA ReadsFrame ==
    ASSUME NEW d \in Callers, ReadsHold(d),
           nodes' = nodes, edges' = edges, agents \subseteq agents',
           pc'[d] = pc[d], call'[d] = call[d],
           seenNodes'[d] = seenNodes[d], seenLink'[d] = seenLink[d]
    PROVE  ReadsHold(d)'
<1>1. TxGuard(call[d]) => TxGuard(call[d])'
  BY DEF TxGuard
<1> QED
  BY <1>1 DEF ReadsHold

LEMMA StepDecisions == DecisionsInv /\ [Next]_vars /\ Sharing' => \A c \in Callers : ReadsHold(c)'
<1> SUFFICES ASSUME DecisionsInv, [Next]_vars, Sharing', NEW d \in Callers
             PROVE  ReadsHold(d)'
  BY Zenon
<1> USE DEF DecisionsInv, TypeInv, TypeOK
<1>0. Sharing /\ ReadsHold(d)
  <2>1. service' = service /\ (abandoned' = abandoned \/ abandoned' = abandoned + 1)
    BY DEF Next, Step, Start, Acquire, ReadNodes, ReadEdges, ReadAgents, Commit, ReadBack,
           QueryFails, Abandon, LateTransaction, EnsureRegisteredAgent, vars
  <2>2. abandoned = 0
    BY <2>1 DEF Sharing
  <2> QED
    BY <2>1, <2>2 DEF Sharing
<1>1. ASSUME NEW c \in Callers, pc'[c] \in {"idle", "lock", "nodes", "readback"}
      PROVE  ReadsHold(c)'
  BY <1>1 DEF ReadsHold
<1>2. ASSUME NEW c \in Callers, NEW t \in Call, Start(c, t) PROVE ReadsHold(d)'
  <2>1. pc'[c] = "lock"
    BY <1>2 DEF Start, Goto
  <2>2. CASE d # c
    BY <1>0, <1>2, <2>2, ReadsFrame DEF Start, Goto, tables
  <2> QED
    BY <1>1, <2>1, <2>2
<1>3. ASSUME NEW c \in Callers, Acquire(c) PROVE ReadsHold(d)'
  <2>1. CASE call[c].op # "unassign"
    <3>1. pc'[c] = "nodes"
      BY <1>3, <2>1 DEF Acquire, Goto
    <3>2. CASE d # c
      BY <1>0, <1>3, <3>2, ReadsFrame DEF Acquire, Goto, tables
    <3> QED
      BY <1>1, <3>1, <3>2
  <2>2. CASE call[c].op = "unassign"
    <3>1. pc'[c] = "commit" /\ call' = call
      BY <1>3, <2>2 DEF Acquire, Goto
    <3>2. CASE d # c
      BY <1>0, <1>3, <3>2, ReadsFrame DEF Acquire, Goto, tables
    <3>3. ReadsHold(c)'
      BY <2>2, <3>1 DEF ReadsHold
    <3> QED
      BY <3>2, <3>3
  <2> QED
    BY <2>1, <2>2
<1>4. ASSUME NEW c \in Callers, ReadNodes(c) PROVE ReadsHold(d)'
  <2>1. CASE d # c
    BY <1>0, <1>4, <2>1, ReadsFrame DEF ReadNodes, Goto, tables
  <2>2. pc'[c] = "edges" /\ seenNodes'[c] = nodes /\ nodes' = nodes
    BY <1>4 DEF ReadNodes, Goto, tables
  <2>3. ReadsHold(c)'
    BY <2>2 DEF ReadsHold
  <2> QED
    BY <2>1, <2>3
<1>5. ASSUME NEW c \in Callers, Raise(c), UNCHANGED tables PROVE ReadsHold(d)'
  <2>1. pc'[c] = "idle"
    BY <1>5 DEF Raise, Goto
  <2>2. CASE d # c
    BY <1>0, <1>5, <2>2, ReadsFrame DEF Raise, Goto, Forget, tables
  <2> QED
    BY <1>1, <2>1, <2>2
<1>6. ASSUME NEW c \in Callers, ReadEdges(c) PROVE ReadsHold(d)'
  <2>1. CASE DecisionFails(c)
    BY <1>5, <1>6, <2>1 DEF ReadEdges
  <2>2. CASE ~DecisionFails(c)
    <3>1. CASE d # c
      <4>1. /\ nodes' = nodes /\ edges' = edges /\ agents' = agents /\ call' = call
            /\ pc'[d] = pc[d] /\ seenNodes'[d] = seenNodes[d] /\ seenLink'[d] = seenLink[d]
        BY <1>6, <2>2, <3>1 DEF ReadEdges, Goto, tables
      <4> QED
        BY <1>0, <4>1, ReadsFrame
    <3>2. /\ seenNodes[c] = nodes /\ call[c] \in Call
          /\ nodes' = nodes /\ edges' = edges /\ call' = call
      BY <1>0, <1>6, <2>2 DEF ReadEdges, Goto, tables, ReadsHold, CallShape
    <3>3. /\ call[c].op = "create" => nodes[call[c].body] = NoBody
          /\ call[c].op # "create" => nodes[call[c].body] # NoBody
      BY <2>2, <3>2 DEF DecisionFails
    <3>4. CASE call[c].op = "assign"
      <4>1. pc'[c] = "agents" /\ seenLink'[c] = AssignedAgent(call[c].body, edges)
        BY <1>6, <2>2, <3>4 DEF ReadEdges, Goto
      <4> QED
        BY <3>1, <3>2, <3>3, <3>4, <4>1 DEF ReadsHold
    <3>5. CASE call[c].op # "assign"
      <4>1. pc'[c] = "commit"
        BY <1>6, <2>2, <3>5 DEF ReadEdges, Goto
      <4>2. TxGuard(call[c])'
        BY <3>2, <3>3, <3>5 DEF TxGuard
      <4>3. ReadsHold(c)'
        BY <4>1, <4>2 DEF ReadsHold
      <4> QED
        BY <3>1, <4>3
    <3> QED
      BY <3>4, <3>5
  <2> QED
    BY <2>1, <2>2
<1>7. ASSUME NEW c \in Callers, ReadAgents(c) PROVE ReadsHold(d)'
  <2>1. CASE Raise(c)
    BY <1>5, <1>7, <2>1 DEF ReadAgents
  <2>2. CASE ~Raise(c)
    <3>1. /\ call[c].agent \in agents /\ seenLink[c] = NoAgent /\ Goto(c, "commit")
          /\ UNCHANGED <<tables, call, seenNodes, seenLink>>
      BY <1>7, <2>2 DEF ReadAgents
    <3>2. CASE d # c
      BY <1>0, <3>1, <3>2, ReadsFrame DEF Goto, tables
    <3>3. /\ call[c].op = "assign" /\ nodes[call[c].body] # NoBody
          /\ AssignedAgent(call[c].body, edges) = NoAgent
      BY <1>0, <1>7, <3>1 DEF ReadsHold, ReadAgents
    <3>4. AssignmentsOf(call[c].body, edges) = {}
      BY <3>3, NoAgentAssumption DEF AssignedAgent, AgentAmong, AssignmentsOf
    <3>5. TxGuard(call[c])
      BY <3>1, <3>3, <3>4 DEF TxGuard
    <3>6. TxGuard(call[c])' /\ pc'[c] = "commit"
      BY <3>1, <3>5 DEF TxGuard, tables, Goto
    <3>7. ReadsHold(c)'
      BY <3>6 DEF ReadsHold
    <3> QED
      BY <3>2, <3>7
  <2> QED
    BY <2>1, <2>2
<1>8. ASSUME NEW c \in Callers, Commit(c) PROVE ReadsHold(d)'
  <2>1. pc'[c] \in {"idle", "readback"} /\ \A e \in Callers \ {c} : pc'[e] = pc[e]
    BY <1>8 DEF Commit, Goto
  <2>2. \A e \in Callers \ {c} : ~InCritical(e)
    BY <1>0, <1>8 DEF LockHeld, InCritical, Sharing, Commit
  <2> QED
    BY <2>1, <2>2 DEF ReadsHold, InCritical, Stages
<1>9. ASSUME NEW c \in Callers, ReadBack(c) PROVE ReadsHold(d)'
  <2>1. pc'[c] = "idle"
    BY <1>9 DEF ReadBack, Goto
  <2>2. CASE d # c
    BY <1>0, <1>9, <2>2, ReadsFrame DEF ReadBack, Goto, Forget, tables
  <2> QED
    BY <1>1, <2>1, <2>2
<1>10. ASSUME NEW c \in Callers, QueryFails(c) \/ Abandon(c) PROVE ReadsHold(d)'
  BY <1>5, <1>10 DEF QueryFails, Abandon
<1>11. ASSUME NEW t \in orphans, LateTransaction(t) PROVE FALSE
  BY <1>0, <1>11 DEF NoOrphans, Sharing
<1>12. ASSUME NEW a \in Agents, EnsureRegisteredAgent(a) PROVE ReadsHold(d)'
  BY <1>0, <1>12, ReadsFrame DEF EnsureRegisteredAgent
<1>13. CASE UNCHANGED vars
  BY <1>0, <1>13, ReadsFrame DEF vars
<1> QED
  BY <1>2, <1>3, <1>4, <1>6, <1>7, <1>8, <1>9, <1>10, <1>11, <1>12, <1>13 DEF Next, Step

\* What the lock is for: with one service and nothing abandoned, a decision
\* taken from the reads still holds at the transaction, which never throws.
THEOREM DecisionsHold == Spec => []SharedServiceDecisionsHold
<1>1. Init => DecisionsInv
  <2>1. Init => LockHeld /\ NoOrphans /\ \A c \in Callers : ReadsHold(c)
    BY DEF Init, LockHeld, InCritical, NoOrphans, ReadsHold
  <2> QED
    BY <2>1, InitTypes DEF DecisionsInv
<1>2. DecisionsInv /\ [Next]_vars => DecisionsInv'
  <2> SUFFICES ASSUME DecisionsInv, [Next]_vars PROVE DecisionsInv'
    OBVIOUS
  <2>1. TypeInv' /\ LockHeld' /\ NoOrphans'
    BY StepTypes, StepLock, StepOrphans DEF DecisionsInv
  <2>2. Sharing' => \A c \in Callers : ReadsHold(c)'
    BY StepDecisions
  <2> QED
    BY <2>1, <2>2 DEF DecisionsInv
<1>3. DecisionsInv => SharedServiceDecisionsHold
  BY DEF DecisionsInv, Sharing, ReadsHold, SharedServiceDecisionsHold
<1> QED
  BY <1>1, <1>2, <1>3, PTL DEF Spec

=============================================================================
