-------------------------- MODULE EmbodimentWriting --------------------------
(***************************************************************************)
(* EmbodimentWritingService: deterministic writes of persistent bodies and *)
(* of their single assigned_to edge.  A caller takes its service's         *)
(* asyncio lock, lists the graph (two queries), decides, runs one guarded  *)
(* SurrealQL transaction, releases the lock and reads the body back.       *)
(*                                                                         *)
(* The API process and every run of the operator CLI hold a service of     *)
(* their own, so callers may or may not share a lock: `service` is chosen  *)
(* in the initial state.  A query may fail, and a caller may be cancelled  *)
(* or lose its connection while its transaction is under way: the          *)
(* transaction is then orphaned and runs later, or never.                  *)
(*                                                                         *)
(* The unique index of ensure_constraints is not consulted here: what is   *)
(* shown holds from the transactions' own guards.                          *)
(***************************************************************************)
EXTENDS Naturals, FiniteSets

CONSTANTS
    Bodies, Agents, Capabilities, NoBody, NoAgent,
    Callers,       \* concurrent calls of the service's methods
    Services,      \* service instances, each with a lock of its own
    Free,          \* a lock nobody holds
    NoCall,        \* the caller is idle
    MaxAbandoned   \* bound on abandoned transactions

ASSUME NoBodyAssumption == \A caps \in SUBSET Capabilities : NoBody # caps
ASSUME NoAgentAssumption == NoAgent \notin Agents
ASSUME FreeAssumption == Free \notin Callers
ASSUME MaxAbandonedAssumption == MaxAbandoned \in Nat

VARIABLES
    nodes,         \* embodiment table
    edges,         \* assigned_to table: a set of [in, out]
    agents,        \* agent table
    service,       \* the service instance a caller uses
    lock,          \* lock[s]: the caller that holds service s's lock, or Free
    pc,            \* the await a caller is suspended at
    call,          \* the method and its arguments
    seenNodes,     \* rows of the embodiment table, while list() runs
    seenLink,      \* the agent_id of the body get() returned to assign
    orphans,       \* transactions whose caller is gone
    abandoned      \* how many were abandoned so far

vars == <<nodes, edges, agents, service, lock, pc, call, seenNodes, seenLink,
          orphans, abandoned>>
tables == <<nodes, edges, agents>>

Node == {NoBody} \cup SUBSET Capabilities
Link == Agents \cup {NoAgent}
Edge == [in : Bodies, out : Agents]
Call == [op : {"create", "update"}, body : Bodies, caps : SUBSET Capabilities]
            \cup [op : {"assign"}, body : Bodies, agent : Agents]
            \cup [op : {"delete", "unassign"}, body : Bodies]
Stages == {"idle", "lock", "nodes", "edges", "agents", "commit", "readback"}

NoNodes == [b \in Bodies |-> NoBody]

TypeOK ==
    /\ nodes \in [Bodies -> Node]
    /\ edges \in SUBSET Edge
    /\ agents \in SUBSET Agents
    /\ service \in [Callers -> Services]
    /\ lock \in [Services -> Callers \cup {Free}]
    /\ pc \in [Callers -> Stages]
    /\ call \in [Callers -> {NoCall} \cup Call]
    /\ seenNodes \in [Callers -> [Bodies -> Node]]
    /\ seenLink \in [Callers -> Link]
    /\ orphans \in SUBSET Call
    /\ abandoned \in 0..MaxAbandoned

Init ==
    /\ nodes = NoNodes
    /\ edges = {}
    /\ agents = {}
    /\ service \in [Callers -> Services]
    /\ lock = [s \in Services |-> Free]
    /\ pc = [c \in Callers |-> "idle"]
    /\ call = [c \in Callers |-> NoCall]
    /\ seenNodes = [c \in Callers |-> NoNodes]
    /\ seenLink = [c \in Callers |-> NoAgent]
    /\ orphans = {}
    /\ abandoned = 0

-----------------------------------------------------------------------------
(* The graph a pair of table reads describes. *)

\* The assignments of body b among the rows of assigned_to.
AssignmentsOf(b, rows) == {a \in Agents : [in |-> b, out |-> a] \in rows}

\* list() raises on two assignments of one body and on an edge whose body is
\* not among the nodes read before.
ListingFails(read, rows) ==
    \/ \E e, f \in rows : e.in = f.in /\ e # f
    \/ \E e \in rows : read[e.in] = NoBody

\* The agent_id list() projects onto body b.
AgentAmong(assigned) == IF assigned = {} THEN NoAgent ELSE CHOOSE a \in assigned : TRUE
AssignedAgent(b, rows) == AgentAmong(AssignmentsOf(b, rows))

-----------------------------------------------------------------------------
(* The transactions: a THROW guard and an effect on the tables. *)

\* Mutant: assign trusts the body it listed before the transaction.
BuggyTxGuard(t) ==
    CASE t.op = "create" -> nodes[t.body] = NoBody
      [] t.op = "assign" -> t.agent \in agents /\ AssignmentsOf(t.body, edges) \subseteq {t.agent}
      [] OTHER -> nodes[t.body] # NoBody

TxGuard(t) ==
    CASE t.op = "create" -> nodes[t.body] = NoBody
      [] t.op = "assign" -> /\ nodes[t.body] # NoBody
                            /\ t.agent \in agents
                            /\ AssignmentsOf(t.body, edges) \subseteq {t.agent}
      [] OTHER -> nodes[t.body] # NoBody

TxNodes(t) ==
    CASE t.op \in {"create", "update"} -> [nodes EXCEPT ![t.body] = t.caps]
      [] t.op = "delete" -> [nodes EXCEPT ![t.body] = NoBody]
      [] OTHER -> nodes

TxEdges(t) ==
    CASE t.op \in {"delete", "unassign"} -> {e \in edges : e.in # t.body}
      [] t.op = "assign" /\ AssignmentsOf(t.body, edges) = {} ->
            edges \cup {[in |-> t.body, out |-> t.agent]}
      [] OTHER -> edges

\* Mutant: the transaction relies on the decision taken under the lock.
BuggyTransaction(t) ==
    /\ nodes' = TxNodes(t)
    /\ edges' = IF t.op = "assign" THEN edges \cup {[in |-> t.body, out |-> t.agent]} ELSE TxEdges(t)
    /\ UNCHANGED agents

\* A transaction that throws changes nothing.
Transaction(t) ==
    /\ nodes' = IF TxGuard(t) THEN TxNodes(t) ELSE nodes
    /\ edges' = IF TxGuard(t) THEN TxEdges(t) ELSE edges
    /\ UNCHANGED agents

-----------------------------------------------------------------------------
(* One method call, await by await. *)

Goto(c, stage) == pc' = [pc EXCEPT ![c] = stage]

Forget(c) ==
    /\ call' = [call EXCEPT ![c] = NoCall]
    /\ seenNodes' = [seenNodes EXCEPT ![c] = NoNodes]
    /\ seenLink' = [seenLink EXCEPT ![c] = NoAgent]

Release(c) == lock' = [lock EXCEPT ![service[c]] = Free]

\* Mutant: an exception skips the release.
BuggyRaise(c) == Goto(c, "idle") /\ Forget(c) /\ UNCHANGED lock

\* An exception leaves the `async with` block and the method.
Raise(c) == Goto(c, "idle") /\ Forget(c) /\ Release(c)

Start(c, t) ==
    /\ pc[c] = "idle"
    /\ call' = [call EXCEPT ![c] = t]
    /\ Goto(c, "lock")
    /\ UNCHANGED <<tables, service, lock, seenNodes, seenLink, orphans, abandoned>>

\* Mutant: the lock is not waited for.
BuggyAcquire(c) ==
    /\ pc[c] = "lock"
    /\ lock' = [lock EXCEPT ![service[c]] = c]
    /\ Goto(c, IF call[c].op = "unassign" THEN "commit" ELSE "nodes")
    /\ UNCHANGED <<tables, service, call, seenNodes, seenLink, orphans, abandoned>>

\* unassign goes straight to its transaction; the others list the graph first.
Acquire(c) ==
    /\ pc[c] = "lock"
    /\ lock[service[c]] = Free
    /\ lock' = [lock EXCEPT ![service[c]] = c]
    /\ Goto(c, IF call[c].op = "unassign" THEN "commit" ELSE "nodes")
    /\ UNCHANGED <<tables, service, call, seenNodes, seenLink, orphans, abandoned>>

ReadNodes(c) ==
    /\ pc[c] = "nodes"
    /\ seenNodes' = [seenNodes EXCEPT ![c] = nodes]
    /\ Goto(c, "edges")
    /\ UNCHANGED <<tables, service, lock, call, seenLink, orphans, abandoned>>

\* The decision of create ("already exists") and of get ("unknown embodiment").
DecisionFails(c) ==
    \/ ListingFails(seenNodes[c], edges)
    \/ call[c].op = "create" /\ seenNodes[c][call[c].body] # NoBody
    \/ call[c].op # "create" /\ seenNodes[c][call[c].body] = NoBody

ReadEdges(c) ==
    /\ pc[c] = "edges"
    /\ IF DecisionFails(c)
       THEN Raise(c)
       ELSE /\ seenNodes' = [seenNodes EXCEPT ![c] = NoNodes]
            /\ IF call[c].op = "assign"
               THEN /\ seenLink' = [seenLink EXCEPT ![c] = AssignedAgent(call[c].body, edges)]
                    /\ Goto(c, "agents")
               ELSE Goto(c, "commit") /\ UNCHANGED seenLink
            /\ UNCHANGED <<lock, call>>
    /\ UNCHANGED <<tables, service, orphans, abandoned>>

\* assign: an unknown agent or another agent's body is refused, a repeated
\* assignment returns at once, an unassigned body goes on to the transaction.
ReadAgents(c) ==
    /\ pc[c] = "agents"
    /\ IF call[c].agent \in agents /\ seenLink[c] = NoAgent
       THEN Goto(c, "commit") /\ UNCHANGED <<lock, call, seenNodes, seenLink>>
       ELSE Raise(c)
    /\ UNCHANGED <<tables, service, orphans, abandoned>>

\* The transaction's reply: an error leaves the method, otherwise create and
\* delete return and the rest read the body back without the lock.
Commit(c) ==
    /\ pc[c] = "commit"
    /\ Transaction(call[c])
    /\ Release(c)
    /\ IF TxGuard(call[c]) /\ call[c].op \in {"update", "assign", "unassign"}
       THEN Goto(c, "readback") /\ UNCHANGED <<call, seenNodes, seenLink>>
       ELSE Goto(c, "idle") /\ Forget(c)
    /\ UNCHANGED <<service, orphans, abandoned>>

ReadBack(c) ==
    /\ pc[c] = "readback"
    /\ Goto(c, "idle")
    /\ Forget(c)
    /\ UNCHANGED <<tables, service, lock, orphans, abandoned>>

\* A listing query fails: the lock is released by the context manager.
QueryFails(c) ==
    /\ pc[c] \in {"nodes", "edges", "agents"}
    /\ Raise(c)
    /\ UNCHANGED <<tables, service, orphans, abandoned>>

\* The caller is cancelled, killed or cut off after sending its transaction.
Abandon(c) ==
    /\ pc[c] = "commit"
    /\ abandoned < MaxAbandoned
    /\ orphans' = orphans \cup {call[c]}
    /\ abandoned' = abandoned + 1
    /\ Raise(c)
    /\ UNCHANGED <<tables, service>>

LateTransaction(t) ==
    /\ t \in orphans
    /\ Transaction(t)
    /\ orphans' = orphans \ {t}
    /\ UNCHANGED <<service, lock, pc, call, seenNodes, seenLink, abandoned>>

\* Start-up materialises a configured agent that is absent.
EnsureRegisteredAgent(a) ==
    /\ a \notin agents
    /\ agents' = agents \cup {a}
    /\ UNCHANGED <<nodes, edges, service, lock, pc, call, seenNodes, seenLink,
                   orphans, abandoned>>

\* What a method does once it has been called.
Step(c) ==
    \/ Acquire(c)
    \/ ReadNodes(c)
    \/ ReadEdges(c)
    \/ ReadAgents(c)
    \/ Commit(c)
    \/ ReadBack(c)

Next ==
    \/ \E c \in Callers : \/ \E t \in Call : Start(c, t)
                          \/ Step(c)
                          \/ QueryFails(c)
                          \/ Abandon(c)
    \/ \E t \in orphans : LateTransaction(t)
    \/ \E a \in Agents : EnsureRegisteredAgent(a)

Spec == Init /\ [][Next]_vars

\* A query is eventually answered, and asyncio.Lock wakes its waiters in order.
Fairness == \A c \in Callers : WF_vars(Step(c)) /\ SF_vars(Acquire(c))

FairSpec == Spec /\ Fairness

-----------------------------------------------------------------------------
(* Properties *)

\* At most one assigned_to edge leaves a body, whoever writes concurrently and
\* whatever is abandoned (assign: "Concurrent writers cannot create two
\* independent assignments for one body").
OneAssignmentPerBody == \A e, f \in edges : e.in = f.in => e = f

\* An assignment never dangles: its body and its agent are stored, so that a
\* listing taken at one moment never raises.
AssignmentEndpointsExist == \A e \in edges : nodes[e.in] # NoBody /\ e.out \in agents

\* The tables stay what list() and the runtime take them for, whatever the
\* writers do at once: typed, one assignment per body, and no dangling one.
AssignmentsAreSound == TypeOK /\ OneAssignmentPerBody /\ AssignmentEndpointsExist

\* What the lock is for: when all callers share one service and nothing was
\* abandoned, the decision taken from the reads still holds at the transaction,
\* which therefore never throws (unassign takes no decision of its own).
SharedServiceDecisionsHold ==
    (abandoned = 0 /\ \A c, d \in Callers : service[c] = service[d]) =>
        \A c \in Callers : pc[c] = "commit" /\ call[c].op # "unassign" => TxGuard(call[c])

\* Every call comes back: no path leaves the lock held.
CallsReturn == \A c \in Callers : pc[c] # "idle" ~> pc[c] = "idle"

\* The tables, read as the graph of EmbodimentStore, change only by its steps.
Store == INSTANCE EmbodimentStore WITH
            Configured <- SUBSET Capabilities,
            node <- nodes,
            link <- [b \in Bodies |-> AssignedAgent(b, edges)],
            agent <- agents
ImplementsStore == Store!StoreSpec

=============================================================================
