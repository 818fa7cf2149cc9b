--------------------------- MODULE EmbodimentStore ---------------------------
(***************************************************************************)
(* The durable embodiment graph as its readers may rely on it: body nodes  *)
(* with their configured capabilities, agent nodes, and the singular       *)
(* assigned_to link of a body.  Every change is one atomic step.  The      *)
(* lock, the reads and the SurrealQL transactions that produce these steps *)
(* are in EmbodimentWriting, which implements this specification; the      *)
(* runtime that reads the graph is in EmbodimentRuntime.                   *)
(***************************************************************************)
EXTENDS Naturals

CONSTANTS
    Bodies,        \* embodiment: record ids
    Agents,        \* agent: record ids
    Capabilities,  \* physical channels, e.g. vision.observe
    Configured,    \* the sets of them that operators configure bodies with
    NoBody,        \* no embodiment node is stored under the id
    NoAgent        \* the body has no assigned_to edge

ASSUME NoBodyAssumption == \A caps \in SUBSET Capabilities : NoBody # caps
ASSUME NoAgentAssumption == NoAgent \notin Agents
ASSUME ConfiguredAssumption == Configured \subseteq SUBSET Capabilities

VARIABLES
    node,          \* node[b]: configured capabilities of body b, or NoBody
    link,          \* link[b]: the agent b is assigned to, or NoAgent
    agent          \* the agent nodes that exist

storeVars == <<node, link, agent>>

Node == {NoBody} \cup SUBSET Capabilities
Link == Agents \cup {NoAgent}

StoreTypeOK ==
    /\ node \in [Bodies -> Node]
    /\ link \in [Bodies -> Link]
    /\ agent \in SUBSET Agents

StoreInit ==
    /\ node = [b \in Bodies |-> NoBody]
    /\ link = [b \in Bodies |-> NoAgent]
    /\ agent = {}

-----------------------------------------------------------------------------

\* A new body starts without an assignment.
CreateBody(b, caps) ==
    /\ node[b] = NoBody
    /\ link[b] = NoAgent
    /\ node' = [node EXCEPT ![b] = caps]
    /\ UNCHANGED <<link, agent>>

UpdateBody(b, caps) ==
    /\ node[b] # NoBody
    /\ node' = [node EXCEPT ![b] = caps]
    /\ UNCHANGED <<link, agent>>

\* Deleting a body takes its assignment with it.
DeleteBody(b) ==
    /\ node[b] # NoBody
    /\ node' = [node EXCEPT ![b] = NoBody]
    /\ link' = [link EXCEPT ![b] = NoAgent]
    /\ UNCHANGED agent

\* Only an unassigned body is assigned, and only to an agent that exists.
AssignBody(b, a) ==
    /\ node[b] # NoBody
    /\ a \in agent
    /\ link[b] = NoAgent
    /\ link' = [link EXCEPT ![b] = a]
    /\ UNCHANGED <<node, agent>>

UnassignBody(b) ==
    /\ node[b] # NoBody
    /\ link' = [link EXCEPT ![b] = NoAgent]
    /\ UNCHANGED <<node, agent>>

\* Start-up materialises a configured agent; nothing removes one.
MaterializeAgent(a) ==
    /\ a \notin agent
    /\ agent' = agent \cup {a}
    /\ UNCHANGED <<node, link>>

WriteBody(b) ==
    \/ \E caps \in Configured : CreateBody(b, caps) \/ UpdateBody(b, caps)
    \/ DeleteBody(b)
    \/ \E a \in Agents : AssignBody(b, a)
    \/ UnassignBody(b)

StoreNext ==
    \/ \E b \in Bodies : WriteBody(b)
    \/ \E a \in Agents : MaterializeAgent(a)

StoreSpec == StoreInit /\ [][StoreNext]_storeVars

=============================================================================
