-------------------------- MODULE EmbodimentRuntime --------------------------
(***************************************************************************)
(* The embodiment runtime of one API process: EmbodimentRegistration,      *)
(* EmbodimentSession, EmbodimentConnections, EmbodimentCatalog,            *)
(* EmbodimentPresence, over the durable graph of EmbodimentStore, which    *)
(* operators change from other processes at any time.                      *)
(*                                                                         *)
(* A request awaits two queries (the embodiment table, then assigned_to)   *)
(* and then runs without suspension to its answer.  A reply may be late:   *)
(* other requests and writers run between the read and its use.  The       *)
(* process may crash, dropping every session, sample and request.          *)
(***************************************************************************)
EXTENDS EmbodimentStore, FiniteSets

CONSTANTS
    Clients,          \* device clients
    Requests,         \* requests in flight at once
    Advertised,       \* the sets of capabilities that clients advertise
    Sample,           \* telemetry: [at, space, pose], pose for all the rest
    RegisteredSpaces, \* the ids of nodes/space.json
    NoSession, NoSample, NoRequest, NoId, NoClient,
    MaxSessions,      \* bound on sessions opened
    MaxInstances      \* bound on process instances

ASSUME BoundsAssumption ==
    /\ Advertised \subseteq SUBSET Capabilities
    /\ \A s \in Sample : s.at \in Nat
    /\ MaxSessions \in Nat
    /\ MaxInstances \in Nat

VARIABLES
    boot,        \* start-up: the query it waits for, or "up"
    bootAgents,  \* agent rows read by start-up
    bootNodes,   \* embodiment rows read by start-up
    instance,    \* the process's random token (secrets.token_hex)
    sequence,    \* EmbodimentConnections._sequence
    catalog,     \* the ids of EmbodimentCatalog._records: every operation replaces
                 \* the cached record before it looks at it
    registered,  \* EmbodimentPresence._embodiments
    session,     \* EmbodimentConnections._sessions
    telemetry,   \* EmbodimentPresence._current
    request,     \* the requests in flight
    issued       \* session ids handed out, with the client they went to

processVars == <<boot, bootAgents, bootNodes, instance, sequence>>
runtimeVars == <<catalog, registered, session, telemetry>>
vars == <<storeVars, processVars, runtimeVars, request, issued>>

SessionId == [instance : Nat, sequence : Nat]
Session == [id : SessionId, online : BOOLEAN, caps : SUBSET Capabilities]

ASSUME NoSessionAssumption == NoSession \notin Session

Ops == {"connect", "capabilities", "disconnect", "telemetry", "touch"}
Request ==
    [client : Clients, op : Ops, body : Bodies, sid : {NoId} \cup SessionId,
     caps : SUBSET Capabilities, sample : {NoSample} \cup Sample,
     stage : {"edges", "apply"}, nodes : [Bodies -> Node], found : Node]

TypeOK ==
    /\ StoreTypeOK
    /\ boot \in {"agents", "nodes", "edges", "up"}
    /\ bootAgents \in SUBSET Agents
    /\ bootNodes \in [Bodies -> Node]
    /\ instance \in Nat
    /\ sequence \in Nat
    /\ catalog \in SUBSET Bodies
    /\ registered \in SUBSET Bodies
    /\ session \in [Bodies -> {NoSession} \cup Session]
    /\ telemetry \in [Bodies -> {NoSample} \cup Sample]
    /\ request \in [Requests -> {NoRequest} \cup Request]
    /\ issued \in SUBSET [client : Clients, body : Bodies, id : SessionId]

NoNodes == [b \in Bodies |-> NoBody]

NoSessions == [b \in Bodies |-> NoSession]
NoSamples == [b \in Bodies |-> NoSample]

Init ==
    /\ StoreInit
    /\ boot = "agents"
    /\ bootAgents = {}
    /\ bootNodes = NoNodes
    /\ instance = 1
    /\ sequence = 0
    /\ catalog = {}
    /\ registered = {}
    /\ session = NoSessions
    /\ telemetry = NoSamples
    /\ request = [r \in Requests |-> NoRequest]
    /\ issued = {}

-----------------------------------------------------------------------------
(* Reading the graph. *)

\* list() raises when an edge names a body that the earlier query did not see.
ListingFails(nodes, links) == \E b \in Bodies : links[b] # NoAgent /\ nodes[b] = NoBody

\* identities.get(): the body's configuration, or NoBody for every failure,
\* since _admit answers unknown_embodiment to both.
Get(nodes, links, b) == IF ListingFails(nodes, links) THEN NoBody ELSE nodes[b]

Resolved(q) == q.found # NoBody

-----------------------------------------------------------------------------
(* Start-up and crash. *)

BootReadAgents ==
    /\ boot = "agents"
    /\ bootAgents' = agent
    /\ boot' = "nodes"
    /\ UNCHANGED <<storeVars, bootNodes, instance, sequence, runtimeVars, request, issued>>

BootReadNodes ==
    /\ boot = "nodes"
    /\ bootNodes' = node
    /\ boot' = "edges"
    /\ UNCHANGED <<storeVars, bootAgents, instance, sequence, runtimeVars, request, issued>>

\* catalog() also refuses an assignment to an agent it did not see.
BootFails == \/ ListingFails(bootNodes, link)
             \/ \E b \in Bodies : link[b] # NoAgent /\ link[b] \notin bootAgents

\* The runtime opens with every session offline, or start-up is tried again.
BootReadEdges ==
    /\ boot = "edges"
    /\ IF BootFails
       THEN boot' = "agents" /\ UNCHANGED runtimeVars
       ELSE /\ boot' = "up"
            /\ catalog' = {b \in Bodies : bootNodes[b] # NoBody}
            /\ registered' = {b \in Bodies : bootNodes[b] # NoBody}
            /\ UNCHANGED <<session, telemetry>>
    /\ bootAgents' = {}
    /\ bootNodes' = NoNodes
    /\ UNCHANGED <<storeVars, instance, sequence, request, issued>>

Crash ==
    /\ boot = "up"
    /\ instance < MaxInstances
    /\ boot' = "agents"
    /\ instance' = instance + 1
    /\ sequence' = 0
    /\ catalog' = {}
    /\ registered' = {}
    /\ session' = NoSessions
    /\ telemetry' = NoSamples
    /\ request' = [r \in Requests |-> NoRequest]
    /\ UNCHANGED <<storeVars, bootAgents, bootNodes, issued>>

-----------------------------------------------------------------------------
(* Requests. *)

\* The ids a client may put into X-Embodiment-Session-ID.  A missing header
\* is answered like any id that is not current.
KnownIds(c) == {i.id : i \in {j \in issued : j.client = c}}

\* A request from the moment the database answers its first query: nothing it
\* does before depends on the state, so that waiting longer for the reply is
\* the same as being sent later.
NewRequest(c, op, b, sid, caps, sample) ==
    [client |-> c, op |-> op, body |-> b, sid |-> sid, caps |-> caps, sample |-> sample,
     stage |-> "edges", nodes |-> node, found |-> NoBody]

Send(r, q) ==
    /\ boot = "up"
    /\ request[r] = NoRequest
    /\ request' = [request EXCEPT ![r] = q]
    /\ UNCHANGED <<storeVars, processVars, runtimeVars, issued>>

SendSome(r, c, b) ==
    \/ \E caps \in Advertised :
          Send(r, NewRequest(c, "connect", b, NoId, caps, NoSample))
    \/ Send(r, NewRequest(c, "touch", b, NoId, {}, NoSample))
    \/ \E sid \in KnownIds(c) :
          \/ Send(r, NewRequest(c, "disconnect", b, sid, {}, NoSample))
          \/ \E caps \in Advertised :
                Send(r, NewRequest(c, "capabilities", b, sid, caps, NoSample))
          \/ \E s \in Sample : Send(r, NewRequest(c, "telemetry", b, sid, {}, s))

ReadEdges(r) ==
    /\ request[r] # NoRequest
    /\ request[r].stage = "edges"
    /\ request' = [request EXCEPT ![r].found = Get(request[r].nodes, link, request[r].body),
                                  ![r].nodes = NoNodes, ![r].stage = "apply"]
    /\ UNCHANGED <<storeVars, processVars, runtimeVars, issued>>

-----------------------------------------------------------------------------
(* Answers: what the code after the last await decides from the graph as   *)
(* this request read it and from the sessions as they are now.             *)

\* Mutant: any id passes while the session is online.
BuggyRequireCurrent(s, sid, allowOffline) ==
    IF s = NoSession THEN "session_offline"
    ELSE IF ~s.online /\ ~allowOffline THEN "session_offline"
    ELSE "ok"

\* _require_current
RequireCurrent(s, sid, allowOffline) ==
    IF s = NoSession THEN "session_offline"
    ELSE IF ~s.online /\ ~allowOffline THEN "session_offline"
    ELSE IF sid # s.id THEN "stale_session"
    ELSE "ok"

\* _subset, of the body this request has just cached
SubsetCode(q) == IF q.caps \subseteq q.found THEN "ok" ELSE "capability_not_configured"

\* Mutant: a sample of the same time replaces the current one.
BuggyNewerSample(current, s) == current = NoSample \/ s.at >= current.at

\* EmbodimentPresence.submit
NewerSample(current, s) == current = NoSample \/ s.at > current.at
SubmitCode(current, s) ==
    IF s.space \notin RegisteredSpaces THEN "unknown_space"
    ELSE IF NewerSample(current, s) THEN "accepted"
    ELSE IF s = current THEN "duplicate"
    ELSE IF s.at = current.at THEN "conflicting_sample"
    ELSE "ignored"

Outcome(q) ==
    LET s == session[q.body]
        current == RequireCurrent(s, q.sid, q.op = "disconnect")
    IN  IF ~Resolved(q) THEN "unknown_embodiment"
        ELSE CASE q.op = "connect" -> SubsetCode(q)
               [] q.op = "disconnect" -> current
               [] q.op = "capabilities" ->
                     IF current = "ok" THEN SubsetCode(q) ELSE current
               [] q.op = "telemetry" ->
                     IF current = "ok" THEN SubmitCode(telemetry[q.body], q.sample)
                     ELSE current
               [] OTHER -> "ok"

-----------------------------------------------------------------------------
(* The synchronous part of a request, one action per operation. *)

Answers(r, op) ==
    /\ request[r] # NoRequest
    /\ request[r].stage = "apply"
    /\ request[r].op = op
    /\ request' = [request EXCEPT ![r] = NoRequest]
    /\ UNCHANGED <<storeVars, boot, bootAgents, bootNodes, instance>>

\* _admit caches the body it resolved, whatever becomes of the operation.
Admit(q) ==
    IF Resolved(q)
    THEN /\ catalog' = catalog \cup {q.body}
         /\ registered' = registered \cup {q.body}
    ELSE UNCHANGED <<catalog, registered>>

\* Mutant: ids without the process's random token.
BuggyNextId == [instance |-> 1, sequence |-> sequence + 1]

NextId == [instance |-> instance, sequence |-> sequence + 1]

\* A connect replaces the session of the body, online or not.
Connect(r) ==
    LET q == request[r]
    IN  /\ Answers(r, "connect")
        /\ Admit(q)
        /\ IF Outcome(q) = "ok"
           THEN /\ Cardinality(issued) < MaxSessions
                /\ sequence' = sequence + 1
                /\ session' = [session EXCEPT ![q.body] =
                                  [id |-> NextId, online |-> TRUE, caps |-> q.caps]]
                /\ issued' = issued \cup {[client |-> q.client, body |-> q.body, id |-> NextId]}
           ELSE UNCHANGED <<sequence, session, issued>>
        /\ UNCHANGED telemetry

UpdateCapabilities(r) ==
    LET q == request[r]
    IN  /\ Answers(r, "capabilities")
        /\ Admit(q)
        /\ session' = IF Outcome(q) = "ok"
                      THEN [session EXCEPT ![q.body].caps = q.caps] ELSE session
        /\ UNCHANGED <<sequence, telemetry, issued>>

\* Disconnecting an offline session again leaves it as it is.
Disconnect(r) ==
    LET q == request[r]
    IN  /\ Answers(r, "disconnect")
        /\ Admit(q)
        /\ session' = IF Outcome(q) = "ok"
                      THEN [session EXCEPT ![q.body].online = FALSE, ![q.body].caps = {}]
                      ELSE session
        /\ UNCHANGED <<sequence, telemetry, issued>>

SubmitTelemetry(r) ==
    LET q == request[r]
    IN  /\ Answers(r, "telemetry")
        /\ Admit(q)
        /\ telemetry' = IF Outcome(q) = "accepted"
                        THEN [telemetry EXCEPT ![q.body] = q.sample] ELSE telemetry
        /\ UNCHANGED <<sequence, session, issued>>

\* heartbeat and view: last_seen is not modelled, so that they change nothing
\* but the cached body, and heartbeat's session check picks only its answer.
Touch(r) ==
    /\ Answers(r, "touch")
    /\ Admit(request[r])
    /\ UNCHANGED <<sequence, session, telemetry, issued>>

-----------------------------------------------------------------------------

Apply(r) ==
    \/ Connect(r)
    \/ UpdateCapabilities(r)
    \/ Disconnect(r)
    \/ SubmitTelemetry(r)
    \/ Touch(r)

\* Operators write the graph through the writing service of another process.
StoreStep == StoreNext /\ UNCHANGED <<processVars, runtimeVars, request, issued>>

Next ==
    \/ StoreStep
    \/ BootReadAgents
    \/ BootReadNodes
    \/ BootReadEdges
    \/ Crash
    \/ \E r \in Requests :
          \/ \E c \in Clients, b \in Bodies : SendSome(r, c, b)
          \/ ReadEdges(r)
          \/ Apply(r)

Spec == Init /\ [][Next]_vars

-----------------------------------------------------------------------------
(* Properties *)

\* No session id is handed out twice, not even by the process that starts
\* after a crash ("an old token cannot match the first session after a server
\* restart").
SessionIdsUnique == \A i, j \in issued : i.id = j.id => i = j

\* The client to which body b's current session id was issued.
Holder(b) == IF session[b] = NoSession THEN NoClient
             ELSE (CHOOSE i \in issued : i.id = session[b].id).client

\* A replaced client's requests, however late they are applied, change neither
\* the session nor the sample of the body: only a connect, or a request of the
\* client that holds the current session, or a crash does.
OnlyHolderActs ==
    [][ instance' = instance =>
          \A b \in Bodies :
            session'[b] # session[b] \/ telemetry'[b] # telemetry[b] =>
              \E r \in Requests :
                /\ request[r] # NoRequest
                /\ request'[r] = NoRequest
                /\ request[r].body = b
                /\ request[r].op = "connect" \/ request[r].client = Holder(b) ]_vars

\* Within one process the current sample only moves to a later measurement,
\* whatever order samples arrive in and however often the body reconnects.
TelemetryAdvances ==
    [][ instance' = instance =>
          \A b \in Bodies :
            telemetry'[b] # telemetry[b] =>
              telemetry[b] = NoSample \/ telemetry'[b].at > telemetry[b].at ]_telemetry

\* Whatever the runtime holds about a body rests on a resolved durable record:
\* sessions and samples only for cached, registered bodies, samples only from
\* a body that has had a session, and an offline session advertises nothing.
RuntimeStateIsBacked ==
    \A b \in Bodies :
        /\ session[b] # NoSession => b \in catalog /\ b \in registered
        /\ telemetry[b] # NoSample => session[b] # NoSession
        /\ session[b] # NoSession /\ ~session[b].online => session[b].caps = {}

\* What requests rely on when they look a session up: typed state, ids that no
\* other session ever had, and only bodies that were resolved.
RuntimeIsSound == TypeOK /\ SessionIdsUnique /\ RuntimeStateIsBacked

=============================================================================
