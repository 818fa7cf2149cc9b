----------------------- MODULE EmbodimentRuntimeProofs -----------------------
(***************************************************************************)
(* Session ids are never repeated, runtime state rests on resolved bodies  *)
(* and telemetry advances, for any number of bodies, clients and requests. *)
(***************************************************************************)
EXTENDS EmbodimentRuntime, TLAPS

\* A telemetry request carries its sample.
Carries == \A r \in Requests :
    request[r] # NoRequest /\ request[r].op = "telemetry" => request[r].sample \in Sample

TypeInv == TypeOK /\ Carries

\* The ids handed out so far precede NextId: an earlier process's token, or a
\* lower number under this one's.
Issuance == \A i \in issued :
    \/ i.id.instance < instance
    \/ i.id.instance = instance /\ i.id.sequence <= sequence

\* A request carries no other client's session id.
SentIds == \A r \in Requests :
    request[r] # NoRequest /\ request[r].op \in {"capabilities", "disconnect", "telemetry"} =>
        \E i \in issued : i.client = request[r].client /\ i.id = request[r].sid

\* A process that is starting serves nothing and remembers nothing.
Booting == boot # "up" =>
    /\ session = NoSessions /\ telemetry = NoSamples
    /\ request = [r \in Requests |-> NoRequest]

Inv == TypeInv /\ Issuance /\ SessionIdsUnique /\ SentIds /\ Booting /\ RuntimeStateIsBacked

LEMMA InitInv == Init => Inv
  BY DEF Init, StoreInit, Inv, TypeInv, TypeOK, StoreTypeOK, Carries, Issuance, SessionIdsUnique, SentIds,
         Booting, RuntimeStateIsBacked, NoNodes, NoSessions, NoSamples, Node, Link

\* A write of the graph keeps the types of its tables.
LEMMA StoreTypes == StoreTypeOK /\ StoreNext => StoreTypeOK'
<1> SUFFICES ASSUME StoreTypeOK, StoreNext PROVE StoreTypeOK'
  OBVIOUS
<1> USE DEF StoreTypeOK, Node, Link
<1>1. ASSUME NEW b \in Bodies, WriteBody(b) PROVE StoreTypeOK'
  BY <1>1, ConfiguredAssumption DEF WriteBody, CreateBody, UpdateBody, DeleteBody, AssignBody, UnassignBody
<1>2. ASSUME NEW a \in Agents, MaterializeAgent(a) PROVE StoreTypeOK'
  BY <1>2 DEF MaterializeAgent
<1> QED
  BY <1>1, <1>2 DEF StoreNext

\* The type of a request when it is sent.
LEMMA RequestTypes ==
    ASSUME TypeOK, NEW c \in Clients, NEW op \in Ops, NEW b \in Bodies,
           NEW sid \in {NoId} \cup SessionId, NEW caps \in SUBSET Capabilities,
           NEW s \in {NoSample} \cup Sample
    PROVE  /\ NewRequest(c, op, b, sid, caps, s) \in Request
           /\ NewRequest(c, op, b, sid, caps, s).op = op
           /\ NewRequest(c, op, b, sid, caps, s).sample = s
  BY DEF NewRequest, Request, TypeOK, StoreTypeOK, Node

LEMMA SendTypes ==
    ASSUME TypeInv, NEW r \in Requests, NEW q \in Request,
           q.op = "telemetry" => q.sample \in Sample, Send(r, q)
    PROVE  TypeInv'
  BY DEF Send, TypeInv, TypeOK, StoreTypeOK, Carries, storeVars, processVars, runtimeVars

LEMMA SendSomeTypes ==
    ASSUME TypeInv, NEW r \in Requests, NEW c \in Clients, NEW b \in Bodies, SendSome(r, c, b)
    PROVE  TypeInv'
<1>0. KnownIds(c) \subseteq SessionId
  BY DEF KnownIds, TypeInv, TypeOK
<1>1. ASSUME NEW caps \in Advertised,
             Send(r, NewRequest(c, "connect", b, NoId, caps, NoSample))
      PROVE  TypeInv'
  <2> DEFINE q == NewRequest(c, "connect", b, NoId, caps, NoSample)
  <2>1. q \in Request /\ q.op = "connect"
    BY BoundsAssumption, RequestTypes DEF TypeInv, Ops
  <2>2. Send(r, q)
    BY <1>1
  <2> HIDE DEF q
  <2> QED
    BY <2>1, <2>2, SendTypes
<1>2. ASSUME Send(r, NewRequest(c, "touch", b, NoId, {}, NoSample)) PROVE TypeInv'
  <2> DEFINE q == NewRequest(c, "touch", b, NoId, {}, NoSample)
  <2>1. q \in Request /\ q.op = "touch"
    BY RequestTypes DEF TypeInv, Ops
  <2>2. Send(r, q)
    BY <1>2
  <2> HIDE DEF q
  <2> QED
    BY <2>1, <2>2, SendTypes
<1>3. ASSUME NEW sid \in KnownIds(c), Send(r, NewRequest(c, "disconnect", b, sid, {}, NoSample)) PROVE TypeInv'
  <2> DEFINE q == NewRequest(c, "disconnect", b, sid, {}, NoSample)
  <2>1. q \in Request /\ q.op = "disconnect"
    BY <1>0, RequestTypes DEF TypeInv, Ops
  <2>2. Send(r, q)
    BY <1>3
  <2> HIDE DEF q
  <2> QED
    BY <2>1, <2>2, SendTypes
<1>4. ASSUME NEW sid \in KnownIds(c), NEW caps \in Advertised,
             Send(r, NewRequest(c, "capabilities", b, sid, caps, NoSample))
      PROVE  TypeInv'
  <2> DEFINE q == NewRequest(c, "capabilities", b, sid, caps, NoSample)
  <2>1. q \in Request /\ q.op = "capabilities"
    BY <1>0, BoundsAssumption, RequestTypes DEF TypeInv, Ops
  <2>2. Send(r, q)
    BY <1>4
  <2> HIDE DEF q
  <2> QED
    BY <2>1, <2>2, SendTypes
<1>5. ASSUME NEW sid \in KnownIds(c), NEW s \in Sample,
             Send(r, NewRequest(c, "telemetry", b, sid, {}, s))
      PROVE  TypeInv'
  <2> DEFINE q == NewRequest(c, "telemetry", b, sid, {}, s)
  <2>1. q \in Request /\ q.sample = s
    BY <1>0, RequestTypes DEF TypeInv, Ops
  <2>2. Send(r, q)
    BY <1>5
  <2> HIDE DEF q
  <2> QED
    BY <2>1, <2>2, SendTypes
<1> QED
  BY <1>1, <1>2, <1>3, <1>4, <1>5 DEF SendSome

\* An answered request leaves its slot; the rest of the requests are kept.
LEMMA AnswerKeeps ==
    ASSUME TypeInv, NEW r \in Requests, NEW op \in Ops, Answers(r, op)
    PROVE  /\ request[r] \in Request
           /\ request' \in [Requests -> {NoRequest} \cup Request]
           /\ Carries'
  BY DEF Answers, TypeInv, TypeOK, Carries

LEMMA AdmitTypes ==
    ASSUME TypeOK, NEW q \in Request, Admit(q)
    PROVE  /\ catalog' \in SUBSET Bodies /\ registered' \in SUBSET Bodies
           /\ catalog \subseteq catalog' /\ registered \subseteq registered'
           /\ Resolved(q) => q.body \in catalog' /\ q.body \in registered'
  BY DEF TypeOK, Admit, Request

\* What an accepted outcome says about the state the request met.
LEMMA Outcomes ==
    ASSUME TypeOK, NEW q \in Request
    PROVE  /\ q.op \in {"connect", "capabilities"} /\ Outcome(q) = "ok" => Resolved(q)
           /\ q.op \in {"capabilities", "disconnect"} /\ Outcome(q) = "ok" =>
                 Resolved(q) /\ session[q.body] # NoSession
           /\ q.op = "capabilities" /\ Outcome(q) = "ok" => session[q.body].online
           /\ q.op = "telemetry" /\ Outcome(q) = "accepted" =>
                 /\ Resolved(q) /\ session[q.body] # NoSession
                 /\ NewerSample(telemetry[q.body], q.sample)
  BY DEF TypeOK, Outcome, RequireCurrent, SubsetCode, SubmitCode, Request

-----------------------------------------------------------------------------
(* Types *)

LEMMA StepTypes == TypeInv /\ [Next]_vars => TypeInv'
<1> SUFFICES ASSUME TypeInv, [Next]_vars PROVE TypeInv'
  OBVIOUS
<1> USE DEF TypeInv, TypeOK, Carries
<1>0. NoNodes \in [Bodies -> Node]
  BY DEF NoNodes, Node
<1>1. CASE StoreStep
  BY <1>1, StoreTypes DEF StoreStep, processVars, runtimeVars
<1>2. CASE BootReadAgents
  BY <1>2 DEF BootReadAgents, storeVars, runtimeVars, StoreTypeOK
<1>3. CASE BootReadNodes
  BY <1>3 DEF BootReadNodes, storeVars, runtimeVars, StoreTypeOK
<1>4. CASE BootReadEdges
  BY <1>0, <1>4 DEF BootReadEdges, storeVars, runtimeVars, StoreTypeOK
<1>5. CASE Crash
  BY <1>5 DEF Crash, storeVars, StoreTypeOK, NoSessions, NoSamples
<1>6. ASSUME NEW r \in Requests, NEW c \in Clients, NEW b \in Bodies, SendSome(r, c, b)
      PROVE  TypeInv'
  BY <1>6, SendSomeTypes
<1>7. ASSUME NEW r \in Requests, ReadEdges(r) PROVE TypeInv'
  <2> DEFINE q == request[r]
             new == [q EXCEPT !.found = Get(q.nodes, link, q.body),
                              !.nodes = NoNodes, !.stage = "apply"]
  <2>1. q \in Request
    BY <1>7 DEF ReadEdges
  <2>2. Get(q.nodes, link, q.body) \in Node
    BY <2>1 DEF Get, Node, Request
  <2>3. new \in Request /\ new.op = q.op /\ new.sample = q.sample
    BY <1>0, <2>1, <2>2 DEF Request
  <2>4. request' = [request EXCEPT ![r] = new]
    BY <1>7 DEF ReadEdges
  <2>5. q # NoRequest
    BY <1>7 DEF ReadEdges
  <2> HIDE DEF new
  <2>6. request' \in [Requests -> {NoRequest} \cup Request] /\ Carries'
    BY <2>3, <2>4, <2>5
  <2> QED
    BY <1>7, <2>6 DEF ReadEdges, storeVars, processVars, runtimeVars, StoreTypeOK
<1>8. ASSUME NEW r \in Requests, Connect(r) PROVE TypeInv'
  <2> DEFINE q == request[r]
  <2>1. q \in Request /\ Admit(q) /\ request' \in [Requests -> {NoRequest} \cup Request] /\ Carries'
    BY <1>8, AnswerKeeps DEF Connect, Ops
  <2>2. NextId \in SessionId
    BY DEF NextId, SessionId
  <2>3. session' \in [Bodies -> {NoSession} \cup Session] /\ sequence' \in Nat
        /\ issued' \in SUBSET [client : Clients, body : Bodies, id : SessionId]
    <3> DEFINE opened == [id |-> NextId, online |-> TRUE, caps |-> q.caps]
               handed == [client |-> q.client, body |-> q.body, id |-> NextId]
    <3>1. opened \in Session
      BY <2>1, <2>2 DEF Session, Request
    <3>2. handed \in [client : Clients, body : Bodies, id : SessionId]
      BY <2>1, <2>2 DEF Request
    <3>3. \/ UNCHANGED <<sequence, session, issued>>
          \/ /\ sequence' = sequence + 1
             /\ session' = [session EXCEPT ![q.body] = opened]
             /\ issued' = issued \cup {handed}
      BY <1>8 DEF Connect
    <3> HIDE DEF opened, handed
    <3> QED
      BY <3>1, <3>2, <3>3
  <2> QED
    BY <1>8, <2>1, <2>3, AdmitTypes DEF Connect, Answers, storeVars, StoreTypeOK
<1>9. ASSUME NEW r \in Requests, UpdateCapabilities(r) PROVE TypeInv'
  <2> DEFINE q == request[r]
  <2>1. q \in Request /\ Admit(q) /\ request' \in [Requests -> {NoRequest} \cup Request] /\ Carries'
    BY <1>9, AnswerKeeps DEF UpdateCapabilities, Ops
  <2>2. q.op = "capabilities"
    BY <1>9 DEF UpdateCapabilities, Answers
  <2>3. session' \in [Bodies -> {NoSession} \cup Session]
    BY <1>9, <2>1, <2>2, Outcomes DEF UpdateCapabilities, Session, Request
  <2> QED
    BY <1>9, <2>1, <2>3, AdmitTypes DEF UpdateCapabilities, Answers, storeVars, StoreTypeOK
<1>10. ASSUME NEW r \in Requests, Disconnect(r) PROVE TypeInv'
  <2> DEFINE q == request[r]
  <2>1. q \in Request /\ Admit(q) /\ request' \in [Requests -> {NoRequest} \cup Request] /\ Carries'
    BY <1>10, AnswerKeeps DEF Disconnect, Ops
  <2>2. q.op = "disconnect"
    BY <1>10 DEF Disconnect, Answers
  <2>3. session' \in [Bodies -> {NoSession} \cup Session]
    <3> DEFINE closed == [session[q.body] EXCEPT !.online = FALSE, !.caps = {}]
    <3>1. session' = session \/ session' = [session EXCEPT ![q.body] = closed]
      BY <1>10 DEF Disconnect
    <3>2. session' # session => session[q.body] \in Session
      BY <1>10, <2>1, <2>2, Outcomes DEF Disconnect, Request
    <3>3. session[q.body] \in Session => closed \in Session
      BY DEF Session
    <3> HIDE DEF closed
    <3> QED
      BY <3>1, <3>2, <3>3
  <2> QED
    BY <1>10, <2>1, <2>3, AdmitTypes DEF Disconnect, Answers, storeVars, StoreTypeOK
<1>11. ASSUME NEW r \in Requests, SubmitTelemetry(r) PROVE TypeInv'
  <2> DEFINE q == request[r]
  <2>1. q \in Request /\ Admit(q) /\ request' \in [Requests -> {NoRequest} \cup Request] /\ Carries'
    BY <1>11, AnswerKeeps DEF SubmitTelemetry, Ops
  <2>2. q.op = "telemetry" /\ q # NoRequest
    BY <1>11 DEF SubmitTelemetry, Answers
  <2>3. telemetry' \in [Bodies -> {NoSample} \cup Sample]
    BY <1>11, <2>1, <2>2 DEF SubmitTelemetry, Request
  <2> QED
    BY <1>11, <2>1, <2>3, AdmitTypes DEF SubmitTelemetry, Answers, storeVars, StoreTypeOK
<1>12. ASSUME NEW r \in Requests, Touch(r) PROVE TypeInv'
  <2>1. request[r] \in Request /\ request' \in [Requests -> {NoRequest} \cup Request] /\ Carries'
    BY <1>12, AnswerKeeps DEF Touch, Ops
  <2> QED
    BY <1>12, <2>1, AdmitTypes DEF Touch, Answers, storeVars, StoreTypeOK
<1>13. CASE UNCHANGED vars
  BY <1>13 DEF vars, storeVars, processVars, runtimeVars, StoreTypeOK
<1> QED
  BY <1>1, <1>2, <1>3, <1>4, <1>5, <1>6, <1>7, <1>8, <1>9, <1>10, <1>11, <1>12, <1>13
  DEF Next, Apply

\* Every state of the runtime has the declared types.
THEOREM TypeCorrect == Spec => []TypeOK
<1>1. Init => TypeInv
  BY InitInv DEF Inv
<1>2. TypeInv => TypeOK
  BY DEF TypeInv
<1> QED
  BY <1>1, <1>2, StepTypes, PTL DEF Spec

-----------------------------------------------------------------------------
(* Session ids *)

\* Only a connect and a crash touch the ids.
LEMMA IssuingSteps ==
    [Next]_vars => \/ UNCHANGED <<instance, sequence, issued>>
                   \/ Crash
                   \/ \E r \in Requests : Connect(r)
<1> SUFFICES ASSUME [Next]_vars, ~Crash, ~\E r \in Requests : Connect(r)
             PROVE  UNCHANGED <<instance, sequence, issued>>
  OBVIOUS
<1>1. CASE StoreStep
  BY <1>1 DEF StoreStep, processVars
<1>2. CASE BootReadAgents \/ BootReadNodes \/ BootReadEdges
  BY <1>2 DEF BootReadAgents, BootReadNodes, BootReadEdges
<1>3. ASSUME NEW r \in Requests, NEW q, Send(r, q) PROVE UNCHANGED <<instance, sequence, issued>>
  BY <1>3 DEF Send, processVars
<1>4. ASSUME NEW r \in Requests, ReadEdges(r) PROVE UNCHANGED <<instance, sequence, issued>>
  BY <1>4 DEF ReadEdges, processVars
<1>5. ASSUME NEW r \in Requests, UpdateCapabilities(r) \/ Disconnect(r) \/ SubmitTelemetry(r) \/ Touch(r)
      PROVE  UNCHANGED <<instance, sequence, issued>>
  BY <1>5 DEF UpdateCapabilities, Disconnect, SubmitTelemetry, Touch, Answers
<1>6. CASE UNCHANGED vars
  BY <1>6 DEF vars, processVars
<1> QED
  BY <1>1, <1>2, <1>3, <1>4, <1>5, <1>6 DEF Next, Apply, SendSome

\* NextId is new, so that handing it out keeps the ids apart.
LEMMA StepIds == TypeInv /\ Issuance /\ SessionIdsUnique /\ [Next]_vars
                    => Issuance' /\ SessionIdsUnique'
<1> SUFFICES ASSUME TypeInv, Issuance, SessionIdsUnique, [Next]_vars
             PROVE  Issuance' /\ SessionIdsUnique'
  OBVIOUS
<1> USE DEF TypeInv, TypeOK, Issuance, SessionIdsUnique, SessionId
<1>1. CASE UNCHANGED <<instance, sequence, issued>>
  BY <1>1
<1>2. CASE Crash
  BY <1>2 DEF Crash
<1>3. ASSUME NEW r \in Requests, Connect(r), issued' # issued
      PROVE  Issuance' /\ SessionIdsUnique'
  <2> DEFINE handed == [client |-> request[r].client, body |-> request[r].body, id |-> NextId]
  <2>1. issued' = issued \cup {handed} /\ sequence' = sequence + 1 /\ instance' = instance
    BY <1>3 DEF Connect, Answers
  <2>2. handed.id.instance = instance /\ handed.id.sequence = sequence + 1
    BY DEF NextId
  <2>3. \A i \in issued : i.id # handed.id
    BY <2>2
  <2> HIDE DEF handed
  <2>4. Issuance'
    BY <2>1, <2>2
  <2> QED
    BY <2>1, <2>3, <2>4
<1>4. ASSUME NEW r \in Requests, Connect(r), issued' = issued
      PROVE  Issuance' /\ SessionIdsUnique'
  BY <1>4 DEF Connect, Answers
<1> QED
  BY <1>1, <1>2, <1>3, <1>4, IssuingSteps

-----------------------------------------------------------------------------
(* The ids requests carry *)

LEMMA StepSent == TypeInv /\ SentIds /\ [Next]_vars => SentIds'
<1> SUFFICES ASSUME TypeInv, SentIds, [Next]_vars PROVE SentIds'
  OBVIOUS
<1> USE DEF TypeInv, TypeOK, SentIds
<1>0. issued \subseteq issued'
  <2>1. ASSUME NEW r \in Requests, Connect(r) PROVE issued \subseteq issued'
    BY <2>1 DEF Connect
  <2> QED
    BY <2>1, IssuingSteps DEF Crash
<1>1. CASE request' = request
  BY <1>0, <1>1
<1>2. CASE Crash
  BY <1>2 DEF Crash
<1>3. ASSUME NEW r \in Requests, request' = [request EXCEPT ![r] = NoRequest] PROVE SentIds'
  BY <1>0, <1>3
<1>4. ASSUME NEW r \in Requests, NEW q, Send(r, q),
             q.op \in {"capabilities", "disconnect", "telemetry"} =>
                 \E i \in issued : i.client = q.client /\ i.id = q.sid
      PROVE  SentIds'
  BY <1>4 DEF Send
<1>5. ASSUME NEW r \in Requests, NEW c \in Clients, NEW b \in Bodies, SendSome(r, c, b)
      PROVE  SentIds'
  <2>1. \A sid \in KnownIds(c) : \E i \in issued : i.client = c /\ i.id = sid
    BY DEF KnownIds
  <2>2. ASSUME NEW op, NEW sid, NEW caps, NEW sample,
               Send(r, NewRequest(c, op, b, sid, caps, sample)),
               op \in {"connect", "touch"} \/ sid \in KnownIds(c)
        PROVE  SentIds'
    <3> DEFINE q == NewRequest(c, op, b, sid, caps, sample)
    <3>1. q.op = op /\ q.client = c /\ q.sid = sid
      BY DEF NewRequest
    <3>2. Send(r, q)
      BY <2>2
    <3> HIDE DEF q
    <3> QED
      BY <1>4, <2>1, <2>2, <3>1, <3>2
  <2> QED
    BY <1>5, <2>2 DEF SendSome
<1>6. ASSUME NEW r \in Requests, ReadEdges(r) PROVE SentIds'
  <2> DEFINE q == request[r]
             new == [q EXCEPT !.found = Get(q.nodes, link, q.body),
                              !.nodes = NoNodes, !.stage = "apply"]
  <2>1. q \in Request /\ q # NoRequest
    BY <1>6 DEF ReadEdges
  <2>2. new.op = q.op /\ new.client = q.client /\ new.sid = q.sid
    BY <2>1 DEF Request
  <2>3. request' = [request EXCEPT ![r] = new] /\ issued' = issued
    BY <1>6 DEF ReadEdges
  <2> HIDE DEF new
  <2> QED
    BY <2>1, <2>2, <2>3
<1>7. ASSUME NEW r \in Requests, Apply(r) PROVE request' = [request EXCEPT ![r] = NoRequest]
  BY <1>7 DEF Apply, Connect, UpdateCapabilities, Disconnect, SubmitTelemetry, Touch, Answers
<1>8. CASE StoreStep \/ BootReadAgents \/ BootReadNodes \/ BootReadEdges \/ UNCHANGED vars
  BY <1>1, <1>8 DEF StoreStep, BootReadAgents, BootReadNodes, BootReadEdges, vars
<1> QED
  BY <1>2, <1>3, <1>5, <1>6, <1>7, <1>8 DEF Next

-----------------------------------------------------------------------------
(* Backing of the runtime state *)

LEMMA StepBooting == TypeInv /\ Booting /\ [Next]_vars => Booting'
<1> SUFFICES ASSUME TypeInv, Booting, [Next]_vars PROVE Booting'
  OBVIOUS
<1> USE DEF Booting
<1>1. CASE UNCHANGED <<boot, session, telemetry, request>>
  BY <1>1
<1>2. CASE Crash
  BY <1>2 DEF Crash
<1>3. CASE BootReadAgents \/ BootReadNodes \/ BootReadEdges
  BY <1>3 DEF BootReadAgents, BootReadNodes, BootReadEdges, runtimeVars
<1>4. ASSUME boot = "up", boot' = boot PROVE Booting'
  BY <1>4
<1>5. ASSUME NEW r \in Requests, NEW q, Send(r, q) PROVE boot = "up" /\ boot' = boot
  BY <1>5 DEF Send, processVars
<1>6. ASSUME NEW r \in Requests, request[r] # NoRequest PROVE boot = "up"
  BY <1>6
<1>7. ASSUME NEW r \in Requests, ReadEdges(r) PROVE boot = "up" /\ boot' = boot
  BY <1>6, <1>7 DEF ReadEdges, processVars
<1>8. ASSUME NEW r \in Requests, Apply(r) PROVE boot = "up" /\ boot' = boot
  BY <1>6, <1>8
  DEF Apply, Connect, UpdateCapabilities, Disconnect, SubmitTelemetry, Touch, Answers
<1>9. CASE StoreStep \/ UNCHANGED vars
  BY <1>1, <1>9 DEF StoreStep, processVars, runtimeVars, vars
<1> QED
  BY <1>2, <1>3, <1>4, <1>5, <1>7, <1>8, <1>9 DEF Next, SendSome

LEMMA StepBacked == TypeInv /\ Booting /\ RuntimeStateIsBacked /\ [Next]_vars => RuntimeStateIsBacked'
<1> SUFFICES ASSUME TypeInv, Booting, RuntimeStateIsBacked, [Next]_vars PROVE RuntimeStateIsBacked'
  OBVIOUS
<1> USE DEF TypeInv, TypeOK, RuntimeStateIsBacked
<1>1. CASE UNCHANGED runtimeVars
  BY <1>1 DEF runtimeVars
<1>2. CASE Crash
  BY <1>2 DEF Crash, NoSessions, NoSamples
<1>3. CASE BootReadEdges
  <2>1. session = NoSessions /\ telemetry = NoSamples
    BY <1>3 DEF BootReadEdges, Booting
  <2>2. session' = session /\ telemetry' = telemetry
    BY <1>3 DEF BootReadEdges, runtimeVars
  <2> QED
    BY <2>1, <2>2 DEF NoSessions, NoSamples
<1>4. ASSUME NEW r \in Requests, NEW op \in Ops, Answers(r, op), Admit(request[r]) PROVE
         /\ request[r] \in Request
         /\ request[r].op = op
         /\ catalog \subseteq catalog' /\ registered \subseteq registered'
         /\ Resolved(request[r]) => request[r].body \in catalog' /\ request[r].body \in registered'
  BY <1>4, AnswerKeeps, AdmitTypes DEF Answers
<1>5. ASSUME NEW r \in Requests, Connect(r) PROVE RuntimeStateIsBacked'
  <2> DEFINE q == request[r]
             opened == [id |-> NextId, online |-> TRUE, caps |-> q.caps]
  <2>1. opened \in Session /\ opened.online
    BY <1>4, <1>5 DEF Connect, Session, NextId, SessionId, Request, Ops
  <2>2. \/ UNCHANGED session
        \/ session' = [session EXCEPT ![q.body] = opened] /\ Resolved(q)
    BY <1>4, <1>5, Outcomes DEF Connect, Ops
  <2>3. telemetry' = telemetry /\ catalog \subseteq catalog' /\ registered \subseteq registered'
        /\ (Resolved(q) => q.body \in catalog' /\ q.body \in registered')
    BY <1>4, <1>5 DEF Connect, Ops
  <2> HIDE DEF opened
  <2> QED
    BY <2>1, <2>2, <2>3, NoSessionAssumption
<1>6. ASSUME NEW r \in Requests, UpdateCapabilities(r) PROVE RuntimeStateIsBacked'
  <2> DEFINE q == request[r]
             changed == [session[q.body] EXCEPT !.caps = q.caps]
  <2>1. q \in Request /\ telemetry' = telemetry /\ catalog \subseteq catalog'
        /\ registered \subseteq registered'
    BY <1>4, <1>6 DEF UpdateCapabilities, Ops
  <2>2. \/ UNCHANGED session
        \/ /\ session' = [session EXCEPT ![q.body] = changed]
           /\ session[q.body] # NoSession /\ session[q.body].online
    BY <1>4, <1>6, Outcomes DEF UpdateCapabilities, Ops
  <2>3. session[q.body] \in Session /\ session[q.body].online => changed \in Session /\ changed.online
    BY <2>1 DEF Session, Request
  <2>4. session[q.body] \in {NoSession} \cup Session
    BY <2>1 DEF Request
  <2> HIDE DEF changed
  <2> QED
    BY <2>1, <2>2, <2>3, <2>4, NoSessionAssumption DEF Request
<1>7. ASSUME NEW r \in Requests, Disconnect(r) PROVE RuntimeStateIsBacked'
  <2> DEFINE q == request[r]
             closed == [session[q.body] EXCEPT !.online = FALSE, !.caps = {}]
  <2>1. q \in Request /\ telemetry' = telemetry /\ catalog \subseteq catalog'
        /\ registered \subseteq registered'
    BY <1>4, <1>7 DEF Disconnect, Ops
  <2>2. \/ UNCHANGED session
        \/ session' = [session EXCEPT ![q.body] = closed] /\ session[q.body] # NoSession
    BY <1>4, <1>7, Outcomes DEF Disconnect, Ops
  <2>3. session[q.body] \in Session => closed \in Session /\ closed.caps = {}
    BY DEF Session
  <2>4. session[q.body] \in {NoSession} \cup Session
    BY <2>1 DEF Request
  <2> HIDE DEF closed
  <2> QED
    BY <2>1, <2>2, <2>3, <2>4, NoSessionAssumption DEF Request
<1>8. ASSUME NEW r \in Requests, SubmitTelemetry(r) PROVE RuntimeStateIsBacked'
  <2> DEFINE q == request[r]
  <2>1. q \in Request /\ session' = session /\ catalog \subseteq catalog'
        /\ registered \subseteq registered'
    BY <1>4, <1>8 DEF SubmitTelemetry, Ops
  <2>2. \/ UNCHANGED telemetry
        \/ telemetry' = [telemetry EXCEPT ![q.body] = q.sample] /\ session[q.body] # NoSession
    BY <1>4, <1>8, Outcomes DEF SubmitTelemetry, Ops
  <2> QED
    BY <2>1, <2>2 DEF Request
<1>9. ASSUME NEW r \in Requests, Touch(r) PROVE RuntimeStateIsBacked'
  BY <1>4, <1>9 DEF Touch, Ops
<1>10. ASSUME NEW r \in Requests, NEW q, Send(r, q) PROVE UNCHANGED runtimeVars
  BY <1>10 DEF Send
<1>11. ASSUME NEW r \in Requests, ReadEdges(r) PROVE UNCHANGED runtimeVars
  BY <1>11 DEF ReadEdges
<1>12. CASE StoreStep \/ BootReadAgents \/ BootReadNodes \/ UNCHANGED vars
  BY <1>1, <1>12 DEF StoreStep, BootReadAgents, BootReadNodes, vars
<1> QED
  BY <1>1, <1>2, <1>3, <1>5, <1>6, <1>7, <1>8, <1>9, <1>10, <1>11, <1>12
  DEF Next, Apply, SendSome

LEMMA Invariance == Spec => []Inv
<1>1. Inv /\ [Next]_vars => Inv'
  BY StepTypes, StepIds, StepSent, StepBooting, StepBacked DEF Inv
<1> QED
  BY <1>1, InitInv, PTL DEF Spec

\* No session id is handed out twice, not even after a restart: the process's
\* token and the counter order all ids.
THEOREM UniqueIds == Spec => []SessionIdsUnique
<1>1. Inv => SessionIdsUnique
  BY DEF Inv
<1> QED
  BY <1>1, Invariance, PTL

\* Sessions and samples exist only for bodies that were resolved.
THEOREM Backed == Spec => []RuntimeStateIsBacked
<1>1. Inv => RuntimeStateIsBacked
  BY DEF Inv
<1> QED
  BY <1>1, Invariance, PTL

\* Types, unique ids and resolved bodies together.
THEOREM Soundness == Spec => []RuntimeIsSound
<1>1. TypeOK /\ SessionIdsUnique /\ RuntimeStateIsBacked => RuntimeIsSound
  BY DEF RuntimeIsSound
<1> QED
  BY <1>1, TypeCorrect, UniqueIds, Backed, PTL

-----------------------------------------------------------------------------
(* What a step may do to a body's session and sample *)

\* A request that passes _require_current comes from the session's holder.
LEMMA HolderAnswers ==
    ASSUME Inv, NEW r \in Requests, request[r] # NoRequest,
           request[r].op \in {"capabilities", "disconnect", "telemetry"},
           session[request[r].body] # NoSession,
           request[r].sid = session[request[r].body].id
    PROVE  request[r].client = Holder(request[r].body)
<1> DEFINE sid == request[r].sid
<1>1. PICK i \in issued : i.client = request[r].client /\ i.id = sid
  BY DEF Inv, SentIds
<1>2. \A j \in issued : j.id = sid => j = i
  BY <1>1 DEF Inv, SessionIdsUnique
<1>3. (CHOOSE j \in issued : j.id = sid) = i
  BY <1>1, <1>2
<1> QED
  BY <1>1, <1>3 DEF Holder

\* _require_current compares the id that was sent with the current one.
LEMMA AdmittedIsCurrent ==
    ASSUME NEW q \in Request, q.op \in {"capabilities", "disconnect", "telemetry"},
           Outcome(q) \in {"ok", "accepted"}
    PROVE  session[q.body] # NoSession /\ q.sid = session[q.body].id
  BY DEF Outcome, RequireCurrent, Request

\* Everything but connects, a crash and the requests that passed leaves the
\* sessions and samples alone.
LEMMA ChangingSteps ==
    ASSUME Inv, [Next]_vars
    PROVE  \/ UNCHANGED <<session, telemetry>>
           \/ instance' # instance
           \/ \E r \in Requests :
                /\ request[r] \in Request /\ request[r] # NoRequest /\ request'[r] = NoRequest
                /\ \A b \in Bodies : b # request[r].body =>
                      session'[b] = session[b] /\ telemetry'[b] = telemetry[b]
                /\ \/ request[r].op = "connect"
                   \/ /\ request[r].op \in {"capabilities", "disconnect", "telemetry"}
                      /\ Outcome(request[r]) \in {"ok", "accepted"}
<1> USE DEF Inv, TypeInv, TypeOK
<1>1. CASE Crash
  BY <1>1 DEF Crash
<1>2. CASE StoreStep \/ BootReadAgents \/ BootReadNodes \/ BootReadEdges \/ UNCHANGED vars
  BY <1>2 DEF StoreStep, BootReadAgents, BootReadNodes, BootReadEdges, runtimeVars, vars
<1>3. ASSUME NEW r \in Requests, NEW q, Send(r, q) PROVE UNCHANGED <<session, telemetry>>
  BY <1>3 DEF Send, runtimeVars
<1>4. ASSUME NEW r \in Requests, ReadEdges(r) PROVE UNCHANGED <<session, telemetry>>
  BY <1>4 DEF ReadEdges, runtimeVars
<1>5. ASSUME NEW r \in Requests, NEW op \in Ops, Answers(r, op)
      PROVE  request[r] \in Request /\ request[r] # NoRequest /\ request'[r] = NoRequest
             /\ request[r].op = op
  BY <1>5 DEF Answers
<1>6. ASSUME NEW r \in Requests, Touch(r) PROVE UNCHANGED <<session, telemetry>>
  BY <1>6 DEF Touch
<1>7. ASSUME NEW r \in Requests,
             Connect(r) \/ UpdateCapabilities(r) \/ Disconnect(r) \/ SubmitTelemetry(r)
      PROVE  \A b \in Bodies : b # request[r].body =>
                      session'[b] = session[b] /\ telemetry'[b] = telemetry[b]
  BY <1>7 DEF Connect, UpdateCapabilities, Disconnect, SubmitTelemetry
<1>8. ASSUME NEW r \in Requests, UpdateCapabilities(r) \/ Disconnect(r) \/ SubmitTelemetry(r)
      PROVE  \/ UNCHANGED <<session, telemetry>>
             \/ Outcome(request[r]) \in {"ok", "accepted"}
  BY <1>8 DEF UpdateCapabilities, Disconnect, SubmitTelemetry
<1>9. ASSUME NEW r \in Requests
      PROVE  /\ Connect(r) => Answers(r, "connect")
             /\ UpdateCapabilities(r) => Answers(r, "capabilities")
             /\ Disconnect(r) => Answers(r, "disconnect")
             /\ SubmitTelemetry(r) => Answers(r, "telemetry")
  BY DEF Connect, UpdateCapabilities, Disconnect, SubmitTelemetry
<1>10. CASE \E r \in Requests : Connect(r)
  BY <1>5, <1>7, <1>9, <1>10 DEF Ops
<1>11. CASE \E r \in Requests : UpdateCapabilities(r) \/ Disconnect(r) \/ SubmitTelemetry(r)
  BY <1>5, <1>7, <1>8, <1>9, <1>11 DEF Ops
<1>12. CASE \E r \in Requests : ReadEdges(r) \/ Touch(r)
  BY <1>4, <1>6, <1>12
<1>13. CASE \E r \in Requests, c \in Clients, b \in Bodies : SendSome(r, c, b)
  BY <1>3, <1>13 DEF SendSome
<1> QED
  BY <1>1, <1>2, <1>10, <1>11, <1>12, <1>13 DEF Next, Apply

\* However late a request is applied, it changes a body's session or sample
\* only as a connect or for the client that holds the current session.
THEOREM HolderOnly == Spec => OnlyHolderActs
<1> DEFINE Act == instance' = instance =>
          \A b \in Bodies :
            session'[b] # session[b] \/ telemetry'[b] # telemetry[b] =>
              \E r \in Requests :
                /\ request[r] # NoRequest
                /\ request'[r] = NoRequest
                /\ request[r].body = b
                /\ request[r].op = "connect" \/ request[r].client = Holder(b)
<1>1. Inv /\ [Next]_vars => [Act]_vars
  <2> SUFFICES ASSUME Inv, [Next]_vars, instance' = instance, NEW b \in Bodies,
                      session'[b] # session[b] \/ telemetry'[b] # telemetry[b]
               PROVE  \E r \in Requests :
                        /\ request[r] # NoRequest
                        /\ request'[r] = NoRequest
                        /\ request[r].body = b
                        /\ request[r].op = "connect" \/ request[r].client = Holder(b)
    OBVIOUS
  <2>1. PICK r \in Requests :
                /\ request[r] \in Request /\ request[r] # NoRequest /\ request'[r] = NoRequest
                /\ request[r].body = b
                /\ \/ request[r].op = "connect"
                   \/ /\ request[r].op \in {"capabilities", "disconnect", "telemetry"}
                      /\ Outcome(request[r]) \in {"ok", "accepted"}
    BY ChangingSteps
  <2>2. request[r].op = "connect" \/ request[r].client = Holder(b)
    BY <2>1, AdmittedIsCurrent, HolderAnswers
  <2> QED
    BY <2>1, <2>2
<1> QED
  BY <1>1, Invariance, PTL DEF Spec, OnlyHolderActs

\* Within a process a body's sample only moves to a later measurement.
THEOREM SampleOrder == Spec => TelemetryAdvances
<1> DEFINE Act == instance' = instance =>
          \A b \in Bodies :
            telemetry'[b] # telemetry[b] =>
              telemetry[b] = NoSample \/ telemetry'[b].at > telemetry[b].at
<1>1. Inv /\ [Next]_vars => [Act]_telemetry
  <2> SUFFICES ASSUME Inv, [Next]_vars, instance' = instance, NEW b \in Bodies,
                      telemetry'[b] # telemetry[b]
               PROVE  telemetry[b] = NoSample \/ telemetry'[b].at > telemetry[b].at
    OBVIOUS
  <2> USE DEF Inv, TypeInv, TypeOK
  <2>1. ASSUME NEW r \in Requests, SubmitTelemetry(r)
        PROVE  telemetry[b] = NoSample \/ telemetry'[b].at > telemetry[b].at
    <3> DEFINE q == request[r]
    <3>1. q \in Request /\ q.op = "telemetry" /\ q.sample \in Sample
      BY <2>1 DEF SubmitTelemetry, Answers, Carries
    <3>2. Outcome(q) = "accepted" /\ telemetry' = [telemetry EXCEPT ![q.body] = q.sample]
      BY <2>1 DEF SubmitTelemetry
    <3>3. b = q.body
      BY <3>2
    <3>4. NewerSample(telemetry[b], q.sample)
      BY <3>1, <3>2, <3>3, Outcomes
    <3> QED
      BY <3>1, <3>2, <3>3, <3>4 DEF NewerSample
  <2>2. ASSUME NEW r \in Requests, NEW q, Send(r, q) PROVE FALSE
    BY <2>2 DEF Send, runtimeVars
  <2>3. ASSUME NEW r \in Requests,
               ReadEdges(r) \/ Connect(r) \/ UpdateCapabilities(r) \/ Disconnect(r) \/ Touch(r)
        PROVE  FALSE
    BY <2>3 DEF ReadEdges, Connect, UpdateCapabilities, Disconnect, Touch, runtimeVars
  <2>4. CASE StoreStep \/ BootReadAgents \/ BootReadNodes \/ BootReadEdges \/ UNCHANGED vars
    BY <2>4 DEF StoreStep, BootReadAgents, BootReadNodes, BootReadEdges, runtimeVars, vars
  <2>5. CASE Crash
    BY <2>5 DEF Crash
  <2> QED
    BY <2>1, <2>2, <2>3, <2>4, <2>5 DEF Next, Apply, SendSome
<1> QED
  BY <1>1, Invariance, PTL DEF Spec, TelemetryAdvances

=============================================================================
