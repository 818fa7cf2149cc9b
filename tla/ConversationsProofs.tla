------------------------- MODULE ConversationsProofs -------------------------
(***************************************************************************)
(* Ownership of conversations for any number of persons, conversations and *)
(* requests in flight.                                                     *)
(***************************************************************************)
EXTENDS Conversations, TLAPS

\* A request past its first read carries a record.
HasLoaded(q) == q.stage \notin {"create", "greet", "get"} => q.loaded \in Record

TypeInv == TypeOK /\ \A r \in Requests : request[r] # NoRequest => HasLoaded(request[r])

\* What the record table, the copies in flight and the requests themselves have
\* in common: they belong to the one person the conversation was created for.
CopiesOwned ==
    \A r \in Requests :
        request[r] # NoRequest /\ request[r].stage \notin {"create", "greet", "get"} =>
            request[r].loaded.person \in owner[request[r].chat]
OneOwner == \A k \in Chats : \A p, q \in owner[k] : p = q

Inv == TypeInv /\ OwnerOnly /\ CopiesOwned /\ OneOwner

LEMMA InitInv == Init => Inv
  BY ConversationAssumption
  DEF Init, Inv, TypeInv, TypeOK, OwnerOnly, CopiesOwned, OneOwner

\* A request keeps its type when its stage changes.
LEMMA StageTypes ==
    ASSUME NEW q \in Request, NEW s \in Stages
    PROVE  [q EXCEPT !.stage = s] \in Request
  BY DEF Request

LEMMA StepTypes == TypeInv /\ [Next]_vars => TypeInv'
<1> SUFFICES ASSUME TypeInv, [Next]_vars PROVE TypeInv'
  OBVIOUS
<1> USE DEF TypeInv, TypeOK, HasLoaded, ghosts
<1>1. ASSUME NEW r \in Requests, NEW op \in Ops, NEW k \in Chats, NEW p \in Persons,
             NEW b \in Bodies \cup {NoBody}, Send(r, op, k, p, b)
      PROVE  TypeInv'
  <2> DEFINE new == [op |-> op, chat |-> k, person |-> p, turn |-> turns + 1, body |-> b,
                     stage |-> IF op = "create" THEN "create" ELSE "get",
                     loaded |-> NoRecord, history |-> {}, answered |-> FALSE]
  <2>1. turns + 1 \in 0..MaxTurns
    BY <1>1, ConversationAssumption DEF Send
  <2>2. new \in Request /\ new.stage \in {"create", "get"}
    BY <2>1 DEF Request, Stages
  <2>3. request' = [request EXCEPT ![r] = new]
    BY <1>1 DEF Send
  <2>4. owner' \in [Chats -> SUBSET Persons] /\ overlapped' \in SUBSET Chats
    BY <1>1 DEF Send
  <2>5. /\ turns' = turns + 1 /\ record' = record /\ messages' = messages
        /\ cut' = cut /\ deleted' = deleted
    BY <1>1 DEF Send
  <2>6. HasLoaded(new)
    BY <2>2
  <2> HIDE DEF new
  <2>7. request' \in [Requests -> {NoRequest} \cup Request]
    BY <2>2, <2>3
  <2>8. \A t \in Requests : request'[t] # NoRequest => HasLoaded(request'[t])
    BY <2>3, <2>6
  <2> QED
    BY <2>1, <2>4, <2>5, <2>7, <2>8
<1>2. ASSUME NEW r \in Requests, request[r] # NoRequest, Done(r)
      PROVE  /\ request' \in [Requests -> {NoRequest} \cup Request]
             /\ \A s \in Requests : request'[s] # NoRequest => HasLoaded(request'[s])
  BY <1>2 DEF Done
<1>3. ASSUME NEW r \in Requests, request[r] # NoRequest, NEW s \in Stages, Goto(r, s),
             s \in {"greet"} \/ request[r].stage \notin {"create", "greet", "get"}
      PROVE  /\ request' \in [Requests -> {NoRequest} \cup Request]
             /\ \A t \in Requests : request'[t] # NoRequest => HasLoaded(request'[t])
  <2>1. request' = [request EXCEPT ![r] = [request[r] EXCEPT !.stage = s]]
    BY <1>3 DEF Goto
  <2>2. request[r] \in Request
    BY <1>3
  <2>3. [request[r] EXCEPT !.stage = s] \in Request
    BY <2>2, StageTypes
  <2>4. /\ [request[r] EXCEPT !.stage = s].stage = s
        /\ [request[r] EXCEPT !.stage = s].loaded = request[r].loaded
    BY <2>2 DEF Request
  <2> QED
    BY <1>3, <2>1, <2>3, <2>4
<1>4. ASSUME NEW r \in Requests, Fail(r) PROVE TypeInv'
  BY <1>2, <1>4 DEF Fail, Request
<1>5. ASSUME NEW r \in Requests, Create(r) PROVE TypeInv'
  <2>1. request[r] # NoRequest /\ request[r] \in Request
    BY <1>5 DEF Create, At
  <2>2. [person |-> request[r].person, active |-> NoBody, title |-> 0] \in Record
    BY <2>1, ConversationAssumption DEF Request, Record
  <2>3. record' \in [Chats -> {NoRecord} \cup Record]
    BY <1>5, <2>1, <2>2 DEF Create, Request
  <2> QED
    BY <1>2, <1>3, <1>5, <2>1, <2>3 DEF Create, Stages
<1>6. ASSUME NEW r \in Requests, Greet(r) PROVE TypeInv'
  <2>1. request[r] # NoRequest /\ request[r] \in Request
    BY <1>6 DEF Greet, At
  <2>2. [chat |-> request[r].chat, turn |-> 0, role |-> "assistant"] \in Message
    BY <2>1, ConversationAssumption DEF Request, Message
  <2> QED
    BY <1>2, <1>6, <2>1, <2>2 DEF Greet
<1>7. ASSUME NEW r \in Requests, Get(r) PROVE TypeInv'
  <2>1. request[r] # NoRequest /\ request[r] \in Request /\ request[r].chat \in Chats
    BY <1>7 DEF Get, At, Request
  <2>2. CASE record[request[r].chat] = NoRecord
    BY <1>2, <1>7, <2>1, <2>2 DEF Get, Keeps
  <2>3. CASE record[request[r].chat] # NoRecord
    <3>1. record[request[r].chat] \in Record
      BY <2>1, <2>3
    <3> DEFINE new == [request[r] EXCEPT !.stage = "messages", !.loaded = record[request[r].chat]]
    <3>2. new \in Request /\ new.loaded \in Record
      BY <2>1, <3>1 DEF Request, Stages
    <3>3. request' = [request EXCEPT ![r] = new]
      BY <1>7, <2>3 DEF Get
    <3> HIDE DEF new
    <3> QED
      BY <1>7, <3>2, <3>3 DEF Get, Keeps
  <2> QED
    BY <2>2, <2>3
<1>8. ASSUME NEW r \in Requests, GetMessages(r) PROVE TypeInv'
  <2>1. /\ request[r] # NoRequest /\ request[r] \in Request
        /\ request[r].loaded \in Record
    BY <1>8 DEF GetMessages, At
  <2>2. CASE request[r].loaded.person # request[r].person
    BY <1>2, <1>8, <2>1, <2>2 DEF GetMessages, Keeps
  <2>3. CASE request[r].loaded.person = request[r].person
    <3> DEFINE history == IF request[r].op = "post" THEN MessagesOf(request[r].chat) ELSE {}
               stage == IF request[r].op = "delete" THEN "delete_load" ELSE "validate"
               new == [request[r] EXCEPT !.history = history, !.stage = stage]
    <3>1. history \in SUBSET Message /\ stage \in Stages
      BY DEF MessagesOf, Stages
    <3>2. request' = [request EXCEPT ![r] = new]
      BY <1>8, <2>3 DEF GetMessages
    <3> HIDE DEF history, stage
    <3>3. new \in Request /\ new.loaded \in Record
      BY <2>1, <3>1 DEF Request
    <3> HIDE DEF new
    <3> QED
      BY <1>8, <3>2, <3>3 DEF GetMessages, Keeps
  <2> QED
    BY <2>2, <2>3
<1>9. ASSUME NEW r \in Requests, Validate(r) PROVE TypeInv'
  <2>1. request[r] # NoRequest /\ request[r].stage = "validate"
    BY <1>9 DEF Validate, At
  <2>2. CASE Done(r)
    BY <1>2, <1>9, <2>1, <2>2 DEF Validate, Keeps
  <2>3. CASE Goto(r, IF request[r].op = "select" THEN "select_load" ELSE "append_load")
    BY <1>3, <1>9, <2>1, <2>3 DEF Validate, Keeps, Stages
  <2> QED
    BY <1>9, <2>2, <2>3 DEF Validate
<1>10. ASSUME NEW r \in Requests, Load(r) PROVE TypeInv'
  <2>1. request[r] # NoRequest /\ request[r] \in Request /\ request[r].chat \in Chats
    BY <1>10 DEF Load, Request
  <2>2. CASE record[request[r].chat] = NoRecord
    BY <1>2, <1>10, <2>1, <2>2 DEF Load, Keeps
  <2>3. CASE record[request[r].chat] # NoRecord
    <3> DEFINE next == CASE request[r].stage = "select_load" -> "select_save"
                         [] request[r].stage = "delete_load" -> "delete_messages"
                         [] request[r].stage = "append_load" -> "append_write"
                         [] request[r].stage = "persist_load" -> "persist_write"
               new == [request[r] EXCEPT !.stage = next, !.loaded = record[request[r].chat]]
    <3>1. record[request[r].chat] \in Record
      BY <2>1, <2>3
    <3>2. next \in Stages
      BY <1>10 DEF Load, Stages
    <3>3. request' = [request EXCEPT ![r] = new]
      BY <1>10, <2>3 DEF Load
    <3> HIDE DEF next
    <3>4. new \in Request /\ new.loaded \in Record
      BY <2>1, <3>1, <3>2 DEF Request
    <3> HIDE DEF new
    <3> QED
      BY <1>10, <3>3, <3>4 DEF Load, Keeps
  <2> QED
    BY <2>2, <2>3
<1>11. ASSUME NEW r \in Requests, SaveSelection(r) PROVE TypeInv'
  <2>1. /\ request[r] # NoRequest /\ request[r] \in Request
        /\ request[r].loaded \in Record
    BY <1>11 DEF SaveSelection, At
  <2>2. [request[r].loaded EXCEPT !.active = request[r].body] \in Record
    BY <2>1 DEF Request, Record
  <2>3. record' \in [Chats -> {NoRecord} \cup Record]
    BY <1>11, <2>1, <2>2 DEF SaveSelection, Request
  <2> QED
    BY <1>2, <1>11, <2>1, <2>3 DEF SaveSelection
<1>12. ASSUME NEW r \in Requests, DeleteMessages(r) PROVE TypeInv'
  <2>1. request[r] # NoRequest /\ request[r].stage = "delete_messages"
    BY <1>12 DEF DeleteMessages, At
  <2> QED
    BY <1>3, <1>12, <2>1 DEF DeleteMessages, Stages
<1>13. ASSUME NEW r \in Requests, DeleteRecord(r) PROVE TypeInv'
  BY <1>2, <1>13 DEF DeleteRecord, At, Request
<1>14. ASSUME NEW r \in Requests, WriteUser(r) PROVE TypeInv'
  <2>1. /\ request[r] # NoRequest /\ request[r] \in Request
        /\ request[r].loaded \in Record
    BY <1>14 DEF WriteUser, At
  <2>2. Said(request[r], "user") \in Message
    BY <2>1 DEF Said, Request, Message
  <2> DEFINE new == [request[r] EXCEPT !.stage = "append_save",
                                       !.history = @ \cup {Said(request[r], "user")}]
  <2>3. request' = [request EXCEPT ![r] = new]
    BY <1>14 DEF WriteUser
  <2>4. new \in Request /\ new.loaded \in Record
    BY <2>1, <2>2 DEF Request, Stages
  <2> HIDE DEF new
  <2> QED
    BY <1>14, <2>2, <2>3, <2>4 DEF WriteUser
<1>15. ASSUME NEW r \in Requests, SaveUser(r) PROVE TypeInv'
  <2>1. /\ request[r] # NoRequest /\ request[r] \in Request
        /\ request[r].loaded \in Record /\ request[r].stage = "append_save"
    BY <1>15 DEF SaveUser, At
  <2>2. Saved(request[r], Title(request[r])) \in Record
    BY <2>1 DEF Saved, Title, Request, Record
  <2>3. record' \in [Chats -> {NoRecord} \cup Record]
    BY <1>15, <2>1, <2>2 DEF SaveUser, Request
  <2> QED
    BY <1>3, <1>15, <2>1, <2>3 DEF SaveUser, Stages
<1>16. ASSUME NEW r \in Requests, Token(r) PROVE TypeInv'
  <2>1. /\ request[r] # NoRequest /\ request[r] \in Request
        /\ request[r].loaded \in Record
    BY <1>16 DEF Token, At
  <2> DEFINE new == [request[r] EXCEPT !.answered = TRUE]
  <2>2. request' = [request EXCEPT ![r] = new]
    BY <1>16 DEF Token
  <2>3. new \in Request /\ new.loaded \in Record
    BY <2>1 DEF Request
  <2> HIDE DEF new
  <2> QED
    BY <1>16, <2>2, <2>3 DEF Token, Keeps
<1>17. ASSUME NEW r \in Requests, EndAnswer(r) PROVE TypeInv'
  <2>1. request[r] # NoRequest /\ request[r].stage = "answer"
    BY <1>17 DEF EndAnswer, At
  <2> QED
    BY <1>2, <1>3, <1>17, <2>1 DEF EndAnswer, Keeps, Stages
<1>18. ASSUME NEW r \in Requests, WriteAnswer(r) PROVE TypeInv'
  <2>1. /\ request[r] # NoRequest /\ request[r] \in Request
        /\ request[r].stage = "persist_write"
    BY <1>18 DEF WriteAnswer, At
  <2>2. Said(request[r], "assistant") \in Message
    BY <2>1 DEF Said, Request, Message
  <2> QED
    BY <1>3, <1>18, <2>1, <2>2 DEF WriteAnswer, Stages
<1>19. ASSUME NEW r \in Requests, SaveAnswer(r) PROVE TypeInv'
  <2>1. /\ request[r] # NoRequest /\ request[r] \in Request
        /\ request[r].loaded \in Record
    BY <1>19 DEF SaveAnswer, At
  <2>2. Saved(request[r], request[r].loaded.title) \in Record
    BY <2>1 DEF Saved, Request, Record
  <2>3. record' \in [Chats -> {NoRecord} \cup Record]
    BY <1>19, <2>1, <2>2 DEF SaveAnswer, Request
  <2> QED
    BY <1>2, <1>19, <2>1, <2>3 DEF SaveAnswer
<1>20. CASE UNCHANGED vars
  BY <1>20 DEF vars
<1> QED
  BY <1>1, <1>4, <1>5, <1>6, <1>7, <1>8, <1>9, <1>10, <1>11, <1>12, <1>13, <1>14,
     <1>15, <1>16, <1>17, <1>18, <1>19, <1>20
  DEF Next, Step

\* Every state of the routes and the store has the declared types.
THEOREM TypeCorrect == Spec => []TypeOK
<1>1. Init => TypeInv
  BY InitInv DEF Inv
<1>2. TypeInv => TypeOK
  BY DEF TypeInv
<1> QED
  BY <1>1, <1>2, StepTypes, PTL DEF Spec

-----------------------------------------------------------------------------
(* Ownership *)

\* A step that leaves the owners alone keeps ownership if the record it writes
\* and the request it moves are owned.
Owned == OwnerOnly /\ CopiesOwned /\ OneOwner

LEMMA StepOwned == TypeInv /\ TypeInv' /\ Owned /\ [Next]_vars => Owned'
<1> SUFFICES ASSUME TypeInv, TypeInv', Owned, [Next]_vars PROVE Owned'
  OBVIOUS
<1> USE DEF Owned, OwnerOnly, CopiesOwned, OneOwner
<1>1. ASSUME NEW r \in Requests, NEW op \in Ops, NEW k \in Chats, NEW p \in Persons,
             NEW b \in Bodies \cup {NoBody}, Send(r, op, k, p, b)
      PROVE  Owned'
  <2>0. request \in [Requests -> {NoRequest} \cup Request] /\ owner \in [Chats -> SUBSET Persons]
        /\ record \in [Chats -> {NoRecord} \cup Record]
    BY DEF TypeInv, TypeOK
  <2>1. /\ request'[r].stage \in {"create", "get"} /\ request'[r].chat = k
        /\ request'[r].person = p
        /\ request'[r].stage = "create" => op = "create"
        /\ \A s \in Requests \ {r} : request'[s] = request[s]
    BY <1>1, <2>0 DEF Send
  <2>2. record' = record
    BY <1>1 DEF Send
  <2>3. CASE op = "create"
    <3>1. owner[k] = {} /\ owner' = [owner EXCEPT ![k] = {p}]
      BY <1>1, <2>3 DEF Send
    <3>2. \A s \in Requests : request[s] # NoRequest => request[s].chat \in Chats
      BY <2>0 DEF Request
    <3>3. \A j \in Chats : owner[j] \subseteq owner'[j]
      BY <2>0, <3>1
    <3>4. OwnerOnly'
      BY <2>0, <2>1, <2>2, <3>1, <3>2, <3>3
    <3>5. CopiesOwned'
      BY <2>0, <2>1, <3>2, <3>3
    <3>6. OneOwner'
      BY <2>0, <3>1
    <3> QED
      BY <3>4, <3>5, <3>6
  <2>4. CASE op # "create"
    <3>1. owner' = owner
      BY <1>1, <2>4 DEF Send
    <3> QED
      BY <2>1, <2>2, <2>4, <3>1
  <2> QED
    BY <2>3, <2>4
<1>2. ASSUME NEW r \in Requests, request[r] # NoRequest, Done(r), owner' = owner,
             \A k \in Chats : record'[k] # NoRecord => record'[k].person \in owner[k]
      PROVE  Owned'
  BY <1>2 DEF Done, TypeInv, TypeOK
<1>3. ASSUME NEW r \in Requests, request[r] # NoRequest, owner' = owner,
             \A k \in Chats : record'[k] # NoRecord => record'[k].person \in owner[k],
             \A s \in Requests \ {r} : request'[s] = request[s],
             request'[r].chat = request[r].chat,
             request'[r].person = request[r].person,
             request'[r].stage \notin {"get", "messages"} => request[r].person \in owner[request[r].chat],
             request'[r].stage \notin {"create", "greet", "get"} =>
                 request'[r].loaded.person \in owner[request[r].chat]
      PROVE  Owned'
  BY <1>3 DEF TypeInv, TypeOK
<1>4. ASSUME NEW r \in Requests, request[r] # NoRequest
      PROVE  /\ request[r] \in Request /\ request[r].chat \in Chats
             /\ request \in [Requests -> {NoRequest} \cup Request]
             /\ record \in [Chats -> {NoRecord} \cup Record]
  BY <1>4 DEF TypeInv, TypeOK, Request
<1>5. ASSUME NEW r \in Requests, request[r] # NoRequest, NEW s \in Stages, Goto(r, s)
      PROVE  /\ \A t \in Requests \ {r} : request'[t] = request[t]
             /\ request'[r].chat = request[r].chat
             /\ request'[r].person = request[r].person
             /\ request'[r].loaded = request[r].loaded
             /\ request'[r].stage = s
  BY <1>4, <1>5 DEF Goto, Request
<1>6. ASSUME NEW r \in Requests, Fail(r) PROVE Owned'
  BY <1>2, <1>6 DEF Fail
<1>7. ASSUME NEW r \in Requests, Create(r) PROVE Owned'
  <2>1. request[r] # NoRequest /\ request[r].stage = "create"
    BY <1>7 DEF Create, At
  <2>2. request[r].person \in owner[request[r].chat]
    BY <2>1
  <2>3. owner' = owner /\ \A k \in Chats : record'[k] # NoRecord => record'[k].person \in owner[k]
    BY <1>4, <1>7, <2>1, <2>2 DEF Create
  <2>4. CASE Done(r)
    BY <1>2, <2>1, <2>3, <2>4
  <2>5. CASE Goto(r, "greet")
    <3>1. /\ \A t \in Requests \ {r} : request'[t] = request[t]
          /\ request'[r].chat = request[r].chat
          /\ request'[r].person = request[r].person
          /\ request'[r].stage = "greet"
      BY <1>5, <2>1, <2>5 DEF Stages
    <3> QED
      BY <1>3, <2>1, <2>2, <2>3, <3>1
  <2> QED
    BY <1>7, <2>4, <2>5 DEF Create
<1>8. ASSUME NEW r \in Requests, Greet(r) PROVE Owned'
  BY <1>2, <1>8 DEF Greet, At
<1>9. ASSUME NEW r \in Requests, Get(r) PROVE Owned'
  <2>1. request[r] # NoRequest /\ owner' = owner /\ record' = record
    BY <1>9 DEF Get, At, Keeps
  <2>2. CASE record[request[r].chat] = NoRecord
    BY <1>2, <1>9, <2>1, <2>2 DEF Get
  <2>3. CASE record[request[r].chat] # NoRecord
    <3>1. /\ \A t \in Requests \ {r} : request'[t] = request[t]
          /\ request'[r].chat = request[r].chat
          /\ request'[r].person = request[r].person
          /\ request'[r].stage = "messages"
          /\ request'[r].loaded = record[request[r].chat]
      BY <1>4, <1>9, <2>1, <2>3 DEF Get, Request
    <3>2. record[request[r].chat].person \in owner[request[r].chat]
      BY <1>4, <2>1, <2>3
    <3> QED
      BY <1>3, <2>1, <3>1, <3>2
  <2> QED
    BY <2>2, <2>3
<1>10. ASSUME NEW r \in Requests, GetMessages(r) PROVE Owned'
  <2>1. /\ request[r] # NoRequest /\ request[r].stage = "messages"
        /\ owner' = owner /\ record' = record
    BY <1>10 DEF GetMessages, At, Keeps
  <2>2. CASE request[r].loaded.person # request[r].person
    BY <1>2, <1>10, <2>1, <2>2 DEF GetMessages
  <2>3. CASE request[r].loaded.person = request[r].person
    <3>1. /\ \A t \in Requests \ {r} : request'[t] = request[t]
          /\ request'[r].chat = request[r].chat
          /\ request'[r].person = request[r].person
          /\ request'[r].loaded = request[r].loaded
      BY <1>4, <1>10, <2>1, <2>3 DEF GetMessages, Request
    <3>2. request[r].loaded.person \in owner[request[r].chat]
      BY <2>1
    <3> QED
      BY <1>3, <2>1, <2>3, <3>1, <3>2
  <2> QED
    BY <2>2, <2>3
<1>11. ASSUME NEW r \in Requests, request[r] # NoRequest, NEW s \in Stages, Goto(r, s),
              request[r].stage \notin {"create", "greet", "get", "messages"},
              owner' = owner,
              \A k \in Chats : record'[k] # NoRecord => record'[k].person \in owner[k]
       PROVE  Owned'
  <2>1. /\ \A t \in Requests \ {r} : request'[t] = request[t]
        /\ request'[r].chat = request[r].chat
        /\ request'[r].person = request[r].person
        /\ request'[r].loaded = request[r].loaded
    BY <1>5, <1>11
  <2>2. /\ request[r].person \in owner[request[r].chat]
        /\ request[r].loaded.person \in owner[request[r].chat]
    BY <1>11
  <2> QED
    BY <1>3, <1>11, <2>1, <2>2
<1>12. ASSUME NEW r \in Requests, Validate(r) PROVE Owned'
  <2>1. request[r] # NoRequest /\ request[r].stage = "validate" /\ owner' = owner /\ record' = record
    BY <1>12 DEF Validate, At, Keeps
  <2> QED
    BY <1>2, <1>11, <1>12, <2>1 DEF Validate, Stages
<1>13. ASSUME NEW r \in Requests, Load(r) PROVE Owned'
  <2>1. /\ request[r] # NoRequest /\ owner' = owner /\ record' = record
        /\ request[r].stage \in {"select_load", "delete_load", "append_load", "persist_load"}
    BY <1>13 DEF Load, Keeps
  <2>2. CASE record[request[r].chat] = NoRecord
    BY <1>2, <1>13, <2>1, <2>2 DEF Load
  <2>3. CASE record[request[r].chat] # NoRecord
    <3>1. /\ \A t \in Requests \ {r} : request'[t] = request[t]
          /\ request'[r].chat = request[r].chat
          /\ request'[r].person = request[r].person
          /\ request'[r].loaded = record[request[r].chat]
      BY <1>4, <1>13, <2>1, <2>3 DEF Load, Request
    <3>2. record[request[r].chat].person \in owner[request[r].chat]
      BY <1>4, <2>1, <2>3
    <3>3. request[r].person \in owner[request[r].chat]
      BY <2>1
    <3> QED
      BY <1>3, <2>1, <3>1, <3>2, <3>3
  <2> QED
    BY <2>2, <2>3
<1>14. ASSUME NEW r \in Requests, request[r] # NoRequest, NEW rec,
              record' = [record EXCEPT ![request[r].chat] = rec],
              rec # NoRecord => rec.person \in owner[request[r].chat]
       PROVE  \A k \in Chats : record'[k] # NoRecord => record'[k].person \in owner[k]
  BY <1>4, <1>14
<1>15. ASSUME NEW r \in Requests, SaveSelection(r) PROVE Owned'
  <2>1. request[r] # NoRequest /\ request[r].stage = "select_save" /\ owner' = owner
    BY <1>15 DEF SaveSelection, At
  <2>2. request[r].loaded \in Record /\ request[r].loaded.person \in owner[request[r].chat]
    BY <2>1 DEF TypeInv, HasLoaded
  <2>3. [request[r].loaded EXCEPT !.active = request[r].body].person = request[r].loaded.person
    BY <2>2 DEF Record
  <2>4. \A k \in Chats : record'[k] # NoRecord => record'[k].person \in owner[k]
    BY <1>14, <1>15, <2>1, <2>2, <2>3 DEF SaveSelection
  <2> QED
    BY <1>2, <1>15, <2>1, <2>4 DEF SaveSelection
<1>16. ASSUME NEW r \in Requests, DeleteMessages(r) PROVE Owned'
  <2>1. /\ request[r] # NoRequest /\ request[r].stage = "delete_messages"
        /\ owner' = owner /\ record' = record
    BY <1>16 DEF DeleteMessages, At
  <2> QED
    BY <1>11, <1>16, <2>1 DEF DeleteMessages, Stages
<1>17. ASSUME NEW r \in Requests, DeleteRecord(r) PROVE Owned'
  <2>1. request[r] # NoRequest /\ owner' = owner
    BY <1>17 DEF DeleteRecord, At
  <2>2. \A k \in Chats : record'[k] # NoRecord => record'[k].person \in owner[k]
    BY <1>14, <1>17, <2>1 DEF DeleteRecord
  <2> QED
    BY <1>2, <1>17, <2>1, <2>2 DEF DeleteRecord
<1>18. ASSUME NEW r \in Requests, WriteUser(r) PROVE Owned'
  <2>1. /\ request[r] # NoRequest /\ request[r].stage = "append_write"
        /\ owner' = owner /\ record' = record
    BY <1>18 DEF WriteUser, At
  <2>2. /\ \A t \in Requests \ {r} : request'[t] = request[t]
        /\ request'[r].chat = request[r].chat
        /\ request'[r].person = request[r].person
        /\ request'[r].loaded = request[r].loaded
    BY <1>4, <1>18, <2>1 DEF WriteUser, Request
  <2>3. /\ request[r].person \in owner[request[r].chat]
        /\ request[r].loaded.person \in owner[request[r].chat]
    BY <2>1
  <2> QED
    BY <1>3, <2>1, <2>2, <2>3
<1>19. ASSUME NEW r \in Requests, SaveUser(r) PROVE Owned'
  <2>1. request[r] # NoRequest /\ request[r].stage = "append_save" /\ owner' = owner
    BY <1>19 DEF SaveUser, At
  <2>2. request[r].loaded.person \in owner[request[r].chat]
    BY <2>1
  <2>3. Saved(request[r], Title(request[r])).person = request[r].loaded.person
    BY DEF Saved
  <2>4. \A k \in Chats : record'[k] # NoRecord => record'[k].person \in owner[k]
    BY <1>14, <1>19, <2>1, <2>2, <2>3 DEF SaveUser
  <2> QED
    BY <1>11, <1>19, <2>1, <2>4 DEF SaveUser, Stages
<1>20. ASSUME NEW r \in Requests, Token(r) PROVE Owned'
  <2>1. /\ request[r] # NoRequest /\ request[r].stage = "answer"
        /\ owner' = owner /\ record' = record
    BY <1>20 DEF Token, At, Keeps
  <2>2. /\ \A t \in Requests \ {r} : request'[t] = request[t]
        /\ request'[r].chat = request[r].chat
        /\ request'[r].person = request[r].person
        /\ request'[r].loaded = request[r].loaded
    BY <1>4, <1>20, <2>1 DEF Token, Request
  <2>3. /\ request[r].person \in owner[request[r].chat]
        /\ request[r].loaded.person \in owner[request[r].chat]
    BY <2>1
  <2> QED
    BY <1>3, <2>1, <2>2, <2>3
<1>21. ASSUME NEW r \in Requests, EndAnswer(r) PROVE Owned'
  <2>1. request[r] # NoRequest /\ request[r].stage = "answer" /\ owner' = owner /\ record' = record
    BY <1>21 DEF EndAnswer, At, Keeps
  <2> QED
    BY <1>2, <1>11, <1>21, <2>1 DEF EndAnswer, Stages
<1>22. ASSUME NEW r \in Requests, WriteAnswer(r) PROVE Owned'
  <2>1. /\ request[r] # NoRequest /\ request[r].stage = "persist_write"
        /\ owner' = owner /\ record' = record
    BY <1>22 DEF WriteAnswer, At
  <2> QED
    BY <1>11, <1>22, <2>1 DEF WriteAnswer, Stages
<1>23. ASSUME NEW r \in Requests, SaveAnswer(r) PROVE Owned'
  <2>1. request[r] # NoRequest /\ request[r].stage = "persist_save" /\ owner' = owner
    BY <1>23 DEF SaveAnswer, At
  <2>2. request[r].loaded.person \in owner[request[r].chat]
    BY <2>1
  <2>3. Saved(request[r], request[r].loaded.title).person = request[r].loaded.person
    BY DEF Saved
  <2>4. \A k \in Chats : record'[k] # NoRecord => record'[k].person \in owner[k]
    BY <1>14, <1>23, <2>1, <2>2, <2>3 DEF SaveAnswer
  <2> QED
    BY <1>2, <1>23, <2>1, <2>4 DEF SaveAnswer
<1>24. CASE UNCHANGED vars
  BY <1>24 DEF vars
<1> QED
  BY <1>1, <1>6, <1>7, <1>8, <1>9, <1>10, <1>12, <1>13, <1>15, <1>16, <1>17, <1>18,
     <1>19, <1>20, <1>21, <1>22, <1>23, <1>24
  DEF Next, Step

\* However stale the records written back, a conversation stays with the person
\* it was created for, and only that person's requests get to its writes.
THEOREM Ownership == Spec => []OwnerOnly
<1>1. Inv /\ [Next]_vars => Inv'
  BY StepTypes, StepOwned DEF Inv, Owned
<1>2. Inv => OwnerOnly
  BY DEF Inv
<1> QED
  BY InitInv, <1>1, <1>2, PTL DEF Spec

\* Typed records that belong to their owner.
THEOREM Soundness == Spec => []ConversationsAreOwned
<1>1. TypeOK /\ OwnerOnly => ConversationsAreOwned
  BY DEF ConversationsAreOwned
<1> QED
  BY <1>1, TypeCorrect, Ownership, PTL


-----------------------------------------------------------------------------
(* A conversation used by one request at a time.                             *)

\* Stages whose copy of the record is read again or written back.
Holding == Stages \ {"create", "greet", "get", "answer", "persist_load"}
\* Stages of a post before its answer is stored, and all stages after its checks.
Context == {"validate", "append_load", "append_write", "append_save", "answer"}
Posting == {"append_load", "append_write", "append_save", "answer",
            "persist_load", "persist_write", "persist_save"}
Asked == {"append_save", "answer", "persist_load", "persist_write"}

\* Turns number the requests; a conversation nobody created is empty.
Counting ==
    /\ \A m \in messages : m.turn <= turns
    /\ \A r \in Requests : request[r] # NoRequest =>
          /\ request[r].turn > 0 /\ request[r].turn <= turns
          /\ owner[request[r].chat] # {}
    /\ \A k \in Chats : owner[k] = {} =>
          record[k] = NoRecord /\ MessagesOf(k) = {} /\ k \notin deleted

\* The only request of its conversation knows what the tables hold.
Knows(q, rec, rows, gone) ==
    /\ \A m \in rows : m.turn <= q.turn
    /\ q.stage \in {"get", "messages"} => q.op # "create"
    /\ q.stage = "validate" => q.op \in {"select", "post"}
    /\ q.stage \in Posting => q.op = "post"
    /\ q.stage = "create" => rec = NoRecord
    /\ q.stage \in {"create", "greet", "delete_record"} => rows = {}
    /\ gone => q.stage = "get"
    /\ q.stage \in Holding => q.loaded = rec /\ rec # NoRecord
    /\ q.stage \in Context /\ q.op = "post" => q.history = rows
    /\ q.stage \in Asked => Said(q, "user") \in rows

SerialRequest(r) ==
    LET k == request[r].chat
    IN  Knows(request[r], record[k], MessagesOf(k), k \in deleted)

\* The transcript is in order; while a question is stored and its record is not,
\* the title may still be that of no question.
SerialChat(k) ==
    /\ \A r, s \in InFlight(k) : r = s
    /\ k \in deleted => record[k] = NoRecord /\ MessagesOf(k) = {}
    /\ \A m \in MessagesOf(k) :
          m.role = "assistant" /\ m.turn > 0 =>
              Said([chat |-> k, turn |-> m.turn], "user") \in MessagesOf(k)
    /\ k \notin cut /\ record[k] # NoRecord =>
          \A m \in MessagesOf(k) : m.role = "user" =>
              \/ record[k].title > 0 /\ record[k].title <= m.turn
              \/ \E r \in InFlight(k) : At(r, "append_save") /\ m.turn = request[r].turn

Serial == \A k \in Chats \ overlapped : SerialChat(k) /\ \A r \in InFlight(k) : SerialRequest(r)

SerialInv == Inv /\ Counting /\ Serial

\* A step of request r concerns its own conversation, and no other request of
\* that conversation if it is used by one at a time.
LEMMA SerialFrame ==
    ASSUME SerialInv, NEW r \in Requests, NEW k \in Chats,
           request[r] # NoRequest, request[r].chat = k,
           overlapped' = overlapped,
           \A t \in Requests \ {r} : request'[t] = request[t],
           request'[r] # NoRequest => request'[r].chat = k,
           \A j \in Chats \ {k} : /\ record'[j] = record[j]
                                  /\ MessagesOf(j)' = MessagesOf(j)
                                  /\ j \in deleted' <=> j \in deleted
                                  /\ j \in cut' <=> j \in cut,
           k \notin overlapped /\ InFlight(k) = {r} /\ SerialChat(k) /\ SerialRequest(r) =>
               SerialChat(k)' /\ (request'[r] # NoRequest => SerialRequest(r)')
    PROVE  Serial'
<1> SUFFICES ASSUME NEW j \in Chats, j \notin overlapped
             PROVE  SerialChat(j)' /\ \A t \in InFlight(j)' : SerialRequest(t)'
  BY DEF Serial
<1>1. SerialChat(j) /\ \A t \in InFlight(j) : SerialRequest(t)
  BY DEF SerialInv, Serial
<1>2. CASE j = k
  <2>1. r \in InFlight(k)
    BY DEF InFlight
  <2>2. InFlight(k) = {r} /\ SerialChat(k) /\ SerialRequest(r)
    BY <1>1, <1>2, <2>1 DEF SerialChat
  <2>3. SerialChat(k)' /\ (request'[r] # NoRequest => SerialRequest(r)')
    BY <1>2, <2>2
  <2>4. \A t \in InFlight(k)' : t = r /\ request'[r] # NoRequest
    BY <2>2 DEF InFlight
  <2> QED
    BY <1>2, <2>3, <2>4
<1>3. CASE j # k
  <2>1. InFlight(j)' = InFlight(j) /\ r \notin InFlight(j)
    BY <1>3 DEF InFlight
  <2>2. \A t \in InFlight(j) : request'[t] = request[t] /\ request[t].chat = j
    BY <2>1 DEF InFlight
  <2>3. /\ record'[j] = record[j] /\ MessagesOf(j)' = MessagesOf(j)
        /\ j \in deleted' <=> j \in deleted
        /\ j \in cut' <=> j \in cut
    BY <1>3
  <2>4. SerialChat(j)'
    BY <1>1, <2>1, <2>2, <2>3 DEF SerialChat, At
  <2>5. ASSUME NEW t \in InFlight(j) PROVE SerialRequest(t)'
    BY <1>1, <2>2, <2>3, <2>5 DEF SerialRequest
  <2> QED
    BY <2>1, <2>4, <2>5
<1> QED
  BY <1>2, <1>3

\* What holds of a conversation is kept by a step that leaves its rows alone.
LEMMA ChatKept ==
    ASSUME NEW r \in Requests, NEW k \in Chats, SerialChat(k), InFlight(k) = {r},
           request[r].stage # "append_save" \/ k \in cut',
           record'[k] = record[k], MessagesOf(k)' = MessagesOf(k),
           k \in deleted' <=> k \in deleted, k \in cut => k \in cut',
           \A t \in Requests \ {r} : request'[t] = request[t]
    PROVE  SerialChat(k)'
<1>1. \A t \in InFlight(k)' : t = r
  BY DEF InFlight
<1>2. ~\E t \in InFlight(k) : At(t, "append_save") /\ k \notin cut'
  BY DEF At
<1> QED
  BY <1>1, <1>2 DEF SerialChat

\* A request moves on to another stage and keeps the rest.
LEMMA Moved ==
    ASSUME TypeInv, NEW r \in Requests, request[r] # NoRequest, NEW s, Goto(r, s)
    PROVE  /\ \A t \in Requests \ {r} : request'[t] = request[t]
           /\ request'[r] = [request[r] EXCEPT !.stage = s]
           /\ request'[r].stage = s
           /\ request'[r].chat = request[r].chat /\ request'[r].op = request[r].op
           /\ request'[r].turn = request[r].turn /\ request'[r].loaded = request[r].loaded
           /\ request'[r].history = request[r].history
  BY DEF TypeInv, TypeOK, Goto, Request

\* The chat of a request, and its rows when no row is written.
LEMMA ChatOf ==
    ASSUME TypeInv, NEW r \in Requests, request[r] # NoRequest
    PROVE  request[r].chat \in Chats /\ request[r] \in Request
  BY DEF TypeInv, TypeOK, Request

LEMMA RowsKept ==
    ASSUME messages' = messages, NEW k
    PROVE  MessagesOf(k)' = MessagesOf(k)
  BY DEF MessagesOf

\* A request that ends without writing.
LEMMA SerialDone ==
    ASSUME SerialInv, NEW r \in Requests, request[r] # NoRequest,
           request[r].stage # "append_save", Done(r), Keeps
    PROVE  Serial'
<1> DEFINE k == request[r].chat
<1>1. k \in Chats
  BY ChatOf DEF SerialInv, Inv
<1>2. /\ request'[r] = NoRequest /\ \A t \in Requests \ {r} : request'[t] = request[t]
  BY DEF Done, SerialInv, Inv, TypeInv, TypeOK
<1>3. /\ overlapped' = overlapped /\ record' = record /\ deleted' = deleted /\ cut' = cut
      /\ messages' = messages
  BY DEF Keeps, ghosts
<1>4. \A j \in Chats : MessagesOf(j)' = MessagesOf(j)
  BY <1>3, RowsKept
<1>5. SerialChat(k) /\ InFlight(k) = {r} => \A j \in {k} : SerialChat(j)'
  BY <1>1, <1>2, <1>3, <1>4, ChatKept
<1> QED
  BY <1>1, <1>2, <1>3, <1>4, <1>5, SerialFrame

\* A request that goes on without writing.
LEMMA SerialGoto ==
    ASSUME SerialInv, NEW r \in Requests, NEW k \in Chats,
           request[r] # NoRequest, request[r].chat = k,
           request[r].stage # "append_save", Keeps,
           \A t \in Requests \ {r} : request'[t] = request[t],
           request'[r].chat = k,
           SerialChat(k) /\ Knows(request[r], record[k], MessagesOf(k), k \in deleted) =>
               Knows(request'[r], record[k], MessagesOf(k), k \in deleted)
    PROVE  Serial'
<1>3. /\ overlapped' = overlapped /\ record' = record /\ deleted' = deleted /\ cut' = cut
      /\ messages' = messages
  BY DEF Keeps, ghosts
<1>4. \A j \in Chats : MessagesOf(j)' = MessagesOf(j)
  BY <1>3, RowsKept
<1>5. SerialChat(k) /\ InFlight(k) = {r} => SerialChat(k)'
  BY <1>3, <1>4, ChatKept
<1>6. SerialChat(k) /\ SerialRequest(r) => SerialRequest(r)'
  BY <1>3, <1>4 DEF SerialRequest
<1> QED
  BY <1>3, <1>4, <1>5, <1>6, SerialFrame

LEMMA SerialReads ==
    ASSUME SerialInv, NEW r \in Requests, Get(r) \/ GetMessages(r) \/ Load(r)
    PROVE  Serial'
<1>0. PICK k \in Chats : request[r].chat = k
  BY ChatOf DEF SerialInv, Inv, Get, GetMessages, Load, At
<1>1. request[r] # NoRequest /\ request[r] \in Request /\ Keeps
  BY ChatOf DEF SerialInv, Inv, Get, GetMessages, Load, At
<1>2. /\ record' = record /\ deleted' = deleted /\ messages' = messages
  BY <1>1 DEF Keeps, ghosts
<1>3. MessagesOf(k)' = MessagesOf(k)
  BY <1>2, RowsKept
<1>4. request \in [Requests -> {NoRequest} \cup Request]
  BY DEF SerialInv, Inv, TypeInv, TypeOK
<1>5. CASE Done(r)
  BY <1>1, <1>5, SerialDone DEF Get, GetMessages, Load, At
<1>6. CASE Get(r) /\ ~Done(r)
  <2>1. /\ request[r].stage = "get" /\ record[k] # NoRecord
        /\ request' = [request EXCEPT ![r].stage = "messages", ![r].loaded = record[k]]
    BY <1>0, <1>6 DEF Get, At
  <2>2. /\ \A t \in Requests \ {r} : request'[t] = request[t]
        /\ request'[r].chat = k /\ request'[r].op = request[r].op
        /\ request'[r].turn = request[r].turn
        /\ request'[r].stage = "messages" /\ request'[r].loaded = record[k]
    BY <1>0, <1>1, <1>4, <2>1 DEF Request
  <2>3. SerialChat(k) /\ Knows(request[r], record[k], MessagesOf(k), k \in deleted) =>
          Knows(request'[r], record[k], MessagesOf(k), k \in deleted)
    BY <1>0, <1>2, <1>3, <2>1, <2>2
    DEF SerialChat, Knows, Posting, Context, Asked
  <2> QED
    BY <1>0, <1>1, <2>1, <2>2, <2>3, SerialGoto
<1>7. CASE GetMessages(r) /\ ~Done(r)
  <2> DEFINE q == request[r]
             hist == IF q.op = "post" THEN MessagesOf(q.chat) ELSE {}
             to == IF q.op = "delete" THEN "delete_load" ELSE "validate"
  <2>1. /\ request[r].stage = "messages"
        /\ request' = [request EXCEPT ![r].history = hist, ![r].stage = to]
    BY <1>7 DEF GetMessages, At
  <2>2. /\ \A t \in Requests \ {r} : request'[t] = request[t]
        /\ request'[r].chat = k /\ request'[r].op = request[r].op
        /\ request'[r].turn = request[r].turn /\ request'[r].loaded = request[r].loaded
        /\ request'[r].stage = to /\ request'[r].history = hist
    BY <1>0, <1>1, <1>4, <2>1 DEF Request
  <2>3. Knows(request[r], record[k], MessagesOf(k), k \in deleted) =>
          Knows(request'[r], record[k], MessagesOf(k), k \in deleted)
    <3>1. q.op \in Ops
      BY <1>1 DEF Request
    <3>2. CASE q.op = "delete"
      <4>1. request'[r].stage = "delete_load" /\ request'[r].op = "delete"
        BY <2>2, <3>2
      <4> HIDE DEF hist, to
      <4> QED
        BY <2>1, <2>2, <4>1 DEF Knows, Posting, Context, Asked, Holding, Stages
    <3>3. CASE q.op # "delete"
      <4>1. /\ request'[r].stage = "validate"
            /\ request'[r].op = "post" => request'[r].history = MessagesOf(k)
        BY <1>0, <2>2, <3>3
      <4> HIDE DEF hist, to
      <4> QED
        BY <2>1, <2>2, <3>1, <3>3, <4>1
        DEF Knows, Posting, Context, Asked, Holding, Stages, Ops
    <3> QED
      BY <3>2, <3>3
  <2> QED
    BY <1>0, <1>1, <2>1, <2>2, <2>3, SerialGoto
<1>8. CASE Load(r) /\ ~Done(r)
  <2> DEFINE q == request[r]
             next == CASE q.stage = "select_load" -> "select_save"
                       [] q.stage = "delete_load" -> "delete_messages"
                       [] q.stage = "append_load" -> "append_write"
                       [] q.stage = "persist_load" -> "persist_write"
  <2>1. /\ q.stage \in {"select_load", "delete_load", "append_load", "persist_load"}
        /\ record[k] # NoRecord
        /\ request' = [request EXCEPT ![r].stage = next, ![r].loaded = record[k]]
    BY <1>0, <1>8 DEF Load
  <2>2. /\ \A t \in Requests \ {r} : request'[t] = request[t]
        /\ request'[r].chat = k /\ request'[r].op = request[r].op
        /\ request'[r].turn = request[r].turn /\ request'[r].history = request[r].history
        /\ request'[r].stage = next /\ request'[r].loaded = record[k]
    BY <1>0, <1>1, <1>4, <2>1 DEF Request
  <2>3. Knows(request[r], record[k], MessagesOf(k), k \in deleted) =>
          Knows(request'[r], record[k], MessagesOf(k), k \in deleted)
    <3>1. CASE q.stage \in {"select_load", "delete_load"}
      <4>1. request'[r].stage \in {"select_save", "delete_messages"}
        BY <2>2, <3>1
      <4> QED
        BY <2>1, <2>2, <3>1, <4>1 DEF Knows, Posting, Context, Asked
    <3>2. CASE q.stage = "append_load"
      <4>1. request'[r].stage = "append_write"
        BY <2>2, <3>2
      <4> QED
        BY <2>1, <2>2, <3>2, <4>1 DEF Knows, Posting, Context, Asked
    <3>3. CASE q.stage = "persist_load"
      <4>1. request'[r].stage = "persist_write"
        BY <2>2, <3>3
      <4> QED
        BY <1>0, <2>1, <2>2, <3>3, <4>1 DEF Knows, Posting, Context, Asked, Said
    <3> QED
      BY <2>1, <3>1, <3>2, <3>3
  <2> QED
    BY <1>0, <1>1, <2>1, <2>2, <2>3, SerialGoto
<1> QED
  BY <1>5, <1>6, <1>7, <1>8

LEMMA SerialTalks ==
    ASSUME SerialInv, NEW r \in Requests, Validate(r) \/ Token(r) \/ EndAnswer(r)
    PROVE  Serial'
<1>0. PICK k \in Chats : request[r].chat = k
  BY ChatOf DEF SerialInv, Inv, Validate, Token, EndAnswer, At
<1>1. request[r] # NoRequest /\ request[r] \in Request /\ Keeps
  BY ChatOf DEF SerialInv, Inv, Validate, Token, EndAnswer, At
<1>2. /\ record' = record /\ deleted' = deleted /\ messages' = messages
  BY <1>1 DEF Keeps, ghosts
<1>3. MessagesOf(k)' = MessagesOf(k)
  BY <1>2, RowsKept
<1>4. request \in [Requests -> {NoRequest} \cup Request] /\ TypeInv
  BY DEF SerialInv, Inv, TypeInv, TypeOK
<1>5. CASE Done(r)
  BY <1>1, <1>5, SerialDone DEF Validate, Token, EndAnswer, At
<1>6. CASE Validate(r) /\ ~Done(r)
  <2> DEFINE to == IF request[r].op = "select" THEN "select_load" ELSE "append_load"
  <2>1. request[r].stage = "validate" /\ Goto(r, to)
    BY <1>6 DEF Validate, At
  <2>2. Knows(request[r], record[k], MessagesOf(k), k \in deleted) =>
          Knows(request'[r], record[k], MessagesOf(k), k \in deleted)
    <3>1. /\ request'[r].stage = to /\ request'[r].op = request[r].op
          /\ request'[r].turn = request[r].turn /\ request'[r].loaded = request[r].loaded
          /\ request'[r].history = request[r].history
      BY <1>1, <1>4, <2>1, Moved
    <3>2. CASE request[r].op = "select"
      BY <2>1, <3>1, <3>2 DEF Knows, Posting, Context, Asked, Holding, Stages
    <3>3. CASE request[r].op # "select"
      BY <2>1, <3>1, <3>3 DEF Knows, Posting, Context, Asked, Holding, Stages
    <3> QED
      BY <3>2, <3>3
  <2> QED
    BY <1>0, <1>1, <1>4, <2>1, <2>2, Moved, SerialGoto
<1>7. CASE Token(r) /\ ~Done(r)
  <2>1. request[r].stage = "answer" /\ request' = [request EXCEPT ![r].answered = TRUE]
    BY <1>7 DEF Token, At
  <2>2. /\ \A t \in Requests \ {r} : request'[t] = request[t]
        /\ request'[r].chat = k /\ request'[r].op = request[r].op
        /\ request'[r].turn = request[r].turn /\ request'[r].history = request[r].history
        /\ request'[r].stage = request[r].stage
    BY <1>0, <1>1, <1>4, <2>1 DEF Request
  <2>3. Knows(request[r], record[k], MessagesOf(k), k \in deleted) =>
          Knows(request'[r], record[k], MessagesOf(k), k \in deleted)
    BY <1>0, <1>2, <1>3, <2>1, <2>2 DEF Knows, Holding, Said
  <2> QED
    BY <1>0, <1>1, <2>1, <2>2, <2>3, SerialGoto
<1>8. CASE EndAnswer(r) /\ ~Done(r)
  <2>1. request[r].stage = "answer" /\ Goto(r, "persist_load")
    BY <1>8 DEF EndAnswer, At
  <2>2. Knows(request[r], record[k], MessagesOf(k), k \in deleted) =>
          Knows(request'[r], record[k], MessagesOf(k), k \in deleted)
    <3>1. /\ request'[r].stage = "persist_load" /\ request'[r].op = request[r].op
          /\ request'[r].turn = request[r].turn /\ request'[r].chat = request[r].chat
      BY <1>1, <1>4, <2>1, Moved
    <3> QED
      BY <2>1, <3>1 DEF Knows, Posting, Context, Asked, Holding, Said
  <2> QED
    BY <1>0, <1>1, <1>4, <2>1, <2>2, Moved, SerialGoto
<1> QED
  BY <1>5, <1>6, <1>7, <1>8

\* The rows of each conversation after a message is stored or a transcript deleted.
LEMMA RowsAdded ==
    ASSUME NEW m, m.chat \in Chats, messages' = messages \cup {m}
    PROVE  /\ MessagesOf(m.chat)' = MessagesOf(m.chat) \cup {m}
           /\ \A j \in Chats \ {m.chat} : MessagesOf(j)' = MessagesOf(j)
  BY DEF MessagesOf

\* The only request of a conversation ends, or goes on, having written.
LEMMA SerialWrites ==
    ASSUME SerialInv, NEW r \in Requests, NEW k \in Chats,
           request[r] # NoRequest, request[r].chat = k,
           overlapped' = overlapped, cut' = cut,
           \A t \in Requests \ {r} : request'[t] = request[t],
           request'[r] # NoRequest => request'[r].chat = k,
           \A j \in Chats \ {k} : /\ record'[j] = record[j]
                                  /\ MessagesOf(j)' = MessagesOf(j)
                                  /\ j \in deleted' <=> j \in deleted,
           InFlight(k) = {r} /\ SerialChat(k) /\ Knows(request[r], record[k], MessagesOf(k), k \in deleted) =>
               /\ SerialChat(k)'
               /\ request'[r] # NoRequest =>
                     Knows(request'[r], record'[k], MessagesOf(k)', k \in deleted')
    PROVE  Serial'
<1>1. SerialRequest(r) => Knows(request[r], record[k], MessagesOf(k), k \in deleted)
  BY DEF SerialRequest
<1>2. ASSUME request'[r] # NoRequest, Knows(request'[r], record'[k], MessagesOf(k)', k \in deleted')
      PROVE  SerialRequest(r)'
  BY <1>2 DEF SerialRequest
<1> QED
  BY <1>1, <1>2, SerialFrame

LEMMA SerialCreate == ASSUME SerialInv, NEW r \in Requests, Create(r) PROVE Serial'
<1>0. PICK k \in Chats : request[r].chat = k
  BY ChatOf DEF SerialInv, Inv, Create, At
<1>1. /\ request[r] # NoRequest /\ request[r].stage = "create"
      /\ \A j \in Chats \ {k} : record'[j] = record[j]
      /\ messages' = messages /\ overlapped' = overlapped /\ cut' = cut /\ deleted' = deleted
  BY <1>0 DEF SerialInv, Inv, TypeInv, TypeOK, Create, At, ghosts
<1>2. \A j \in Chats : MessagesOf(j)' = MessagesOf(j)
  BY <1>1, RowsKept
<1>3. /\ \A t \in Requests \ {r} : request'[t] = request[t]
      /\ request'[r] # NoRequest => request'[r].chat = k /\ request'[r].stage = "greet"
  <2>1. CASE Done(r)
    BY <2>1 DEF Done, SerialInv, Inv, TypeInv, TypeOK
  <2>2. CASE Goto(r, "greet")
    BY <1>0, <1>1, <2>2, Moved DEF SerialInv, Inv
  <2> QED
    BY <2>1, <2>2 DEF Create
<1>4. ASSUME InFlight(k) = {r}, SerialChat(k), Knows(request[r], record[k], MessagesOf(k), k \in deleted)
      PROVE  /\ SerialChat(k)'
             /\ request'[r] # NoRequest =>
                   Knows(request'[r], record'[k], MessagesOf(k)', k \in deleted')
  <2>1. MessagesOf(k) = {} /\ k \notin deleted
    BY <1>1, <1>4 DEF Knows
  <2>2. \A t \in InFlight(k)' : t = r
    BY <1>3, <1>4 DEF InFlight
  <2>3. SerialChat(k)'
    BY <1>1, <1>2, <2>1, <2>2 DEF SerialChat
  <2>4. ASSUME request'[r] # NoRequest
        PROVE  Knows(request'[r], record'[k], MessagesOf(k)', k \in deleted')
    BY <1>1, <1>2, <1>3, <2>1, <2>4 DEF Knows, Posting, Context, Asked, Holding
  <2> QED
    BY <2>3, <2>4
<1> QED
  BY <1>0, <1>1, <1>2, <1>3, <1>4, SerialWrites

LEMMA SerialGreet == ASSUME SerialInv, NEW r \in Requests, Greet(r) PROVE Serial'
<1>0. PICK k \in Chats : request[r].chat = k
  BY ChatOf DEF SerialInv, Inv, Greet, At
<1> DEFINE m == [chat |-> k, turn |-> 0, role |-> "assistant"]
<1>1. /\ request[r] # NoRequest /\ request[r].stage = "greet" /\ record' = record
      /\ messages' = messages \cup {m}
      /\ overlapped' = overlapped /\ cut' = cut /\ deleted' = deleted
  BY <1>0 DEF Greet, At, ghosts
<1>2. /\ MessagesOf(k)' = MessagesOf(k) \cup {m}
      /\ \A j \in Chats \ {k} : MessagesOf(j)' = MessagesOf(j)
  <2>1. m.chat = k
    OBVIOUS
  <2> HIDE DEF m
  <2> QED
    BY <1>1, <2>1, RowsAdded
<1>3. request'[r] = NoRequest /\ \A t \in Requests \ {r} : request'[t] = request[t]
  BY DEF Greet, Done, SerialInv, Inv, TypeInv, TypeOK
<1>4. ASSUME InFlight(k) = {r}, SerialChat(k), Knows(request[r], record[k], MessagesOf(k), k \in deleted)
      PROVE  SerialChat(k)'
  <2>1. MessagesOf(k) = {} /\ k \notin deleted
    BY <1>1, <1>4 DEF Knows
  <2>2. \A t \in InFlight(k)' : t = r
    BY <1>3, <1>4 DEF InFlight
  <2> QED
    BY <1>1, <1>2, <2>1, <2>2 DEF SerialChat
<1> QED
  BY <1>0, <1>1, <1>2, <1>3, <1>4, SerialWrites

LEMMA SerialSelects == ASSUME SerialInv, NEW r \in Requests, SaveSelection(r) PROVE Serial'
<1>0. PICK k \in Chats : request[r].chat = k
  BY ChatOf DEF SerialInv, Inv, SaveSelection, At
<1>1. /\ request[r] # NoRequest /\ request[r].stage = "select_save" /\ messages' = messages
      /\ record' = [record EXCEPT ![k] = [request[r].loaded EXCEPT !.active = request[r].body]]
      /\ overlapped' = overlapped /\ cut' = cut /\ deleted' = deleted
  BY <1>0 DEF SaveSelection, At, ghosts
<1>2. \A j \in Chats : MessagesOf(j)' = MessagesOf(j)
  BY <1>1, RowsKept
<1>3. request'[r] = NoRequest /\ \A t \in Requests \ {r} : request'[t] = request[t]
  BY DEF SaveSelection, Done, SerialInv, Inv, TypeInv, TypeOK
<1>4. /\ \A j \in Chats \ {k} : record'[j] = record[j]
      /\ record'[k].title = request[r].loaded.title
  <2>1. request[r].loaded \in Record /\ record \in [Chats -> {NoRecord} \cup Record]
    BY <1>1 DEF SerialInv, Inv, TypeInv, TypeOK, HasLoaded
  <2>2. [request[r].loaded EXCEPT !.active = request[r].body].title = request[r].loaded.title
    BY <2>1 DEF Record
  <2> QED
    BY <1>1, <2>1, <2>2
<1>5. ASSUME InFlight(k) = {r}, SerialChat(k), Knows(request[r], record[k], MessagesOf(k), k \in deleted)
      PROVE  SerialChat(k)'
  <2>1. k \notin deleted /\ record[k] = request[r].loaded /\ record[k] # NoRecord
    BY <1>1, <1>5 DEF Knows, Holding, Stages
  <2>2. \A t \in InFlight(k)' : t = r
    BY <1>3, <1>5 DEF InFlight
  <2>3. ~\E t \in InFlight(k) : At(t, "append_save")
    BY <1>1, <1>5 DEF At
  <2> QED
    BY <1>1, <1>2, <1>4, <1>5, <2>1, <2>2, <2>3 DEF SerialChat
<1> QED
  BY <1>0, <1>1, <1>2, <1>3, <1>4, <1>5, SerialWrites

LEMMA SerialDeletes ==
    ASSUME SerialInv, NEW r \in Requests, DeleteMessages(r) \/ DeleteRecord(r)
    PROVE  Serial'
<1>0. PICK k \in Chats : request[r].chat = k
  BY ChatOf DEF SerialInv, Inv, DeleteMessages, DeleteRecord, At
<1>1. request[r] # NoRequest /\ overlapped' = overlapped /\ cut' = cut
  BY DEF DeleteMessages, DeleteRecord, At, ghosts
<1>2. CASE DeleteMessages(r)
  <2>1. /\ request[r].stage = "delete_messages" /\ record' = record /\ deleted' = deleted
        /\ messages' = messages \ MessagesOf(k) /\ Goto(r, "delete_record")
    BY <1>0, <1>2 DEF DeleteMessages, At, ghosts
  <2>2. /\ MessagesOf(k)' = {} /\ \A j \in Chats \ {k} : MessagesOf(j)' = MessagesOf(j)
    BY <2>1 DEF MessagesOf
  <2>3. /\ \A t \in Requests \ {r} : request'[t] = request[t]
        /\ request'[r].stage = "delete_record" /\ request'[r].chat = k
        /\ request'[r].loaded = request[r].loaded
    BY <1>0, <1>1, <2>1, Moved DEF SerialInv, Inv
  <2>4. ASSUME InFlight(k) = {r}, SerialChat(k), Knows(request[r], record[k], MessagesOf(k), k \in deleted)
        PROVE  SerialChat(k)' /\ Knows(request'[r], record'[k], MessagesOf(k)', k \in deleted')
    <3>1. k \notin deleted /\ record[k] = request[r].loaded /\ record[k] # NoRecord
      BY <2>1, <2>4 DEF Knows, Holding, Stages
    <3>2. \A t \in InFlight(k)' : t = r
      BY <2>3, <2>4 DEF InFlight
    <3>3. SerialChat(k)'
      BY <2>1, <2>2, <3>1, <3>2 DEF SerialChat
    <3>4. Knows(request'[r], record'[k], MessagesOf(k)', k \in deleted')
      BY <2>1, <2>2, <2>3, <3>1 DEF Knows, Posting, Context, Asked
    <3> QED
      BY <3>3, <3>4
  <2> QED
    BY <1>0, <1>1, <2>1, <2>2, <2>3, <2>4, SerialWrites
<1>3. CASE DeleteRecord(r)
  <2>1. /\ request[r].stage = "delete_record" /\ messages' = messages
        /\ record' = [record EXCEPT ![k] = NoRecord] /\ deleted' = deleted \cup {k}
    BY <1>0, <1>3 DEF DeleteRecord, At
  <2>2. \A j \in Chats : MessagesOf(j)' = MessagesOf(j)
    BY <2>1, RowsKept
  <2>3. request'[r] = NoRequest /\ \A t \in Requests \ {r} : request'[t] = request[t]
    BY <1>3 DEF DeleteRecord, Done, SerialInv, Inv, TypeInv, TypeOK
  <2>4. record'[k] = NoRecord /\ \A j \in Chats \ {k} : record'[j] = record[j]
    BY <2>1 DEF SerialInv, Inv, TypeInv, TypeOK
  <2>5. ASSUME InFlight(k) = {r}, SerialChat(k), Knows(request[r], record[k], MessagesOf(k), k \in deleted)
        PROVE  SerialChat(k)'
    <3>1. MessagesOf(k) = {}
      BY <2>1, <2>5 DEF Knows
    <3>2. \A t \in InFlight(k)' : t = r
      BY <2>3, <2>5 DEF InFlight
    <3> QED
      BY <2>2, <2>4, <3>1, <3>2 DEF SerialChat
  <2> QED
    BY <1>0, <1>1, <2>1, <2>2, <2>3, <2>4, <2>5, SerialWrites
<1> QED
  BY <1>2, <1>3

LEMMA SerialAsks == ASSUME SerialInv, NEW r \in Requests, WriteUser(r) PROVE Serial'
<1>0. PICK k \in Chats : request[r].chat = k
  BY ChatOf DEF SerialInv, Inv, WriteUser, At
<1> DEFINE m == Said(request[r], "user")
<1>1. /\ request[r] # NoRequest /\ request[r].stage = "append_write" /\ record' = record
      /\ messages' = messages \cup {m}
      /\ request' = [request EXCEPT ![r].stage = "append_save",
                                    ![r].history = @ \cup {m}]
      /\ overlapped' = overlapped /\ cut' = cut /\ deleted' = deleted
  BY DEF WriteUser, At, ghosts
<1>2. request[r] \in Request /\ request \in [Requests -> {NoRequest} \cup Request]
  BY <1>1 DEF SerialInv, Inv, TypeInv, TypeOK
<1>3. m.chat = k /\ m.turn = request[r].turn /\ m.role = "user" /\ request[r].turn \in Nat
  BY <1>0, <1>2, ConversationAssumption DEF Said, Request
<1>4. /\ MessagesOf(k)' = MessagesOf(k) \cup {m}
      /\ \A j \in Chats \ {k} : MessagesOf(j)' = MessagesOf(j)
  <2> HIDE DEF m
  <2> QED
    BY <1>1, <1>3, RowsAdded
<1>5. /\ \A t \in Requests \ {r} : request'[t] = request[t]
      /\ request'[r].chat = k /\ request'[r].op = request[r].op
      /\ request'[r].turn = request[r].turn /\ request'[r].loaded = request[r].loaded
      /\ request'[r].stage = "append_save"
      /\ request'[r].history = request[r].history \cup {m}
  BY <1>0, <1>1, <1>2 DEF Request
<1>6. request'[r] # NoRequest
  <2>1. [[request[r] EXCEPT !.stage = "append_save"] EXCEPT !.history = @ \cup {m}] \in Request
    <3>1. m \in Message
      BY <1>2 DEF Said, Request, Message
    <3>2. [request[r] EXCEPT !.stage = "append_save"] \in Request
      BY <1>2, StageTypes DEF Stages
    <3> HIDE DEF m
    <3> QED
      BY <3>1, <3>2 DEF Request
  <2> QED
    BY <1>1, <1>2, <2>1, NoRequestAssumption
<1>7. ASSUME InFlight(k) = {r}, SerialChat(k), Knows(request[r], record[k], MessagesOf(k), k \in deleted)
      PROVE  SerialChat(k)' /\ Knows(request'[r], record'[k], MessagesOf(k)', k \in deleted')
  <2>1. /\ k \notin deleted /\ record[k] = request[r].loaded /\ record[k] # NoRecord
        /\ request[r].op = "post" /\ request[r].history = MessagesOf(k)
    BY <1>1, <1>7 DEF Knows, Holding, Stages, Posting, Context
  <2>2. InFlight(k)' = {r}
    BY <1>5, <1>6, <1>7 DEF InFlight
  <2>3. ~\E t \in InFlight(k) : At(t, "append_save")
    BY <1>1, <1>7 DEF At
  <2>4. \A n \in MessagesOf(k) : n.turn <= request[r].turn
    BY <1>7 DEF Knows
  <2>5. At(r, "append_save")'
    BY <1>5, <1>6 DEF At
  <2>6. Said(request'[r], "user") = m
    BY <1>0, <1>5 DEF Said
  <2> HIDE DEF m
  <2>7. SerialChat(k)'
    <3>1. \A n \in MessagesOf(k)' : n.role = "assistant" => n \in MessagesOf(k)
      BY <1>3, <1>4
    <3>2. \A n \in MessagesOf(k)' :
            n.role = "assistant" /\ n.turn > 0 =>
                Said([chat |-> k, turn |-> n.turn], "user") \in MessagesOf(k)'
      BY <1>4, <1>7, <3>1 DEF SerialChat
    <3>3. ASSUME k \notin cut, NEW n \in MessagesOf(k)', n.role = "user"
          PROVE  \/ record'[k].title > 0 /\ record'[k].title <= n.turn
                 \/ \E t \in InFlight(k)' : At(t, "append_save")' /\ n.turn = request'[t].turn
      <4>1. CASE n \in MessagesOf(k)
        BY <1>1, <1>7, <2>1, <2>3, <3>3, <4>1 DEF SerialChat
      <4>2. CASE n = m
        BY <1>3, <1>5, <2>2, <2>5, <4>2
      <4> QED
        BY <1>4, <4>1, <4>2
    <3> QED
      BY <1>1, <2>1, <2>2, <3>2, <3>3 DEF SerialChat
  <2>8. \A n \in MessagesOf(k)' : n.turn <= request'[r].turn
    BY <1>3, <1>4, <1>5, <2>4
  <2>9. Knows(request'[r], record'[k], MessagesOf(k)', k \in deleted')
    BY <1>1, <1>4, <1>5, <2>1, <2>6, <2>8 DEF Knows
  <2> QED
    BY <2>7, <2>9
<1> HIDE DEF m
<1> QED
  BY <1>0, <1>1, <1>4, <1>5, <1>7, SerialWrites

LEMMA SerialAnswers == ASSUME SerialInv, NEW r \in Requests, WriteAnswer(r) PROVE Serial'
<1>0. PICK k \in Chats : request[r].chat = k
  BY ChatOf DEF SerialInv, Inv, WriteAnswer, At
<1> DEFINE m == Said(request[r], "assistant")
<1>1. /\ request[r] # NoRequest /\ request[r].stage = "persist_write" /\ record' = record
      /\ messages' = messages \cup {m} /\ Goto(r, "persist_save")
      /\ overlapped' = overlapped /\ cut' = cut /\ deleted' = deleted
  BY DEF WriteAnswer, At, ghosts
<1>2. request[r] \in Request /\ request[r].turn \in Nat
  BY <1>1, ConversationAssumption DEF SerialInv, Inv, TypeInv, TypeOK, Request
<1>3. m.chat = k /\ m.turn = request[r].turn /\ m.role = "assistant"
  BY <1>0 DEF Said
<1>4. /\ MessagesOf(k)' = MessagesOf(k) \cup {m}
      /\ \A j \in Chats \ {k} : MessagesOf(j)' = MessagesOf(j)
  <2> HIDE DEF m
  <2> QED
    BY <1>1, <1>3, RowsAdded
<1>5. /\ \A t \in Requests \ {r} : request'[t] = request[t]
      /\ request'[r].chat = k /\ request'[r].op = request[r].op
      /\ request'[r].turn = request[r].turn /\ request'[r].loaded = request[r].loaded
      /\ request'[r].stage = "persist_save"
  BY <1>0, <1>1, Moved DEF SerialInv, Inv
<1>6. ASSUME InFlight(k) = {r}, SerialChat(k), Knows(request[r], record[k], MessagesOf(k), k \in deleted)
      PROVE  SerialChat(k)' /\ Knows(request'[r], record'[k], MessagesOf(k)', k \in deleted')
  <2>1. /\ k \notin deleted /\ record[k] = request[r].loaded /\ record[k] # NoRecord
        /\ request[r].op = "post"
        /\ Said(request[r], "user") \in MessagesOf(k)
    BY <1>1, <1>6 DEF Knows, Holding, Stages, Posting, Asked
  <2>2. \A t \in InFlight(k)' : t = r
    BY <1>5, <1>6 DEF InFlight
  <2>3. ~\E t \in InFlight(k) : At(t, "append_save")
    BY <1>1, <1>6 DEF At
  <2>4. Said([chat |-> k, turn |-> m.turn], "user") \in MessagesOf(k)
    BY <1>0, <2>1 DEF Said
  <2>5. \A n \in MessagesOf(k) : n.turn <= request[r].turn
    BY <1>6 DEF Knows
  <2> HIDE DEF m
  <2>6. SerialChat(k)'
    <3>1. \A n \in MessagesOf(k)' : n.role = "user" => n \in MessagesOf(k)
      BY <1>3, <1>4
    <3>2. \A n \in MessagesOf(k)' :
            n.role = "assistant" /\ n.turn > 0 =>
                Said([chat |-> k, turn |-> n.turn], "user") \in MessagesOf(k)'
      BY <1>4, <1>6, <2>4 DEF SerialChat
    <3> QED
      BY <1>1, <1>6, <2>1, <2>2, <2>3, <3>1, <3>2 DEF SerialChat
  <2>7. Knows(request'[r], record'[k], MessagesOf(k)', k \in deleted')
    BY <1>1, <1>2, <1>3, <1>4, <1>5, <2>1, <2>5 DEF Knows, Context, Asked
  <2> QED
    BY <2>6, <2>7
<1> HIDE DEF m
<1> QED
  BY <1>0, <1>1, <1>4, <1>5, <1>6, SerialWrites

\* The record is written back with the title of the first question.
LEMMA SerialTitles == ASSUME SerialInv, NEW r \in Requests, SaveUser(r) PROVE Serial'
<1>0. PICK k \in Chats : request[r].chat = k
  BY ChatOf DEF SerialInv, Inv, SaveUser, At
<1>1. /\ request[r] # NoRequest /\ request[r].stage = "append_save" /\ messages' = messages
      /\ record' = [record EXCEPT ![k] = Saved(request[r], Title(request[r]))]
      /\ Goto(r, "answer")
      /\ overlapped' = overlapped /\ cut' = cut /\ deleted' = deleted
  BY <1>0 DEF SaveUser, At, ghosts
<1>2. \A j \in Chats : MessagesOf(j)' = MessagesOf(j)
  BY <1>1, RowsKept
<1>3. /\ \A t \in Requests \ {r} : request'[t] = request[t]
      /\ request'[r].chat = k /\ request'[r].op = request[r].op
      /\ request'[r].turn = request[r].turn
      /\ request'[r].history = request[r].history
      /\ request'[r].stage = "answer"
  BY <1>0, <1>1, Moved DEF SerialInv, Inv
<1>4. record'[k].title = Title(request[r]) /\ \A j \in Chats \ {k} : record'[j] = record[j]
  BY <1>1 DEF SerialInv, Inv, TypeInv, TypeOK, Saved
<1>5. ASSUME InFlight(k) = {r}, SerialChat(k), Knows(request[r], record[k], MessagesOf(k), k \in deleted)
      PROVE  SerialChat(k)' /\ Knows(request'[r], record'[k], MessagesOf(k)', k \in deleted')
  <2>1. /\ k \notin deleted /\ record[k] = request[r].loaded /\ record[k] # NoRecord
        /\ request[r].op = "post" /\ request[r].history = MessagesOf(k)
        /\ Said(request[r], "user") \in MessagesOf(k)
        /\ \A n \in MessagesOf(k) : n.turn <= request[r].turn
    BY <1>1, <1>5 DEF Knows, Holding, Stages, Posting, Context, Asked
  <2>2. \A t \in InFlight(k)' : t = r
    BY <1>3, <1>5 DEF InFlight
  <2>3. ASSUME k \notin cut, NEW n \in MessagesOf(k), n.role = "user"
        PROVE  Title(request[r]) > 0 /\ Title(request[r]) <= n.turn
    <3>1. /\ request[r].turn \in Nat /\ request[r].turn > 0
          /\ \A x \in MessagesOf(k) : x.turn \in Nat
          /\ record[k].title \in Nat
      <4>1. request[r] \in Request /\ request[r].loaded \in Record /\ messages \in SUBSET Message
        BY <1>1 DEF SerialInv, Inv, TypeInv, TypeOK, HasLoaded
      <4>2. request[r].turn > 0
        BY <1>1 DEF SerialInv, Counting
      <4> QED
        BY <2>1, <4>1, <4>2, ConversationAssumption DEF MessagesOf, Message, Request, Record
    <3>2. CASE FirstUser(request[r])
      BY <2>1, <2>3, <3>1, <3>2 DEF FirstUser, Title
    <3>3. CASE ~FirstUser(request[r])
      <4>1. Title(request[r]) = record[k].title
        BY <2>1, <3>3 DEF Title
      <4>2. PICK x \in MessagesOf(k) : x.role = "user" /\ x.turn # request[r].turn
        BY <2>1, <3>3 DEF FirstUser
      <4>3. \A y \in MessagesOf(k) : y.role = "user" =>
              \/ record[k].title > 0 /\ record[k].title <= y.turn
              \/ y.turn = request[r].turn
        BY <1>5, <2>1, <2>3 DEF SerialChat
      <4>4. record[k].title > 0 /\ record[k].title <= x.turn /\ x.turn <= request[r].turn
        BY <2>1, <4>2, <4>3
      <4> QED
        BY <2>3, <3>1, <4>1, <4>3, <4>4
    <3> QED
      BY <3>2, <3>3
  <2>4. SerialChat(k)'
    BY <1>1, <1>2, <1>4, <1>5, <2>1, <2>2, <2>3 DEF SerialChat
  <2>5. Said(request'[r], "user") = Said(request[r], "user")
    BY <1>0, <1>3 DEF Said
  <2>6. Knows(request'[r], record'[k], MessagesOf(k)', k \in deleted')
    BY <1>1, <1>2, <1>3, <2>1, <2>5 DEF Knows, Holding
  <2> QED
    BY <2>4, <2>6
<1> QED
  BY <1>0, <1>1, <1>2, <1>3, <1>4, <1>5, SerialWrites

LEMMA SerialPersists == ASSUME SerialInv, NEW r \in Requests, SaveAnswer(r) PROVE Serial'
<1>0. PICK k \in Chats : request[r].chat = k
  BY ChatOf DEF SerialInv, Inv, SaveAnswer, At
<1>1. /\ request[r] # NoRequest /\ request[r].stage = "persist_save" /\ messages' = messages
      /\ record' = [record EXCEPT ![k] = Saved(request[r], request[r].loaded.title)]
      /\ overlapped' = overlapped /\ cut' = cut /\ deleted' = deleted
  BY <1>0 DEF SaveAnswer, At, ghosts
<1>2. \A j \in Chats : MessagesOf(j)' = MessagesOf(j)
  BY <1>1, RowsKept
<1>3. request'[r] = NoRequest /\ \A t \in Requests \ {r} : request'[t] = request[t]
  BY DEF SaveAnswer, Done, SerialInv, Inv, TypeInv, TypeOK
<1>4. /\ record'[k].title = request[r].loaded.title
      /\ \A j \in Chats \ {k} : record'[j] = record[j]
  BY <1>1 DEF SerialInv, Inv, TypeInv, TypeOK, Saved
<1>5. ASSUME InFlight(k) = {r}, SerialChat(k), Knows(request[r], record[k], MessagesOf(k), k \in deleted)
      PROVE  SerialChat(k)'
  <2>1. k \notin deleted /\ record[k] = request[r].loaded /\ record[k] # NoRecord
    BY <1>1, <1>5 DEF Knows, Holding, Stages
  <2>2. \A t \in InFlight(k)' : t = r
    BY <1>3, <1>5 DEF InFlight
  <2>3. ~\E t \in InFlight(k) : At(t, "append_save")
    BY <1>1, <1>5 DEF At
  <2> QED
    BY <1>1, <1>2, <1>4, <1>5, <2>1, <2>2, <2>3 DEF SerialChat
<1> QED
  BY <1>0, <1>1, <1>2, <1>3, <1>4, <1>5, SerialWrites

LEMMA SerialFails == ASSUME SerialInv, NEW r \in Requests, Fail(r) PROVE Serial'
<1>0. PICK k \in Chats : request[r].chat = k
  BY ChatOf DEF SerialInv, Inv, Fail
<1>1. /\ request[r] # NoRequest /\ messages' = messages /\ record' = record
      /\ overlapped' = overlapped /\ cut' = cut \cup {k} /\ deleted' = deleted
  BY <1>0 DEF Fail
<1>2. \A j \in Chats : MessagesOf(j)' = MessagesOf(j)
  BY <1>1, RowsKept
<1>3. request'[r] = NoRequest /\ \A t \in Requests \ {r} : request'[t] = request[t]
  BY DEF Fail, Done, SerialInv, Inv, TypeInv, TypeOK
<1>4. SerialChat(k) /\ InFlight(k) = {r} => SerialChat(k)'
  BY <1>1, <1>2, <1>3, ChatKept
<1> QED
  BY <1>0, <1>1, <1>2, <1>3, <1>4, SerialFrame

\* A request joins its conversation alone, or the conversation is overlapped.
LEMMA SerialSend ==
    ASSUME SerialInv, NEW r \in Requests, NEW op \in Ops, NEW k \in Chats, NEW p \in Persons,
           NEW b \in Bodies \cup {NoBody}, Send(r, op, k, p, b)
    PROVE  Serial'
<1> SUFFICES ASSUME NEW j \in Chats, j \notin overlapped'
             PROVE  SerialChat(j)' /\ \A t \in InFlight(j)' : SerialRequest(t)'
  BY DEF Serial
<1>1. /\ request[r] = NoRequest /\ turns < MaxTurns
      /\ record' = record /\ messages' = messages /\ cut' = cut /\ deleted' = deleted
      /\ op = "create" => owner[k] = {}
      /\ j \notin overlapped /\ (j = k => InFlight(k) = {})
  BY DEF Send
<1>2. MessagesOf(j)' = MessagesOf(j)
  BY <1>1, RowsKept
<1>3. SerialChat(j) /\ \A t \in InFlight(j) : SerialRequest(t)
  BY <1>1 DEF SerialInv, Serial
<1>4. /\ \A t \in Requests \ {r} : request'[t] = request[t]
      /\ request'[r].chat = k /\ request'[r].turn = turns + 1 /\ request'[r].op = op
      /\ request'[r].stage = IF op = "create" THEN "create" ELSE "get"
  BY DEF Send, SerialInv, Inv, TypeInv, TypeOK
<1>5. CASE j # k
  <2>1. InFlight(j)' = InFlight(j) /\ r \notin InFlight(j)
    BY <1>1, <1>4, <1>5 DEF InFlight
  <2>2. \A t \in InFlight(j) : request'[t] = request[t] /\ request[t].chat = j
    BY <1>4, <2>1 DEF InFlight
  <2>3. SerialChat(j)'
    BY <1>1, <1>2, <1>3, <2>1, <2>2 DEF SerialChat, At
  <2>4. ASSUME NEW t \in InFlight(j) PROVE SerialRequest(t)'
    BY <1>1, <1>2, <1>3, <2>2, <2>4 DEF SerialRequest
  <2> QED
    BY <2>1, <2>3, <2>4
<1>6. CASE j = k
  <2>1. \A t \in InFlight(k)' : t = r
    BY <1>1, <1>4, <1>6 DEF InFlight
  <2>2. SerialChat(k)'
    BY <1>1, <1>2, <1>3, <1>6, <2>1 DEF SerialChat
  <2>3. \A m \in MessagesOf(k) : m.turn <= turns + 1
    <3>1. \A m \in MessagesOf(k) : m.turn <= turns /\ m.turn \in Nat /\ turns \in Nat
      BY ConversationAssumption
      DEF SerialInv, Counting, MessagesOf, Inv, TypeInv, TypeOK, Message
    <3> QED
      BY <3>1
  <2>4. Knows(request'[r], record[k], MessagesOf(k), k \in deleted)
    <3>1. CASE op = "create"
      <4>1. record[k] = NoRecord /\ MessagesOf(k) = {} /\ k \notin deleted
        BY <1>1, <3>1 DEF SerialInv, Counting
      <4> QED
        BY <1>4, <3>1, <4>1 DEF Knows, Posting, Holding, Context, Asked
    <3>2. CASE op # "create"
      BY <1>4, <2>3, <3>2 DEF Knows, Posting, Holding, Context, Asked
    <3> QED
      BY <3>1, <3>2
  <2>5. SerialRequest(r)'
    BY <1>1, <1>2, <1>4, <1>6, <2>4 DEF SerialRequest
  <2> QED
    BY <1>6, <2>1, <2>2, <2>5
<1> QED
  BY <1>5, <1>6

\* Only rows of created conversations are written, under turns already counted.
LEMMA CountingFrame ==
    ASSUME SerialInv, NEW r \in Requests, NEW k \in Chats,
           request[r] # NoRequest, request[r].chat = k,
           turns' = turns, owner' = owner,
           \A t \in Requests \ {r} : request'[t] = request[t],
           request'[r] # NoRequest =>
               request'[r].chat = k /\ request'[r].turn = request[r].turn,
           \A m \in messages' : m \in messages \/ (m.chat = k /\ m.turn \in {0, request[r].turn}),
           \A j \in Chats \ {k} : record'[j] = record[j] /\ (j \in deleted' => j \in deleted)
    PROVE  Counting'
<1>1. owner[k] # {} /\ request[r].turn <= turns /\ 0 <= turns
  BY ConversationAssumption DEF SerialInv, Counting, Inv, TypeInv, TypeOK
<1>2. \A m \in messages' : m.turn <= turns'
  BY <1>1 DEF SerialInv, Counting
<1>3. \A t \in Requests : request'[t] # NoRequest =>
        /\ request'[t].turn > 0 /\ request'[t].turn <= turns'
        /\ owner'[request'[t].chat] # {}
  BY DEF SerialInv, Counting
<1>4. ASSUME NEW j \in Chats, owner'[j] = {}
      PROVE  record'[j] = NoRecord /\ MessagesOf(j)' = {} /\ j \notin deleted'
  <2>1. j # k /\ MessagesOf(j) = {} /\ record[j] = NoRecord /\ j \notin deleted
    BY <1>1, <1>4 DEF SerialInv, Counting
  <2> QED
    BY <2>1 DEF MessagesOf
<1> QED
  BY <1>2, <1>3, <1>4 DEF Counting

LEMMA StepCounting == SerialInv /\ [Next]_vars => Counting'
<1> SUFFICES ASSUME SerialInv, [Next]_vars PROVE Counting'
  OBVIOUS
<1>0. TypeInv
  BY DEF SerialInv, Inv
<1>1. ASSUME NEW r \in Requests, NEW op \in Ops, NEW k \in Chats, NEW p \in Persons,
             NEW b \in Bodies \cup {NoBody}, Send(r, op, k, p, b)
      PROVE  Counting'
  <2>1. /\ turns \in Nat /\ turns' = turns + 1
        /\ record' = record /\ messages' = messages /\ deleted' = deleted
        /\ messages \in SUBSET Message
        /\ \A t \in Requests : request[t] # NoRequest => request[t] \in Request
    BY <1>0, <1>1, ConversationAssumption DEF Send, TypeInv, TypeOK
  <2>2. \A j \in Chats : owner[j] # {} => owner'[j] # {}
    BY <1>0, <1>1 DEF Send, TypeInv, TypeOK
  <2>3. owner'[k] # {}
    BY <1>0, <1>1 DEF Send, TypeInv, TypeOK
  <2>4. /\ \A t \in Requests \ {r} : request'[t] = request[t]
        /\ request'[r].chat = k /\ request'[r].turn = turns + 1
    BY <1>0, <1>1 DEF Send, TypeInv, TypeOK
  <2>5. \A m \in messages' : m.turn <= turns'
    BY <2>1, ConversationAssumption DEF SerialInv, Counting, Message
  <2>6. ASSUME NEW t \in Requests, request'[t] # NoRequest
        PROVE  /\ request'[t].turn > 0 /\ request'[t].turn <= turns'
               /\ owner'[request'[t].chat] # {}
    <3>1. CASE t = r
      BY <2>1, <2>3, <2>4, <3>1
    <3>2. CASE t # r
      <4>1. /\ request'[t] = request[t] /\ request[t] # NoRequest
            /\ request[t].turn \in Nat /\ request[t].chat \in Chats
        BY <2>1, <2>4, <2>6, <3>2, ConversationAssumption DEF Request
      <4>2. request[t].turn > 0 /\ request[t].turn <= turns /\ owner[request[t].chat] # {}
        BY <4>1 DEF SerialInv, Counting
      <4> QED
        BY <2>1, <2>2, <4>1, <4>2
    <3> QED
      BY <3>1, <3>2
  <2>7. \A j \in Chats : owner'[j] = {} =>
          record'[j] = NoRecord /\ MessagesOf(j)' = {} /\ j \notin deleted'
    BY <2>1, <2>2 DEF SerialInv, Counting, MessagesOf
  <2> QED
    BY <2>5, <2>6, <2>7 DEF Counting
<1>2. ASSUME NEW r \in Requests, Step(r) \/ Fail(r) PROVE Counting'
  <2>1. request[r] # NoRequest
    BY <1>2 DEF Step, Fail, Create, Greet, Get, GetMessages, Validate, Load, SaveSelection,
                DeleteMessages, DeleteRecord, WriteUser, SaveUser, Token, EndAnswer,
                WriteAnswer, SaveAnswer, At
  <2>2. PICK k \in Chats : request[r].chat = k
    BY <1>0, <2>1, ChatOf
  <2>3. turns' = turns /\ owner' = owner
    BY <1>2 DEF Step, Fail, Create, Greet, Get, GetMessages, Validate, Load, SaveSelection,
                DeleteMessages, DeleteRecord, WriteUser, SaveUser, Token, EndAnswer,
                WriteAnswer, SaveAnswer, Keeps
  <2>4. request \in [Requests -> {NoRequest} \cup Request] /\ request[r] \in Request
    BY <1>0, <2>1 DEF TypeInv, TypeOK
  <2>5. /\ \A t \in Requests \ {r} : request'[t] = request[t]
        /\ request'[r] # NoRequest =>
               request'[r].chat = k /\ request'[r].turn = request[r].turn
    <3>1. CASE Done(r)
      BY <2>4, <3>1 DEF Done
    <3>2. CASE \E st : Goto(r, st)
      BY <1>0, <2>1, <2>2, <3>2, Moved
    <3>3. CASE Get(r) /\ ~Done(r)
      BY <2>2, <2>4, <3>3 DEF Get, Request
    <3>4. CASE GetMessages(r) /\ ~Done(r)
      BY <2>2, <2>4, <3>4 DEF GetMessages, Request
    <3>5. CASE Load(r) /\ ~Done(r)
      BY <2>2, <2>4, <3>5 DEF Load, Request
    <3>6. CASE WriteUser(r)
      BY <2>2, <2>4, <3>6 DEF WriteUser, Request
    <3>7. CASE Token(r)
      BY <2>2, <2>4, <3>7 DEF Token, Request
    <3> QED
      BY <1>2, <3>1, <3>2, <3>3, <3>4, <3>5, <3>6, <3>7
      DEF Step, Fail, Create, Greet, Validate, SaveSelection, DeleteMessages, DeleteRecord,
          SaveUser, EndAnswer, WriteAnswer, SaveAnswer
  <2>6. \A m \in messages' : m \in messages \/ (m.chat = k /\ m.turn \in {0, request[r].turn})
    BY <1>2, <2>2
    DEF Step, Fail, Create, Greet, Get, GetMessages, Validate, Load, SaveSelection,
        DeleteMessages, DeleteRecord, WriteUser, SaveUser, Token, EndAnswer,
        WriteAnswer, SaveAnswer, Keeps, Said
  <2>7. \A j \in Chats \ {k} : record'[j] = record[j] /\ (j \in deleted' => j \in deleted)
    BY <1>0, <1>2, <2>2
    DEF Step, Fail, Create, Greet, Get, GetMessages, Validate, Load, SaveSelection,
        DeleteMessages, DeleteRecord, WriteUser, SaveUser, Token, EndAnswer,
        WriteAnswer, SaveAnswer, Keeps, ghosts, TypeInv, TypeOK
  <2> QED
    BY <2>1, <2>2, <2>3, <2>5, <2>6, <2>7, CountingFrame
<1>3. CASE UNCHANGED vars
  <2>1. \A j \in Chats : MessagesOf(j)' = MessagesOf(j)
    BY <1>3, RowsKept DEF vars
  <2> QED
    BY <1>3, <2>1 DEF SerialInv, Counting, vars
<1> QED
  BY <1>1, <1>2, <1>3 DEF Next

LEMMA StepSerial == SerialInv /\ [Next]_vars => SerialInv'
<1> SUFFICES ASSUME SerialInv, [Next]_vars PROVE SerialInv'
  OBVIOUS
<1>1. Inv'
  BY StepTypes, StepOwned DEF SerialInv, Inv, Owned
<1>2. CASE UNCHANGED vars
  <2>1. \A j \in Chats : MessagesOf(j)' = MessagesOf(j) /\ InFlight(j)' = InFlight(j)
    BY <1>2, RowsKept DEF vars, InFlight
  <2>2. \A j \in Chats : SerialChat(j) => SerialChat(j)'
    BY <1>2, <2>1 DEF vars, SerialChat, At
  <2>3. \A t \in Requests : request[t] # NoRequest /\ SerialRequest(t) => SerialRequest(t)'
    <3> SUFFICES ASSUME NEW t \in Requests, request[t] # NoRequest, SerialRequest(t)
                 PROVE  SerialRequest(t)'
      OBVIOUS
    <3>1. request[t].chat \in Chats
      BY ChatOf DEF SerialInv, Inv
    <3> QED
      BY <1>2, <2>1, <3>1 DEF vars, SerialRequest
  <2>4. Serial'
    BY <1>2, <2>1, <2>2, <2>3 DEF vars, SerialInv, Serial, InFlight
  <2> QED
    BY <1>1, <2>4, StepCounting DEF SerialInv
<1>3. CASE Next
  <2>1. Serial'
    BY <1>3, SerialSend, SerialFails, SerialCreate, SerialGreet, SerialReads, SerialTalks,
       SerialSelects, SerialDeletes, SerialAsks, SerialTitles, SerialAnswers, SerialPersists
    DEF Next, Step
  <2> QED
    BY <1>1, <2>1, StepCounting DEF SerialInv
<1> QED
  BY <1>2, <1>3

LEMMA SerialInvariance == Spec => []SerialInv
<1>1. Init => SerialInv
  <2> SUFFICES ASSUME Init PROVE SerialInv
    OBVIOUS
  <2>1. \A k \in Chats : MessagesOf(k) = {} /\ InFlight(k) = {}
    BY DEF Init, MessagesOf, InFlight
  <2>2. Counting
    BY <2>1 DEF Init, Counting
  <2>3. Serial
    BY <2>1 DEF Init, Serial, SerialChat
  <2> QED
    BY <2>2, <2>3, InitInv DEF SerialInv
<1> QED
  BY <1>1, StepSerial, PTL DEF Spec

\* Used by one request at a time, a conversation stays deleted, its answers
\* follow their questions under the first question's title, and the model is
\* sent the whole transcript.
THEOREM SerialAtomicity == Spec => []SerialUseIsAtomic
<1>1. SerialInv => SerialUseIsAtomic
  <2> SUFFICES ASSUME SerialInv PROVE SerialUseIsAtomic
    OBVIOUS
  <2>1. ASSUME NEW k \in Chats, k \notin overlapped
        PROVE  SerialChat(k) /\ \A r \in InFlight(k) : SerialRequest(r)
    BY <2>1 DEF SerialInv, Serial
  <2>2. SerialDeleteIsFinal
    BY <2>1 DEF SerialDeleteIsFinal, SerialChat, SerialInv, Inv, TypeInv, TypeOK
  <2>3. SerialTranscript
    <3> SUFFICES ASSUME NEW k \in Chats, k \notin overlapped
                 PROVE  /\ \A m \in MessagesOf(k) :
                             m.role = "assistant" /\ m.turn > 0 =>
                                 Said([chat |-> k, turn |-> m.turn], "user") \in messages
                        /\ InFlight(k) = {} /\ k \notin cut /\ record[k] # NoRecord =>
                             \A m \in MessagesOf(k) : m.role = "user" =>
                                 record[k].title > 0 /\ record[k].title <= m.turn
      BY DEF SerialTranscript
    <3>1. SerialChat(k)
      BY <2>1
    <3>2. MessagesOf(k) \subseteq messages
      BY DEF MessagesOf
    <3> QED
      BY <3>1, <3>2 DEF SerialChat
  <2>4. CompleteContext
    <3> SUFFICES ASSUME NEW r \in Requests, At(r, "answer"), request[r].chat \notin overlapped
                 PROVE  request[r].history = MessagesOf(request[r].chat)
      BY DEF CompleteContext
    <3>1. r \in InFlight(request[r].chat) /\ request[r].chat \in Chats
      BY ChatOf DEF At, InFlight, SerialInv, Inv
    <3>2. SerialRequest(r)
      BY <2>1, <3>1
    <3> QED
      BY <3>2 DEF SerialRequest, Knows, At, Posting, Context
  <2> QED
    BY <2>2, <2>3, <2>4 DEF SerialUseIsAtomic
<1> QED
  BY <1>1, SerialInvariance, PTL

\* Used by one request at a time, a stored selection is changed by nothing but a
\* selection: no copy that is written back is an earlier one.
THEOREM SelectionRetained == Spec => SerialSelectionRetained
<1>1. SerialInv /\ [Next]_vars => [\A k \in Chats \ overlapped : SelectionStep(k)]_vars
  <2> SUFFICES ASSUME SerialInv, Next, NEW k \in Chats, k \notin overlapped,
                      record[k] # NoRecord, record'[k] # NoRecord,
                      record'[k].active # record[k].active
               PROVE  \E r \in InFlight(k) : At(r, "select_save")
    BY DEF SelectionStep
  <2>0. TypeInv /\ record \in [Chats -> {NoRecord} \cup Record]
    BY DEF SerialInv, Inv, TypeInv, TypeOK
  <2>1. ASSUME NEW r \in Requests, request[r] # NoRequest, request[r].chat = k,
               request[r].stage \in {"create"} \cup Holding
        PROVE  request[r].stage # "create" /\ request[r].loaded = record[k]
    <3>1. SerialRequest(r)
      BY <2>1 DEF SerialInv, Serial, InFlight
    <3> QED
      BY <2>1, <3>1 DEF SerialRequest, Knows
  <2>2. PICK r \in Requests : Create(r) \/ SaveSelection(r) \/ DeleteRecord(r) \/ SaveUser(r) \/ SaveAnswer(r)
    BY DEF Next, Step, Send, Fail, Greet, Get, GetMessages, Validate, Load, DeleteMessages,
           WriteUser, Token, EndAnswer, WriteAnswer, Keeps
  <2>3. request[r] # NoRequest /\ request[r].chat = k
    BY <2>0, <2>2 DEF Create, SaveSelection, DeleteRecord, SaveUser, SaveAnswer, At
  <2>4. CASE Create(r)
    BY <2>1, <2>3, <2>4 DEF Create, At
  <2>5. CASE SaveSelection(r)
    BY <2>3, <2>5 DEF SaveSelection, At, InFlight
  <2>6. CASE DeleteRecord(r)
    BY <2>0, <2>3, <2>6 DEF DeleteRecord
  <2>7. CASE SaveUser(r) \/ SaveAnswer(r)
    <3>1. request[r].stage \in Holding
      BY <2>7 DEF SaveUser, SaveAnswer, At, Holding, Stages
    <3>2. record'[k].active = request[r].loaded.active
      BY <2>0, <2>3, <2>7 DEF SaveUser, SaveAnswer, Saved
    <3> QED
      BY <2>1, <2>3, <3>1, <3>2
  <2> QED
    BY <2>2, <2>4, <2>5, <2>6, <2>7
<1> QED
  BY <1>1, SerialInvariance, PTL DEF Spec, SerialSelectionRetained

=============================================================================
