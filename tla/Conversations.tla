---------------------------- MODULE Conversations ----------------------------
(***************************************************************************)
(* Durable transcripts: the conversation routes over                       *)
(* SurrealConversationStore, await by await, with AnswerExecution between  *)
(* the user's message and the assistant's.                                 *)
(*                                                                         *)
(* The store has no lock and no transaction: an append or a selection      *)
(* loads the conversation record, and later writes all of it back.         *)
(* Requests of one conversation may overlap (a second browser tab, a       *)
(* selection or a deletion while an answer is streaming), and any request  *)
(* may end at any await: a failed query, a crash of the process.           *)
(***************************************************************************)
EXTENDS Naturals, FiniteSets

CONSTANTS
    Chats,         \* conversation ids (uuid4, never reused)
    Persons,       \* resolved identities, the anonymous one included
    Bodies,        \* selectable embodiments
    Requests,      \* requests in flight at once
    NoBody, NoRecord, NoRequest,
    MaxTurns       \* bound on requests sent

ASSUME ConversationAssumption == NoBody \notin Bodies /\ MaxTurns \in Nat

VARIABLES
    record,        \* conversation table
    messages,      \* message table: a set of [chat, turn, role]
    request,       \* requests in flight
    turns,         \* requests sent so far; numbers their contents
    owner,         \* owner[k]: the persons for whom k was created
    overlapped,    \* conversations two requests were in flight on at once
    cut,           \* conversations on which a request ended at an await
    deleted        \* conversations whose deletion was answered

vars == <<record, messages, request, turns, owner, overlapped, cut, deleted>>
ghosts == <<overlapped, cut, deleted>>

\* title: the turn whose content it was taken from, 0 for the greeting.
Record == [person : Persons, active : Bodies \cup {NoBody}, title : 0..MaxTurns]
Message == [chat : Chats, turn : 0..MaxTurns, role : {"user", "assistant"}]
Ops == {"create", "select", "delete", "post"}
Stages == {"create", "greet", "get", "messages", "validate",
           "select_load", "select_save",
           "delete_load", "delete_messages", "delete_record",
           "append_load", "append_write", "append_save", "answer",
           "persist_load", "persist_write", "persist_save"}
Request ==
    [op : Ops, chat : Chats, person : Persons, turn : 0..MaxTurns,
     body : Bodies \cup {NoBody},
     stage : Stages, loaded : {NoRecord} \cup Record,
     history : SUBSET Message,  \* the messages get() returned, then the user's own
     answered : BOOLEAN]        \* AnswerExecution collected a non-empty answer

\* The marker of a free slot is not a request.
ASSUME NoRequestAssumption == NoRequest \notin Request

TypeOK ==
    /\ record \in [Chats -> {NoRecord} \cup Record]
    /\ messages \in SUBSET Message
    /\ request \in [Requests -> {NoRequest} \cup Request]
    /\ turns \in 0..MaxTurns
    /\ owner \in [Chats -> SUBSET Persons]
    /\ overlapped \in SUBSET Chats /\ cut \in SUBSET Chats /\ deleted \in SUBSET Chats

Init ==
    /\ record = [k \in Chats |-> NoRecord]
    /\ messages = {}
    /\ request = [r \in Requests |-> NoRequest]
    /\ turns = 0
    /\ owner = [k \in Chats |-> {}]
    /\ overlapped = {} /\ cut = {} /\ deleted = {}

MessagesOf(k) == {m \in messages : m.chat = k}
InFlight(k) == {r \in Requests : request[r] # NoRequest /\ request[r].chat = k}

-----------------------------------------------------------------------------
(* Requests *)

Send(r, op, k, p, b) ==
    /\ request[r] = NoRequest
    /\ turns < MaxTurns
    /\ op = "create" => owner[k] = {}
    /\ op # "create" => owner[k] # {}
    /\ b # NoBody => op = "select"
    /\ turns' = turns + 1
    /\ request' = [request EXCEPT ![r] =
                      [op |-> op, chat |-> k, person |-> p, turn |-> turns + 1, body |-> b,
                       stage |-> IF op = "create" THEN "create" ELSE "get",
                       loaded |-> NoRecord, history |-> {}, answered |-> FALSE]]
    /\ overlapped' = IF InFlight(k) # {} THEN overlapped \cup {k} ELSE overlapped
    /\ owner' = IF op = "create" THEN [owner EXCEPT ![k] = {p}] ELSE owner
    /\ UNCHANGED <<record, messages, cut, deleted>>

At(r, stage) == request[r] # NoRequest /\ request[r].stage = stage
Goto(r, stage) == request' = [request EXCEPT ![r].stage = stage]
Done(r) == request' = [request EXCEPT ![r] = NoRequest]
Keeps == UNCHANGED <<record, messages, turns, owner, ghosts>>

\* A query fails, or the process dies: what was written stays.
Fail(r) ==
    /\ request[r] # NoRequest
    /\ Done(r)
    /\ cut' = cut \cup {request[r].chat}
    /\ UNCHANGED <<record, messages, turns, owner, overlapped, deleted>>

\* store.create: the record, then the greeting if there is one.
Create(r) ==
    LET q == request[r]
    IN  /\ At(r, "create")
        /\ record' = [record EXCEPT ![q.chat] =
                         [person |-> q.person, active |-> NoBody, title |-> 0]]
        /\ Goto(r, "greet") \/ Done(r)
        /\ UNCHANGED <<messages, turns, owner, ghosts>>

Greet(r) ==
    /\ At(r, "greet")
    /\ messages' = messages \cup {[chat |-> request[r].chat, turn |-> 0, role |-> "assistant"]}
    /\ Done(r)
    /\ UNCHANGED <<record, turns, owner, ghosts>>

-----------------------------------------------------------------------------
(* owned_conversation and validate_active_embodiment *)

\* store.get, first query; a missing conversation is answered 404.
Get(r) ==
    /\ At(r, "get")
    /\ IF record[request[r].chat] = NoRecord THEN Done(r)
       ELSE request' = [request EXCEPT ![r].stage = "messages",
                                       ![r].loaded = record[request[r].chat]]
    /\ Keeps

\* Mutant: only a deletion compares the owner.
BuggyGetMessages(r) ==
    LET q == request[r]
    IN  /\ At(r, "messages")
        /\ IF q.op = "delete" /\ q.loaded.person # q.person THEN Done(r)
           ELSE request' = [request EXCEPT
                  ![r].history = IF q.op = "post" THEN MessagesOf(q.chat) ELSE {},
                  ![r].stage = IF q.op = "delete" THEN "delete_load" ELSE "validate"]
        /\ Keeps

\* store.get, second query; then the owner is compared: 404 for anyone else.
GetMessages(r) ==
    LET q == request[r]
    IN  /\ At(r, "messages")
        /\ IF q.loaded.person # q.person THEN Done(r)
           ELSE request' = [request EXCEPT
                  ![r].history = IF q.op = "post" THEN MessagesOf(q.chat) ELSE {},
                  ![r].stage = IF q.op = "delete" THEN "delete_load" ELSE "validate"]
        /\ Keeps

\* No body needs no validation; for a body the assignment decides.
Validate(r) ==
    LET q == request[r]
        body == IF q.op = "select" THEN q.body ELSE q.loaded.active
    IN  /\ At(r, "validate")
        /\ \/ body # NoBody /\ Done(r)
           \/ Goto(r, IF q.op = "select" THEN "select_load" ELSE "append_load")
        /\ Keeps

-----------------------------------------------------------------------------
(* store.set_active_embodiment and store.delete *)

\* _load of set_active_embodiment, append_message and delete.
Load(r) ==
    LET q == request[r]
        next == CASE q.stage = "select_load" -> "select_save"
                  [] q.stage = "delete_load" -> "delete_messages"
                  [] q.stage = "append_load" -> "append_write"
                  [] q.stage = "persist_load" -> "persist_write"
    IN  /\ request[r] # NoRequest
        /\ q.stage \in {"select_load", "delete_load", "append_load", "persist_load"}
        /\ IF record[q.chat] = NoRecord THEN Done(r)
           ELSE request' = [request EXCEPT ![r].stage = next, ![r].loaded = record[q.chat]]
        /\ Keeps

SaveSelection(r) ==
    LET q == request[r]
    IN  /\ At(r, "select_save")
        /\ record' = [record EXCEPT ![q.chat] = [q.loaded EXCEPT !.active = q.body]]
        /\ Done(r)
        /\ UNCHANGED <<messages, turns, owner, ghosts>>

\* Mutant: the messages are left to a cascade.
BuggyDeleteMessages(r) ==
    /\ At(r, "delete_messages")
    /\ Goto(r, "delete_record")
    /\ Keeps

DeleteMessages(r) ==
    /\ At(r, "delete_messages")
    /\ messages' = messages \ MessagesOf(request[r].chat)
    /\ Goto(r, "delete_record")
    /\ UNCHANGED <<record, turns, owner, ghosts>>

DeleteRecord(r) ==
    /\ At(r, "delete_record")
    /\ record' = [record EXCEPT ![request[r].chat] = NoRecord]
    /\ deleted' = deleted \cup {request[r].chat}
    /\ Done(r)
    /\ UNCHANGED <<messages, turns, owner, overlapped, cut>>

-----------------------------------------------------------------------------
(* post_conversation_message: append, answer, persist *)

Said(q, role) == [chat |-> q.chat, turn |-> q.turn, role |-> role]

WriteUser(r) ==
    LET q == request[r]
    IN  /\ At(r, "append_write")
        /\ messages' = messages \cup {Said(q, "user")}
        /\ request' = [request EXCEPT ![r].stage = "append_save",
                                      ![r].history = @ \cup {Said(q, "user")}]
        /\ UNCHANGED <<record, turns, owner, ghosts>>

\* The route decided first_user from the messages it had read.
FirstUser(q) == ~\E m \in q.history : m.role = "user" /\ m.turn # q.turn

Title(q) == IF FirstUser(q) THEN q.turn ELSE q.loaded.title

\* Mutant: the selection is not among the columns written back.
BuggySaved(q, title) == [person |-> q.loaded.person, active |-> NoBody, title |-> title]

\* append_message's upsert: the whole record, from the copy it loaded.
Saved(q, title) == [person |-> q.loaded.person, active |-> q.loaded.active, title |-> title]

SaveUser(r) ==
    LET q == request[r]
    IN  /\ At(r, "append_save")
        /\ record' = [record EXCEPT ![q.chat] = Saved(q, Title(q))]
        /\ Goto(r, "answer")
        /\ UNCHANGED <<messages, turns, owner, ghosts>>

\* AnswerExecution.tokens: a non-empty chunk.
Token(r) ==
    /\ At(r, "answer")
    /\ ~request[r].answered
    /\ request' = [request EXCEPT ![r].answered = TRUE]
    /\ Keeps

\* The stream ends, fails, or its client leaves: what was collected, if
\* anything, is persisted in every case.
EndAnswer(r) ==
    /\ At(r, "answer")
    /\ IF request[r].answered THEN Goto(r, "persist_load") ELSE Done(r)
    /\ Keeps

WriteAnswer(r) ==
    /\ At(r, "persist_write")
    /\ messages' = messages \cup {Said(request[r], "assistant")}
    /\ Goto(r, "persist_save")
    /\ UNCHANGED <<record, turns, owner, ghosts>>

SaveAnswer(r) ==
    LET q == request[r]
    IN  /\ At(r, "persist_save")
        /\ record' = [record EXCEPT ![q.chat] = Saved(q, q.loaded.title)]
        /\ Done(r)
        /\ UNCHANGED <<messages, turns, owner, ghosts>>

-----------------------------------------------------------------------------

Step(r) ==
    \/ Create(r) \/ Greet(r)
    \/ Get(r) \/ GetMessages(r) \/ Validate(r) \/ Load(r)
    \/ SaveSelection(r)
    \/ DeleteMessages(r) \/ DeleteRecord(r)
    \/ WriteUser(r) \/ SaveUser(r)
    \/ Token(r) \/ EndAnswer(r)
    \/ WriteAnswer(r) \/ SaveAnswer(r)

Next ==
    \E r \in Requests :
        \/ \E op \in Ops, k \in Chats, p \in Persons, b \in Bodies \cup {NoBody} : Send(r, op, k, p, b)
        \/ Step(r)
        \/ Fail(r)

Spec == Init /\ [][Next]_vars

-----------------------------------------------------------------------------
(* Properties *)

\* "Conversations are owner-only" (src/README.md): however stale the copies that
\* are written back, and even when one brings a deleted record back, a
\* conversation belongs to the person it was created for, and nobody else's
\* request gets past the ownership check to a write.
OwnerOnly ==
    /\ \A k \in Chats : record[k] # NoRecord => record[k].person \in owner[k]
    /\ \A r \in Requests :
          request[r] # NoRequest /\ request[r].stage \notin {"get", "messages"} =>
              request[r].person \in owner[request[r].chat]

\* Ownership, of typed records.
ConversationsAreOwned == TypeOK /\ OwnerOnly

\* A conversation used by one request at a time stays deleted once its deletion
\* was answered, messages included.
SerialDeleteIsFinal ==
    \A k \in deleted \ overlapped : record[k] = NoRecord /\ MessagesOf(k) = {}

\* Used by one request at a time, a stored answer follows its stored question,
\* and the title is that of the first question unless a request was cut short.
SerialTranscript ==
    \A k \in Chats \ overlapped :
        /\ \A m \in MessagesOf(k) :
              m.role = "assistant" /\ m.turn > 0 => Said([chat |-> k, turn |-> m.turn], "user") \in messages
        /\ InFlight(k) = {} /\ k \notin cut /\ record[k] # NoRecord =>
              \A m \in MessagesOf(k) : m.role = "user" =>
                 record[k].title > 0 /\ record[k].title <= m.turn

\* Used by one request at a time, the model is sent the whole transcript, the
\* new question included.
CompleteContext ==
    \A r \in Requests :
        At(r, "answer") /\ request[r].chat \notin overlapped =>
            request[r].history = MessagesOf(request[r].chat)

\* A conversation used by one request at a time is an atomic store: deleted for
\* good, every answer after its question, and every turn in the model's context.
SerialUseIsAtomic == SerialDeleteIsFinal /\ SerialTranscript /\ CompleteContext

\* The selected body changes only by a selection.
SelectionStep(k) ==
    record[k] # NoRecord /\ record'[k] # NoRecord /\ record'[k].active # record[k].active =>
        \E r \in InFlight(k) : At(r, "select_save")

\* Used by one request at a time, no message written from an earlier copy of
\* the record undoes a selection (append_message keeps active_embodiment_id).
SerialSelectionRetained == [][\A k \in Chats \ overlapped : SelectionStep(k)]_vars

=============================================================================
