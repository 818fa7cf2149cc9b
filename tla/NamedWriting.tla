---------------------------- MODULE NamedWriting ----------------------------
(***************************************************************************)
(* NamedItemWritingService.mutate and render_mutation_result: a write that *)
(* names its item and its place.  The names are resolved by the fact       *)
(* engine, without the writer's lock; then ItemWritingService is called    *)
(* with what they denoted.  A call of the writer is one step: its lock     *)
(* keeps other writers out between its reads and its transaction           *)
(* (ItemWriting).  Between the steps of one request the steps of the       *)
(* others run.                                                             *)
(***************************************************************************)
EXTENDS Naturals, FiniteSets

CONSTANTS
    Keys,          \* keys of item records
    PlacesCalled,  \* the places each name denotes
    HomePlaces,    \* the places in the household
    Suitable,      \* the places whose type located_in accepts
    Writable,      \* attribute values the ontology and the item schema accept
    Clients,       \* requests that may be in flight
    Requests, Stores,
    MaxCalls       \* bound on the requests of a behaviour

VARIABLES
    store,         \* the item of each key: its names, attribute and place
    step,          \* the await each client is suspended at
    request, resolved, place,
    reply,         \* the text each client was answered with
    wrote,         \* whether its transaction ran
    moments,       \* the stores there have been since its request began
    calls          \* requests begun

\* Names, values and places are only compared; located_in goes to addresses and
\* spaces, never to an item.
ASSUME NamedAssumption ==
    /\ IsFiniteSet(Keys) /\ "" \notin Keys
    /\ Keys \cap Suitable = {}
    /\ \A s \in Stores : s \in [Keys -> [names : SUBSET STRING, value : STRING, at : STRING]]
    /\ \A q \in Requests : /\ q \in [op : {"create", "update_location", "update_attributes", "delete"},
                                     item : STRING, place : STRING, value : STRING, key : STRING,
                                     names : SUBSET STRING, mode : {"preview", "commit"}]
                           /\ q.op = "create" => q.key \in Keys
                           /\ IsFiniteSet(PlacesCalled[q.place]) /\ PlacesCalled[q.place] \subseteq STRING

NoRecord == [names |-> {}, value |-> "", at |-> ""]
NoRequest == [op |-> ""]

named == <<store, step, request, resolved, place, reply, wrote, moments, calls>>

NamedInit ==
    /\ store \in Stores
    /\ step = [c \in Clients |-> "idle"]
    /\ request = [c \in Clients |-> NoRequest]
    /\ resolved = [c \in Clients |-> ""]
    /\ place = [c \in Clients |-> ""]
    /\ reply = [c \in Clients |-> ""]
    /\ wrote = [c \in Clients |-> FALSE]
    /\ moments = [c \in Clients |-> {}]
    /\ calls = 0

-----------------------------------------------------------------------------
(* Names. *)

\* named_entity of the item table, kept to the household: an item without a
\* place in it is not found.
ItemsNamed(s, n) == {k \in Keys : n \in s[k].names /\ s[k].at \in HomePlaces}

\* A destination may be an entity of any type.
DestinationsNamed(s, n) == PlacesCalled[n] \cup ItemsNamed(s, n)

\* The status of resolve_reference.
Found(ids) ==
    IF ids = {} THEN "entity_not_found"
    ELSE IF Cardinality(ids) = 1 THEN "found" ELSE "ambiguous"
The(ids) == CHOOSE id \in ids : TRUE

-----------------------------------------------------------------------------
(* The text a reply is rendered as.  Wording and language are left out: a  *)
(* text is the claim it makes.                                             *)

Render(op, status, reason) ==
    CASE status = "REJECTED" /\ reason = "ATTRIBUTE" -> "not in the schema"
      [] status \in {"APPLIED", "NO_CHANGE"} -> IF op = "delete" THEN "deleted" ELSE "recorded"
      [] status = "PROPOSED" -> "preview"
      [] status = "NOT_FOUND" -> IF reason = "LOCATION" THEN "place not found" ELSE "item not found"
      [] status = "CONFLICT" -> IF reason = "ITEM_ALREADY_EXISTS" THEN "exists" ELSE "unclear"
      [] OTHER -> "unconfirmed"

Return(c, text) ==
    /\ reply' = [reply EXCEPT ![c] = text]
    /\ step' = [step EXCEPT ![c] = "done"]
    /\ resolved' = [resolved EXCEPT ![c] = ""]
    /\ place' = [place EXCEPT ![c] = ""]

Answer(c, status, reason) == Return(c, Render(request[c].op, status, reason))

Go(c, stage, item, destination) ==
    /\ step' = [step EXCEPT ![c] = stage]
    /\ resolved' = [resolved EXCEPT ![c] = item]
    /\ place' = [place EXCEPT ![c] = destination]
    /\ UNCHANGED reply

\* The requests that are under way see every store there is.
Put(s) ==
    /\ store' = s
    /\ moments' = [d \in Clients |->
                     IF step[d] \in {"idle", "done"} THEN moments[d] ELSE moments[d] \cup {s}]

-----------------------------------------------------------------------------
(* NamedItemWritingService.mutate *)

\* The fields of each request model; those it does not have are empty.
NamedWellFormed(q) ==
    /\ (q.place # "") <=> (q.op \in {"create", "update_location"})
    /\ (q.names # {} /\ q.key # "") <=> (q.op = "create")
    /\ q.op = "update_attributes" => q.value # ""
    /\ q.op \in {"update_location", "delete"} => q.value = ""

Begin(c, q) ==
    /\ NamedWellFormed(q)
    /\ step[c] \in {"idle", "done"} /\ calls < MaxCalls
    /\ calls' = calls + 1
    /\ request' = [request EXCEPT ![c] = q]
    /\ moments' = [moments EXCEPT ![c] = {store}]
    /\ wrote' = [wrote EXCEPT ![c] = FALSE]
    /\ reply' = [reply EXCEPT ![c] = ""]
    /\ step' = [step EXCEPT ![c] = "item"]
    /\ UNCHANGED <<store, resolved, place>>

\* create supplies item_type when the request has no attribute of its own.
ValidAttributes(q) == q.value \in Writable \cup {""}

\* The item's name, and then the attributes, before any other query.
ResolveItem(c) ==
    LET q == request[c]
        ids == ItemsNamed(store, q.item)
    IN  /\ step[c] = "item"
        /\ \/ Found(ids) = "ambiguous" /\ Answer(c, "CONFLICT", "ITEM")
           \/ /\ Found(ids) = "entity_not_found" /\ q.op # "create"
              /\ Answer(c, "NOT_FOUND", "ITEM")
           \/ /\ Found(ids) = "found" \/ (Found(ids) = "entity_not_found" /\ q.op = "create")
              /\ IF ~ValidAttributes(q) THEN Answer(c, "REJECTED", "ATTRIBUTE")
                 ELSE Go(c, IF q.op \in {"create", "update_location"} THEN "place" ELSE "write",
                         IF ids = {} THEN "" ELSE The(ids), "")
        /\ UNCHANGED <<store, request, wrote, moments, calls>>

ResolvePlace(c) ==
    LET q == request[c]
        ids == DestinationsNamed(store, q.place)
    IN  /\ step[c] = "place"
        /\ CASE Found(ids) = "ambiguous" -> Answer(c, "CONFLICT", "LOCATION")
             [] Found(ids) = "entity_not_found" -> Answer(c, "NOT_FOUND", "LOCATION")
             [] OTHER -> Go(c, IF q.op = "create" /\ resolved[c] # "" THEN "preview" ELSE "write",
                            resolved[c], The(ids))
        /\ UNCHANGED <<store, request, wrote, moments, calls>>

\* Mutant: a preview that would move the item counts as no change.
PreviewAnyPlace(c) ==
    /\ step[c] = "preview"
    /\ IF store[resolved[c]] # NoRecord /\ place[c] \in Suitable
       THEN Go(c, "stored", resolved[c], place[c])
       ELSE Answer(c, "CONFLICT", "ITEM_ALREADY_EXISTS")
    /\ UNCHANGED <<store, request, wrote, moments, calls>>

\* create of a name that is found: a preview of update_location tells whether
\* the item is at the place already.  Any other outcome, the item's deletion
\* or an unsuitable place included, is answered as an existing item.
Preview(c) ==
    /\ step[c] = "preview"
    /\ IF store[resolved[c]] # NoRecord /\ place[c] \in Suitable /\ store[resolved[c]].at = place[c]
       THEN Go(c, "stored", resolved[c], place[c])
       ELSE Answer(c, "CONFLICT", "ITEM_ALREADY_EXISTS")
    /\ UNCHANGED <<store, request, wrote, moments, calls>>

\* The record is read again, without the lock.  One that is gone by now has no
\* get(): the error leaves the agent.
ReadStored(c) ==
    LET q == request[c]
        record == store[resolved[c]]
    IN  /\ step[c] = "stored"
        /\ IF record = NoRecord THEN Return(c, "error")
           ELSE IF q.value \notin {"", record.value}
                THEN Answer(c, "CONFLICT", "ITEM_ALREADY_EXISTS")
                ELSE Answer(c, "NO_CHANGE", "ITEM_ALREADY_RECORDED_AT_LOCATION")
        /\ UNCHANGED <<store, request, wrote, moments, calls>>

\* ItemWritingService.mutate: the record each operation would leave.
Key(c) == IF request[c].op = "create" THEN request[c].key ELSE resolved[c]
Written(c) ==
    LET q == request[c]
        record == store[Key(c)]
    IN  CASE q.op = "create" ->
                 [names |-> q.names, at |-> place[c],
                  value |-> IF q.value = "" THEN "unknown" ELSE q.value]
          [] q.op = "update_location" -> [record EXCEPT !.at = place[c]]
          [] q.op = "update_attributes" -> [record EXCEPT !.value = q.value]
          [] q.op = "delete" -> NoRecord

\* Its outcome up to the transaction: a status and a reason.
Outcome(c) ==
    LET q == request[c]
        record == store[Key(c)]
    IN  IF q.op = "create" /\ record # NoRecord THEN <<"CONFLICT", "ITEM_ALREADY_EXISTS">>
        ELSE IF q.op # "create" /\ record = NoRecord THEN <<"NOT_FOUND", "ITEM">>
        ELSE IF q.op \in {"create", "update_location"} /\ place[c] \notin Suitable
             THEN <<"REJECTED", "INVALID_LOCATION_TYPE">>
        ELSE IF q.op # "create" /\ Written(c) = record THEN <<"NO_CHANGE", "">>
        ELSE IF q.mode = "preview" THEN <<"PROPOSED", "">> ELSE <<"APPLIED", "">>

Write(c) ==
    /\ step[c] = "write"
    /\ Answer(c, Outcome(c)[1], Outcome(c)[2])
    /\ IF Outcome(c)[1] = "APPLIED"
       THEN /\ Put([store EXCEPT ![Key(c)] = Written(c)])
            /\ wrote' = [wrote EXCEPT ![c] = TRUE]
       ELSE UNCHANGED <<store, moments, wrote>>
    /\ UNCHANGED <<request, calls>>

\* The transaction fails, or its reply is lost: it has run or has not.
WriteUnanswered(c) ==
    /\ step[c] = "write" /\ Outcome(c)[1] = "APPLIED"
    /\ Answer(c, "REJECTED", "TRANSACTION_FAILED")
    /\ \/ /\ Put([store EXCEPT ![Key(c)] = Written(c)])
          /\ wrote' = [wrote EXCEPT ![c] = TRUE]
       \/ UNCHANGED <<store, moments, wrote>>
    /\ UNCHANGED <<request, calls>>

\* A query of the resolver fails: the engine does not answer.
ResolveFails(c) ==
    /\ step[c] \in {"item", "place"}
    /\ Return(c, "error")
    /\ UNCHANGED <<store, request, wrote, moments, calls>>

NamedNext ==
    \E c \in Clients : \/ \E q \in Requests : Begin(c, q)
                       \/ ResolveItem(c)
                       \/ ResolvePlace(c)
                       \/ Preview(c)
                       \/ ReadStored(c)
                       \/ Write(c)
                       \/ WriteUnanswered(c)
                       \/ ResolveFails(c)

NamedSpec == NamedInit /\ [][NamedNext]_named

\* The bound is met.
Finished == calls = MaxCalls /\ \A c \in Clients : step[c] \in {"idle", "done"}

-----------------------------------------------------------------------------
(* Properties *)

\* What a text claims, against the stores there were while its request ran.
Claim(c) ==
    LET q == request[c]
        OnceNamed(k) == \E s \in moments[c] : k \in ItemsNamed(s, q.item)
        OnceAt(k) == \E s \in moments[c] : s[k].at \in PlacesCalled[q.place]
        OnceValued(k) == \E s \in moments[c] : s[k].value = q.value
        Mine(k) == OnceNamed(k) \/ (q.op = "create" /\ wrote[c] /\ k = q.key)
    IN  CASE reply[c] = "recorded" ->
                 \E k \in Keys : /\ Mine(k)
                                 /\ q.op # "update_attributes" => OnceAt(k)
                                 /\ q.value # "" => OnceValued(k)
          [] reply[c] = "deleted" ->
                 wrote[c] /\ \E k \in Keys : OnceNamed(k) /\ \E s \in moments[c] : s[k] = NoRecord
          [] reply[c] = "exists" ->
                 \E s \in moments[c] : ItemsNamed(s, q.item) # {} \/ s[q.key] # NoRecord
          [] reply[c] = "item not found" ->
                 \E s \in moments[c] : \/ ItemsNamed(s, q.item) = {}
                                       \/ \E k \in Keys : OnceNamed(k) /\ s[k] = NoRecord
          [] reply[c] = "place not found" ->
                 \E s \in moments[c] : DestinationsNamed(s, q.place) = {}
          [] reply[c] = "unclear" ->
                 \E s \in moments[c] : \/ Cardinality(ItemsNamed(s, q.item)) > 1
                                       \/ Cardinality(DestinationsNamed(s, q.place)) > 1
          [] OTHER -> TRUE

\* "Acknowledge only tool-confirmed outcomes" (render_mutation_result): each
\* text is true of the stores of its own request.  What it says was recorded
\* or deleted has been, of the item that was named; a text that says that
\* nothing was changed comes from a request that wrote nothing; and a create
\* that wrote met a store without an item of its name, so that a second item
\* of one name is only made by requests that run at once.
ReplyJustified ==
    \A c \in Clients :
        step[c] = "done" =>
            /\ Claim(c)
            /\ wrote[c] => reply[c] \in {"recorded", "deleted", "unconfirmed"}
            /\ wrote[c] /\ request[c].op = "create" =>
                 \E s \in moments[c] : ItemsNamed(s, request[c].item) = {}
=============================================================================
