----------------------------- MODULE ItemWriting -----------------------------
(***************************************************************************)
(* ItemWritingService: create, update_location, update_attributes and      *)
(* delete of household items.  A call takes the service's lock, validates  *)
(* its request with one query per await, returns a preview or sends one    *)
(* guarded transaction built from what it read, and answers a              *)
(* MutationResult.                                                         *)
(*                                                                         *)
(* A query may fail.  The reply to a transaction may be lost (the caller   *)
(* is then answered REJECTED / TRANSACTION_FAILED), or the caller may be   *)
(* cancelled while it waits: such a transaction runs later, or never,      *)
(* while the lock is already free.                                         *)
(***************************************************************************)
EXTENDS Naturals

CONSTANTS
    Items, Places, Values,
    Admissible,    \* places whose type the located_in schema accepts
    Declared,      \* property values the deployed item schema accepts
    Callers,       \* concurrent callers of the one service of the process
    NoItem, NoPlace, NoCall, Free,
    MaxAbandoned   \* bound on transactions whose reply nobody receives

ASSUME ItemAssumption ==
    /\ NoItem \notin Values /\ NoPlace \notin Places /\ Free \notin Callers
    /\ Admissible \subseteq Places /\ Declared \subseteq Values
    /\ MaxAbandoned \in Nat

VARIABLES
    items,         \* item table: items[i] is the stored properties, or NoItem
    located,       \* located_in table: a set of [in, out]
    others,        \* the items with an edge in another relation, from ingestion
    spaces,        \* the destination records that exist
    lock,          \* the caller that holds the service's lock, or Free
    pc,            \* the await a caller is suspended at
    call,          \* its WriteRequest
    seenItem,      \* the item record it read
    seenAt,        \* the current locations it read
    seenOther,     \* whether it saw the item in another relation
    result,        \* the status of the MutationResult the last step returned, or "none"
    orphans,       \* transactions whose reply nobody receives
    abandoned      \* how many there were so far

tables == <<items, located, others, spaces>>
seen == <<seenItem, seenAt, seenOther>>
vars == <<tables, lock, pc, call, seen, result, orphans, abandoned>>

Edge == [in : Items, out : Places]
Request == [op : {"create", "update_location", "update_attributes", "delete"},
            item : Items, place : Places \cup {NoPlace},
            value : Values \cup {NoItem}, mode : {"preview", "commit"}]
Transaction == [kind : {"create", "move", "initial", "attributes", "delete"},
                item : Items, place : Places \cup {NoPlace},
                value : Values \cup {NoItem}, expected : Values \cup {NoItem},
                relations : SUBSET {"located_in", "other"}]
Stages == {"idle", "lock", "item", "locations", "place", "others", "commit"}
Statuses == {"none", "APPLIED", "PROPOSED", "NO_CHANGE", "NOT_FOUND", "CONFLICT",
             "REJECTED", "TRANSACTION_FAILED"}

TypeOK ==
    /\ items \in [Items -> Values \cup {NoItem}]
    /\ located \in SUBSET Edge
    /\ others \in SUBSET Items
    /\ spaces \in SUBSET Admissible
    /\ lock \in Callers \cup {Free}
    /\ pc \in [Callers -> Stages]
    /\ call \in [Callers -> {NoCall} \cup Request]
    /\ seenItem \in [Callers -> Values \cup {NoItem}]
    /\ seenAt \in [Callers -> SUBSET Places]
    /\ seenOther \in [Callers -> BOOLEAN]
    /\ result \in Statuses
    /\ orphans \in SUBSET Transaction
    /\ abandoned \in 0..MaxAbandoned

\* _validate_item_properties: fields, types and a name the item schema accepts.
ValidProperties(value) == value \in Declared

LocationsOf(i) == {p \in Places : [in |-> i, out |-> p] \in located}

\* The graph as ingestion left it: unique_from admits one location per item.
Init ==
    /\ items \in [Items -> Declared \cup {NoItem}]
    /\ spaces \in SUBSET Admissible
    /\ located \in SUBSET [in : {i \in Items : items[i] # NoItem}, out : spaces]
    /\ \A e, f \in located : e.in = f.in => e = f
    /\ others \in SUBSET {i \in Items : items[i] # NoItem}
    /\ lock = Free
    /\ pc = [c \in Callers |-> "idle"]
    /\ call = [c \in Callers |-> NoCall]
    /\ seenItem = [c \in Callers |-> NoItem]
    /\ seenAt = [c \in Callers |-> {}]
    /\ seenOther = [c \in Callers |-> FALSE]
    /\ result = "none"
    /\ orphans = {}
    /\ abandoned = 0

-----------------------------------------------------------------------------
(* The transactions: a THROW guard and an effect on the tables. *)

\* Mutant: the record is not compared with the one that was read.
BuggyTxGuard(t) ==
    CASE t.kind = "create" -> items[t.item] = NoItem /\ t.place \in spaces
      [] t.kind \in {"move", "initial"} -> items[t.item] # NoItem /\ t.place \in spaces
      [] t.kind \in {"attributes", "delete"} -> items[t.item] # NoItem

TxGuard(t) ==
    CASE t.kind = "create" -> items[t.item] = NoItem /\ t.place \in spaces
      [] t.kind \in {"move", "initial"} -> items[t.item] # NoItem /\ t.place \in spaces
      [] t.kind = "attributes" -> items[t.item] # NoItem /\ items[t.item] = t.expected
      [] t.kind = "delete" -> items[t.item] # NoItem

TxItems(t) ==
    CASE t.kind \in {"create", "attributes"} -> [items EXCEPT ![t.item] = t.value]
      [] t.kind = "delete" -> [items EXCEPT ![t.item] = NoItem]
      [] OTHER -> items

\* Mutant: delete removes the node alone.
BuggyTxLocated(t) ==
    CASE t.kind \in {"create", "initial"} -> located \cup {[in |-> t.item, out |-> t.place]}
      [] t.kind = "move" -> {e \in located : e.in # t.item} \cup {[in |-> t.item, out |-> t.place]}
      [] OTHER -> located

TxLocated(t) ==
    CASE t.kind \in {"create", "initial"} -> located \cup {[in |-> t.item, out |-> t.place]}
      [] t.kind = "move" -> {e \in located : e.in # t.item} \cup {[in |-> t.item, out |-> t.place]}
      [] t.kind = "delete" /\ "located_in" \in t.relations -> {e \in located : e.in # t.item}
      [] OTHER -> located

TxOthers(t) ==
    IF t.kind = "delete" /\ "other" \in t.relations THEN others \ {t.item} ELSE others

\* A transaction that throws changes nothing.
Run(t) ==
    /\ items' = IF TxGuard(t) THEN TxItems(t) ELSE items
    /\ located' = IF TxGuard(t) THEN TxLocated(t) ELSE located
    /\ others' = IF TxGuard(t) THEN TxOthers(t) ELSE others
    /\ UNCHANGED spaces

-----------------------------------------------------------------------------
(* A call: its request, the lock, its reads. *)

Goto(c, stage) == pc' = [pc EXCEPT ![c] = stage]

\* The method returns a result, or raises: the lock is released either way.
Leave(c, status) ==
    /\ Goto(c, "idle")
    /\ lock' = Free
    /\ call' = [call EXCEPT ![c] = NoCall]
    /\ seenItem' = [seenItem EXCEPT ![c] = NoItem]
    /\ seenAt' = [seenAt EXCEPT ![c] = {}]
    /\ seenOther' = [seenOther EXCEPT ![c] = FALSE]
    /\ result' = status

\* The fields each request model requires; the rest are absent.
WellFormed(q) ==
    /\ (q.place # NoPlace) <=> (q.op \in {"create", "update_location"})
    /\ (q.value # NoItem) <=> (q.op \in {"create", "update_attributes"})

Start(c, q) ==
    /\ pc[c] = "idle"
    /\ WellFormed(q)
    /\ call' = [call EXCEPT ![c] = q]
    /\ Goto(c, "lock")
    /\ result' = "none"
    /\ UNCHANGED <<tables, lock, seen, orphans, abandoned>>

\* create validates its properties before any query.
Acquire(c) ==
    /\ pc[c] = "lock"
    /\ lock = Free
    /\ IF call[c].op = "create" /\ ~ValidProperties(call[c].value)
       THEN Leave(c, "REJECTED")
       ELSE lock' = c /\ Goto(c, "item") /\ result' = "none" /\ UNCHANGED <<call, seen>>
    /\ UNCHANGED <<tables, orphans, abandoned>>

\* Mutant: a preview goes on to the transaction.
BuggyProceed(c, stage, record, at, other) ==
    /\ seenItem' = [seenItem EXCEPT ![c] = record]
    /\ seenAt' = [seenAt EXCEPT ![c] = at]
    /\ seenOther' = [seenOther EXCEPT ![c] = other]
    /\ Goto(c, stage)
    /\ result' = "none"
    /\ UNCHANGED <<lock, call>>

\* On to the next query with what was read so far; a preview that passed every
\* check returns instead of sending its transaction.
Proceed(c, stage, record, at, other) ==
    IF stage = "commit" /\ call[c].mode = "preview"
    THEN Leave(c, "PROPOSED")
    ELSE /\ seenItem' = [seenItem EXCEPT ![c] = record]
         /\ seenAt' = [seenAt EXCEPT ![c] = at]
         /\ seenOther' = [seenOther EXCEPT ![c] = other]
         /\ Goto(c, stage)
         /\ result' = "none"
         /\ UNCHANGED <<lock, call>>

\* The query that follows the item's record.
AfterItem(op) ==
    CASE op \in {"create", "delete"} -> "locations"
      [] op = "update_location" -> "place"
      [] op = "update_attributes" -> "commit"

ReadItem(c) ==
    LET q == call[c]
        record == items[q.item]
    IN  /\ pc[c] = "item"
        /\ \/ q.op = "create" /\ record # NoItem /\ Leave(c, "CONFLICT")
           \/ q.op # "create" /\ record = NoItem /\ Leave(c, "NOT_FOUND")
           \/ /\ (q.op = "create") <=> (record = NoItem)
              /\ \/ /\ q.op = "update_attributes" /\ ~ValidProperties(q.value)
                    /\ Leave(c, "REJECTED")
                 \/ /\ q.op = "update_attributes" /\ ValidProperties(q.value) /\ q.value = record
                    /\ Leave(c, "NO_CHANGE")
                 \/ /\ q.op = "update_attributes" => ValidProperties(q.value) /\ q.value # record
                    /\ Proceed(c, AfterItem(q.op), record, {}, FALSE)
        /\ UNCHANGED <<tables, orphans, abandoned>>

\* _validate_location: a place of a wrong type, or without a record, is refused.
ReadPlace(c) ==
    /\ pc[c] = "place"
    /\ IF call[c].place \in spaces
       THEN Proceed(c, IF call[c].op = "create" THEN "commit" ELSE "locations",
                    seenItem[c], {}, FALSE)
       ELSE Leave(c, "REJECTED")
    /\ UNCHANGED <<tables, orphans, abandoned>>

\* _current_locations, and for delete the located_in count of _incident_edges.
ReadLocations(c) ==
    LET q == call[c]
        current == LocationsOf(q.item)
        Single == \A p, r \in current : p = r
    IN  /\ pc[c] = "locations"
        /\ \/ /\ \/ q.op = "create" /\ current # {}
                 \/ q.op = "update_location" /\ ~Single
              /\ Leave(c, "CONFLICT")
           \/ q.op = "update_location" /\ current = {q.place} /\ Leave(c, "NO_CHANGE")
           \/ /\ q.op = "create" /\ current = {}
              /\ Proceed(c, "place", seenItem[c], current, FALSE)
           \/ /\ q.op = "update_location" /\ Single /\ current # {q.place}
              /\ Proceed(c, "commit", seenItem[c], current, FALSE)
           \/ q.op = "delete" /\ Proceed(c, "others", seenItem[c], current, FALSE)
        /\ UNCHANGED <<tables, orphans, abandoned>>

\* The rest of _incident_edges.
ReadOthers(c) ==
    /\ pc[c] = "others"
    /\ Proceed(c, "commit", seenItem[c], seenAt[c], call[c].item \in others)
    /\ UNCHANGED <<tables, orphans, abandoned>>

\* A failed read is answered by _storage_rejected.
QueryFails(c) ==
    /\ pc[c] \in {"item", "locations", "place", "others"}
    /\ Leave(c, "REJECTED")
    /\ UNCHANGED <<tables, orphans, abandoned>>

-----------------------------------------------------------------------------
(* The transaction a caller sends, and its reply. *)

\* _incident_edges: the relations whose count, read one by one, was not zero.
IncidentEdges(c) ==
    {r \in {"located_in", "other"} : \/ r = "located_in" /\ seenAt[c] # {}
                                     \/ r = "other" /\ seenOther[c]}

Sent(c) ==
    LET q == call[c]
    IN  [kind |-> CASE q.op = "create" -> "create"
                    [] q.op = "update_location" -> IF seenAt[c] = {} THEN "initial" ELSE "move"
                    [] q.op = "update_attributes" -> "attributes"
                    [] q.op = "delete" -> "delete",
         item |-> q.item, place |-> q.place, value |-> q.value, expected |-> seenItem[c],
         relations |-> IncidentEdges(c)]

Commit(c) ==
    /\ pc[c] = "commit"
    /\ Run(Sent(c))
    /\ Leave(c, IF TxGuard(Sent(c)) THEN "APPLIED" ELSE "TRANSACTION_FAILED")
    /\ UNCHANGED <<orphans, abandoned>>

Abandon(c, status) ==
    /\ pc[c] = "commit"
    /\ abandoned < MaxAbandoned
    /\ abandoned' = abandoned + 1
    /\ orphans' = orphans \cup {Sent(c)}
    /\ Leave(c, status)
    /\ UNCHANGED tables

\* The connection breaks: _database_rejected answers, whatever the database does.
LoseReply(c) == Abandon(c, "TRANSACTION_FAILED")

\* The caller's task is cancelled, for instance when a streaming client leaves.
Cancel(c) == Abandon(c, "none")

LateTransaction(t) ==
    /\ t \in orphans
    /\ Run(t)
    /\ orphans' = orphans \ {t}
    /\ result' = "none"
    /\ UNCHANGED <<lock, pc, call, seen, abandoned>>

Step(c) ==
    \/ Acquire(c)
    \/ ReadItem(c)
    \/ ReadPlace(c)
    \/ ReadLocations(c)
    \/ ReadOthers(c)
    \/ Commit(c)

Next ==
    \/ \E c \in Callers : \/ \E q \in Request : Start(c, q)
                          \/ Step(c)
                          \/ QueryFails(c)
                          \/ LoseReply(c)
                          \/ Cancel(c)
    \/ \E t \in orphans : LateTransaction(t)

Spec == Init /\ [][Next]_vars

-----------------------------------------------------------------------------
(* Properties *)

\* "Combined with the database transaction, this preserves at most one current
\* item location" (docs/design/item-writing-api.md), although the transaction
\* for a first location does not look for another one.
AtMostOneLocation == \A e, f \in located : e.in = f.in => e = f

\* The lock and the reads under it give every item at most one location as long
\* as no caller left a transaction behind.
OneLocationWhileServed == abandoned = 0 => AtMostOneLocation

\* delete names in its transaction only the relations it saw the item in: no
\* edge of a deleted item stays behind, and a location exists.
NoEdgeOutlivesItsItem ==
    abandoned = 0 =>
        /\ \A e \in located : items[e.in] # NoItem /\ e.out \in spaces
        /\ \A i \in others : items[i] # NoItem

\* The tables readers meet: typed, one location per item, no dangling edge.
TablesAreSound == TypeOK /\ OneLocationWhileServed /\ NoEdgeOutlivesItsItem

\* APPLIED reports the state the transaction really replaced.  For attributes
\* the transaction compares the record itself, so this survives any late
\* transaction; the location and the incident edges rest on the lock.
AppliedReportIsActual ==
    [][ \A c \in Callers :
          pc[c] = "commit" /\ pc'[c] = "idle" /\ result' = "APPLIED" =>
            /\ call[c].op = "update_attributes" => items[call[c].item] = seenItem[c]
            /\ abandoned = 0 =>
                 /\ call[c].op # "update_attributes" => LocationsOf(call[c].item) = seenAt[c]
                 /\ call[c].op = "delete" => (call[c].item \in others) = seenOther[c] ]_vars

\* Nothing is written but by a commit that is answered APPLIED: no preview, and
\* no refusal, leaves a trace.
OnlyAppliedCommitsWrite ==
    [][ abandoned = 0 /\ tables' # tables =>
          \E c \in Callers : /\ pc[c] # "idle" /\ pc'[c] = "idle"
                             /\ call[c].mode = "commit" /\ result' = "APPLIED" ]_vars

=============================================================================
