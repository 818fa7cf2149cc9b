-------------------------- MODULE ItemWritingProofs --------------------------
(***************************************************************************)
(* One location per item and no edge without its item, for any number of   *)
(* items, places and callers, although the transactions check neither: the *)
(* lock keeps what a call read true until its own transaction, as long as  *)
(* no caller leaves a transaction behind.  And what a write by name is     *)
(* answered is true of the items while it ran.                             *)
(***************************************************************************)
EXTENDS ItemWriting, NamedWriting, FiniteSetTheorems, TLAPS

(* What a call is, by the await it is suspended at: reads of its own kind, *)
(* and no transaction of a preview.                                        *)
Shaped(stage, q) ==
  stage # "idle" =>
    /\ q \in Request
    /\ WellFormed(q)
    /\ stage = "locations" => q.op \in {"create", "update_location", "delete"}
    /\ stage = "place" => q.op \in {"create", "update_location"}
    /\ stage = "others" => q.op = "delete"
    /\ stage = "commit" => q.mode = "commit"

(* A call past the lock holds it. *)
Locked(stage, c, holder) == stage \notin {"idle", "lock"} => holder = c

(* The places of an item in a table of edges. *)
PlacesIn(edges, i) == {p \in Places : [in |-> i, out |-> p] \in edges}

(* What a call decided upon is still so. *)
ReadsHold(stage, q, at, other, edges, related) ==
  /\ stage = "commit" /\ q.op = "create" => at = {}
  /\ stage = "commit" /\ q.op = "update_location" => at = PlacesIn(edges, q.item)
  /\ stage \in {"others", "commit"} /\ q.op = "delete" => at = PlacesIn(edges, q.item)
  /\ stage = "commit" /\ q.op = "delete" => other = (q.item \in related)

OneEach(edges) == \A e, f \in edges : e.in = f.in => e = f
Anchored(table, edges, related, places) ==
  /\ \A e \in edges : table[e.in] # NoItem /\ e.out \in places
  /\ \A i \in related : table[i] # NoItem

Served ==
  /\ orphans = {}
  /\ OneEach(located)
  /\ Anchored(items, located, others, spaces)
  /\ \A c \in Callers : ReadsHold(pc[c], call[c], seenAt[c], seenOther[c], located, others)

Inv ==
  /\ TypeOK
  /\ \A c \in Callers : Shaped(pc[c], call[c]) /\ Locked(pc[c], c, lock)
  /\ abandoned = 0 => Served

----------------------------------------------------------------------------
(* The transactions *)

LEMMA SentTyped ==
    ASSUME TypeOK, NEW c \in Callers, call[c] \in Request
    PROVE  /\ Sent(c) \in Transaction
           /\ Sent(c).item = call[c].item /\ Sent(c).place = call[c].place
           /\ Sent(c).value = call[c].value /\ Sent(c).expected = seenItem[c]
           /\ Sent(c).relations = IncidentEdges(c)
           /\ call[c].op = "create" => Sent(c).kind = "create"
           /\ call[c].op = "update_location" =>
                Sent(c).kind = (IF seenAt[c] = {} THEN "initial" ELSE "move")
           /\ call[c].op = "update_attributes" => Sent(c).kind = "attributes"
           /\ call[c].op = "delete" => Sent(c).kind = "delete"
<1>1. IncidentEdges(c) \in SUBSET {"located_in", "other"}
  BY DEF IncidentEdges
<1>2. seenItem[c] \in Values \cup {NoItem}
  BY DEF TypeOK
<1>3. call[c].op \in {"create", "update_location", "update_attributes", "delete"}
      /\ call[c].item \in Items /\ call[c].place \in Places \cup {NoPlace}
      /\ call[c].value \in Values \cup {NoItem}
  BY DEF Request
<1> QED
  BY <1>1, <1>2, <1>3 DEF Sent, Transaction

LEMMA RunTyped ==
    ASSUME TypeOK, NEW t \in Transaction, Run(t)
    PROVE  /\ items' \in [Items -> Values \cup {NoItem}]
           /\ located' \in SUBSET Edge
           /\ others' \in SUBSET Items
           /\ spaces' \in SUBSET Admissible
<1>1. t.item \in Items /\ t.value \in Values \cup {NoItem}
      /\ t.kind \in {"create", "move", "initial", "attributes", "delete"}
  BY DEF Transaction
<1>2. TxGuard(t) => TxItems(t) \in [Items -> Values \cup {NoItem}]
  BY <1>1 DEF TypeOK, TxItems
<1>3. ASSUME TxGuard(t), t.kind \in {"create", "move", "initial"}
      PROVE  [in |-> t.item, out |-> t.place] \in Edge
  <2>1. t.place \in spaces
    BY <1>3 DEF TxGuard
  <2>2. t.place \in Places
    BY <2>1, ItemAssumption DEF TypeOK
  <2> QED
    BY <1>1, <2>2 DEF Edge
<1>4. TxGuard(t) => TxLocated(t) \in SUBSET Edge
  <2>1. located \in SUBSET Edge
    BY DEF TypeOK
  <2> QED
    BY <1>1, <1>3, <2>1 DEF TxLocated
<1>5. TxOthers(t) \in SUBSET Items
  BY DEF TypeOK, TxOthers
<1> QED
  BY <1>2, <1>4, <1>5 DEF Run, TypeOK

(* A transaction that was built from reads that still hold keeps one       *)
(* location per item, and no edge of what it deletes.                      *)
LEMMA RunSound ==
    ASSUME TypeOK, NEW c \in Callers, pc[c] = "commit", Shaped(pc[c], call[c]), Served,
           Run(Sent(c))
    PROVE  OneEach(located') /\ Anchored(items', located', others', spaces')
<1> DEFINE q == call[c]
           t == Sent(c)
           new == [in |-> q.item, out |-> q.place]
<1>1. q \in Request /\ WellFormed(q) /\ q.item \in Items
      /\ q.op \in {"create", "update_location", "update_attributes", "delete"}
  BY DEF Shaped, Request
<1>2. t.item = q.item /\ t.place = q.place /\ t.value = q.value /\ t.relations = IncidentEdges(c)
      /\ t \in Transaction
  BY <1>1, SentTyped
<1>3. OneEach(located) /\ Anchored(items, located, others, spaces)
      /\ ReadsHold("commit", q, seenAt[c], seenOther[c], located, others)
  BY DEF Served
<1>4. items \in [Items -> Values \cup {NoItem}] /\ located \in SUBSET Edge
      /\ others \in SUBSET Items
  BY DEF TypeOK
<1>5. spaces' = spaces
  BY DEF Run
<1>6. new.in = q.item /\ new.out = q.place
  OBVIOUS
<1>7. CASE ~TxGuard(t)
  <2>1. items' = items /\ located' = located /\ others' = others
    BY <1>7 DEF Run
  <2> QED
    BY <1>3, <1>5, <2>1
<1>8. CASE TxGuard(t) /\ q.op = "create"
  <2>1. t.kind = "create"
    BY <1>1, <1>8, SentTyped
  <2>2. items[q.item] = NoItem /\ q.place \in spaces
    BY <1>2, <1>8, <2>1 DEF TxGuard
  <2>3. q.value # NoItem
    BY <1>1, <1>8 DEF WellFormed
  <2>4. items' = [items EXCEPT ![q.item] = q.value] /\ located' = located \cup {new}
        /\ others' = others
    BY <1>2, <1>8, <2>1 DEF Run, TxItems, TxLocated, TxOthers
  <2>5. \A e \in located : e.in # q.item
    BY <1>3, <2>2 DEF Anchored
  <2>6. OneEach(located')
    BY <1>3, <1>6, <2>4, <2>5 DEF OneEach
  <2>7. \A i \in Items : items[i] # NoItem => items'[i] # NoItem
    BY <1>1, <1>4, <2>3, <2>4
  <2>8. items'[q.item] # NoItem
    BY <1>1, <1>4, <2>3, <2>4
  <2>9. \A e \in located : e.in \in Items
    BY <1>4 DEF Edge
  <2>10. \A e \in located' : items'[e.in] # NoItem /\ e.out \in spaces
    BY <1>3, <1>6, <2>2, <2>4, <2>7, <2>8, <2>9 DEF Anchored
  <2>11. \A i \in others : items'[i] # NoItem
    BY <1>3, <1>4, <2>7 DEF Anchored
  <2> HIDE DEF new, t, q
  <2> QED
    BY <1>5, <2>4, <2>6, <2>10, <2>11 DEF Anchored
<1>9. CASE TxGuard(t) /\ q.op = "update_location"
  <2>1. t.kind \in {"initial", "move"} /\ (t.kind = "initial" => seenAt[c] = {})
    BY <1>1, <1>9, SentTyped
  <2>2. items[q.item] # NoItem /\ q.place \in spaces
    BY <1>2, <1>9, <2>1 DEF TxGuard
  <2>3. items' = items /\ others' = others
    BY <1>9, <2>1 DEF Run, TxItems, TxOthers
  <2>4. located' \subseteq {e \in located : e.in # q.item} \cup {new}
    <3>1. CASE t.kind = "move"
      <4>1. located' = {e \in located : e.in # q.item} \cup {new}
        BY <1>2, <1>9, <3>1 DEF Run, TxLocated
      <4> QED
        BY <4>1
    <3>2. CASE t.kind = "initial"
      <4>1. located' = located \cup {new}
        BY <1>2, <1>9, <3>2 DEF Run, TxLocated
      <4>2. PlacesIn(located, q.item) = {}
        BY <1>3, <1>9, <2>1, <3>2 DEF ReadsHold
      <4>3. \A e \in located : e.in # q.item
        <5>1. SUFFICES ASSUME NEW e \in located, e.in = q.item
                       PROVE  FALSE
          OBVIOUS
        <5>2. e.out \in Places /\ e = [in |-> q.item, out |-> e.out]
          BY <1>4, <5>1 DEF Edge
        <5> QED
          BY <4>2, <5>2 DEF PlacesIn
      <4> QED
        BY <4>1, <4>3
    <3> QED
      BY <2>1, <3>1, <3>2
  <2>5. OneEach(located')
    BY <1>3, <1>6, <2>4 DEF OneEach
  <2>6. \A e \in located' : items[e.in] # NoItem /\ e.out \in spaces
    BY <1>3, <1>6, <2>2, <2>4 DEF Anchored
  <2> HIDE DEF new, t, q
  <2> QED
    BY <1>3, <1>5, <2>3, <2>5, <2>6 DEF Anchored
<1>10. CASE TxGuard(t) /\ q.op = "update_attributes"
  <2>1. t.kind = "attributes"
    BY <1>1, <1>10, SentTyped
  <2>2. q.value # NoItem
    BY <1>1, <1>10 DEF WellFormed
  <2>3. items' = [items EXCEPT ![q.item] = q.value] /\ located' = located /\ others' = others
    BY <1>2, <1>10, <2>1 DEF Run, TxItems, TxLocated, TxOthers
  <2>4. \A i \in Items : items[i] # NoItem => items'[i] # NoItem
    BY <1>1, <1>4, <2>2, <2>3
  <2>5. \A e \in located : e.in \in Items
    BY <1>4 DEF Edge
  <2> HIDE DEF new, t, q
  <2> QED
    BY <1>3, <1>4, <1>5, <2>3, <2>4, <2>5 DEF Anchored
<1>11. CASE TxGuard(t) /\ q.op = "delete"
  <2>1. t.kind = "delete"
    BY <1>1, <1>11, SentTyped
  <2>2. items' = [items EXCEPT ![q.item] = NoItem]
    BY <1>2, <1>11, <2>1 DEF Run, TxItems
  <2>3. seenAt[c] = PlacesIn(located, q.item) /\ seenOther[c] = (q.item \in others)
    BY <1>3, <1>11 DEF ReadsHold
  <2>4. located' = {e \in located : e.in # q.item}
    <3>1. CASE "located_in" \in t.relations
      BY <1>2, <1>11, <2>1, <3>1 DEF Run, TxLocated
    <3>2. CASE "located_in" \notin t.relations
      <4>1. located' = located
        BY <1>11, <2>1, <3>2 DEF Run, TxLocated
      <4>2. seenAt[c] = {}
        BY <1>2, <3>2 DEF IncidentEdges
      <4>3. \A e \in located : e.in # q.item
        <5>1. SUFFICES ASSUME NEW e \in located, e.in = q.item
                       PROVE  FALSE
          OBVIOUS
        <5>2. e.out \in Places /\ e = [in |-> q.item, out |-> e.out]
          BY <1>4, <5>1 DEF Edge
        <5> QED
          BY <2>3, <4>2, <5>2 DEF PlacesIn
      <4> QED
        BY <4>1, <4>3
    <3> QED
      BY <3>1, <3>2
  <2>5. others' = others \ {q.item}
    <3>1. CASE "other" \in t.relations
      BY <1>2, <1>11, <2>1, <3>1 DEF Run, TxOthers
    <3>2. CASE "other" \notin t.relations
      <4>1. others' = others
        BY <1>11, <2>1, <3>2 DEF Run, TxOthers
      <4>2. q.item \notin others
        BY <1>2, <2>3, <3>2 DEF IncidentEdges
      <4> QED
        BY <4>1, <4>2
    <3> QED
      BY <3>1, <3>2
  <2>6. \A i \in Items : i # q.item => items'[i] = items[i]
    BY <1>1, <1>4, <2>2
  <2>7. \A e \in located : e.in \in Items
    BY <1>4 DEF Edge
  <2>8. OneEach(located')
    BY <1>3, <2>4 DEF OneEach
  <2> HIDE DEF new, t, q
  <2> QED
    BY <1>3, <1>4, <1>5, <2>4, <2>5, <2>6, <2>7, <2>8 DEF Anchored
<1> QED
  BY <1>1, <1>7, <1>8, <1>9, <1>10, <1>11

----------------------------------------------------------------------------
(* The steps of a call *)

(* What a step that moves the call of c, and writes no table, has to show. *)
Moves(c) ==
  /\ result' \in Statuses
  /\ pc' \in [Callers -> Stages]
  /\ call' \in [Callers -> {NoCall} \cup Request]
  /\ seenItem' \in [Callers -> Values \cup {NoItem}]
  /\ seenAt' \in [Callers -> SUBSET Places]
  /\ seenOther' \in [Callers -> BOOLEAN]
  /\ \A d \in Callers \ {c} : /\ pc'[d] = pc[d] /\ call'[d] = call[d]
                              /\ seenAt'[d] = seenAt[d] /\ seenOther'[d] = seenOther[d]
  /\ lock' = lock \/ (lock \in {c, Free} /\ lock' \in {c, Free})

LEMMA LeaveMoves ==
    ASSUME TypeOK, NEW c \in Callers, NEW s \in Statuses, Leave(c, s), lock \in {c, Free}
    PROVE  Moves(c) /\ pc'[c] = "idle" /\ result' = s
<1>1. pc' \in [Callers -> Stages] /\ pc'[c] = "idle" /\ \A d \in Callers \ {c} : pc'[d] = pc[d]
  BY DEF TypeOK, Leave, Goto, Stages
<1>2. /\ call' \in [Callers -> {NoCall} \cup Request]
      /\ \A d \in Callers \ {c} : call'[d] = call[d]
  BY DEF TypeOK, Leave
<1>3. /\ seenAt' \in [Callers -> SUBSET Places]
      /\ \A d \in Callers \ {c} : seenAt'[d] = seenAt[d]
  BY DEF TypeOK, Leave
<1>4. /\ seenOther' \in [Callers -> BOOLEAN]
      /\ \A d \in Callers \ {c} : seenOther'[d] = seenOther[d]
  BY DEF TypeOK, Leave
<1>5. seenItem' \in [Callers -> Values \cup {NoItem}]
  BY DEF TypeOK, Leave
<1>6. result' = s /\ lock' = Free
  BY DEF Leave
<1> QED
  BY <1>1, <1>2, <1>3, <1>4, <1>5, <1>6 DEF Moves

(* The step returns a preview, or keeps what was read and goes on. *)
LEMMA ProceedMoves ==
    ASSUME TypeOK, NEW c \in Callers, NEW stage \in Stages, NEW record \in Values \cup {NoItem},
           NEW at \in SUBSET Places, NEW other \in BOOLEAN,
           Proceed(c, stage, record, at, other), lock = c
    PROVE  /\ Moves(c)
           /\ \/ pc'[c] = "idle" /\ result' = "PROPOSED"
              \/ /\ pc'[c] = stage /\ call'[c] = call[c] /\ lock' = lock /\ result' = "none"
                 /\ seenAt'[c] = at /\ seenOther'[c] = other
                 /\ stage = "commit" => call[c].mode # "preview"
<1>1. CASE stage = "commit" /\ call[c].mode = "preview"
  <2>1. Leave(c, "PROPOSED") /\ "PROPOSED" \in Statuses
    BY <1>1 DEF Proceed, Statuses
  <2> QED
    BY <2>1, LeaveMoves
<1>2. CASE ~(stage = "commit" /\ call[c].mode = "preview")
  <2>1. /\ seenItem' = [seenItem EXCEPT ![c] = record]
        /\ seenAt' = [seenAt EXCEPT ![c] = at]
        /\ seenOther' = [seenOther EXCEPT ![c] = other]
        /\ pc' = [pc EXCEPT ![c] = stage]
        /\ result' = "none" /\ lock' = lock /\ call' = call
    BY <1>2 DEF Proceed, Goto
  <2>2. pc' \in [Callers -> Stages] /\ pc'[c] = stage /\ \A d \in Callers \ {c} : pc'[d] = pc[d]
    BY <2>1 DEF TypeOK
  <2>3. /\ seenAt' \in [Callers -> SUBSET Places] /\ seenAt'[c] = at
        /\ \A d \in Callers \ {c} : seenAt'[d] = seenAt[d]
    BY <2>1 DEF TypeOK
  <2>4. /\ seenOther' \in [Callers -> BOOLEAN] /\ seenOther'[c] = other
        /\ \A d \in Callers \ {c} : seenOther'[d] = seenOther[d]
    BY <2>1 DEF TypeOK
  <2>5. seenItem' \in [Callers -> Values \cup {NoItem}]
    BY <2>1 DEF TypeOK
  <2>6. call' \in [Callers -> {NoCall} \cup Request] /\ result' \in Statuses
    BY <2>1 DEF TypeOK, Statuses
  <2> QED
    BY <1>2, <2>1, <2>2, <2>3, <2>4, <2>5, <2>6 DEF Moves
<1> QED
  BY <1>1, <1>2

(* A step of one call that writes no table disturbs nobody. *)
LEMMA MovePreserves ==
    ASSUME Inv, NEW c \in Callers, Moves(c), UNCHANGED <<tables, orphans, abandoned>>,
           Shaped(pc'[c], call'[c]), Locked(pc'[c], c, lock'),
           abandoned = 0 =>
             ReadsHold(pc'[c], call'[c], seenAt'[c], seenOther'[c], located, others)
    PROVE  Inv'
<1>1. /\ items' = items /\ located' = located /\ others' = others /\ spaces' = spaces
      /\ orphans' = orphans /\ abandoned' = abandoned
  BY DEF tables
<1>2. lock' \in Callers \cup {Free}
  BY DEF Inv, TypeOK, Moves
<1>3. TypeOK'
  BY <1>1, <1>2 DEF Inv, TypeOK, Moves
<1>4. ASSUME NEW d \in Callers
      PROVE  Shaped(pc'[d], call'[d]) /\ Locked(pc'[d], d, lock')
  <2>1. CASE d = c
    BY <2>1
  <2>2. CASE d # c
    <3>1. pc'[d] = pc[d] /\ call'[d] = call[d] /\ Shaped(pc[d], call[d]) /\ Locked(pc[d], d, lock)
      BY <2>2 DEF Inv, Moves
    <3>2. Locked(pc[d], d, lock')
      BY <2>2, <3>1, ItemAssumption DEF Moves, Locked
    <3> QED
      BY <3>1, <3>2
  <2> QED
    BY <2>1, <2>2
<1>5. ASSUME abandoned = 0
      PROVE  Served'
  <2>1. Served
    BY <1>5 DEF Inv
  <2>2. ASSUME NEW d \in Callers
        PROVE  ReadsHold(pc'[d], call'[d], seenAt'[d], seenOther'[d], located, others)
    <3>1. CASE d = c
      BY <1>5, <3>1
    <3>2. CASE d # c
      <4>1. ReadsHold(pc[d], call[d], seenAt[d], seenOther[d], located, others)
        BY <2>1 DEF Served
      <4>2. pc'[d] = pc[d] /\ call'[d] = call[d] /\ seenAt'[d] = seenAt[d]
            /\ seenOther'[d] = seenOther[d]
        BY <3>2 DEF Moves
      <4> QED
        BY <4>1, <4>2
    <3> QED
      BY <3>1, <3>2
  <2> QED
    BY <1>1, <2>1, <2>2 DEF Served
<1> QED
  BY <1>1, <1>3, <1>4, <1>5 DEF Inv

(* Returning is such a step. *)
LEMMA LeavePreserves ==
    ASSUME Inv, NEW c \in Callers, NEW s \in Statuses, Leave(c, s), lock \in {c, Free},
           UNCHANGED <<tables, orphans, abandoned>>
    PROVE  Inv'
<1>1. Moves(c) /\ pc'[c] = "idle"
  BY LeaveMoves DEF Inv
<1>2. /\ Shaped(pc'[c], call'[c]) /\ Locked(pc'[c], c, lock')
      /\ ReadsHold(pc'[c], call'[c], seenAt'[c], seenOther'[c], located, others)
  BY <1>1 DEF Shaped, Locked, ReadsHold
<1> QED
  BY <1>1, <1>2, MovePreserves

(* So is going on to a stage with reads that hold. *)
LEMMA ProceedPreserves ==
    ASSUME Inv, NEW c \in Callers, NEW stage \in Stages, NEW record \in Values \cup {NoItem},
           NEW at \in SUBSET Places, NEW other \in BOOLEAN, pc[c] \notin {"idle", "lock"},
           Proceed(c, stage, record, at, other), UNCHANGED <<tables, orphans, abandoned>>,
           call[c].mode # "preview" => Shaped(stage, call[c]),
           stage # "commit" => Shaped(stage, call[c]),
           abandoned = 0 => ReadsHold(stage, call[c], at, other, located, others)
    PROVE  Inv'
<1>1. lock = c /\ TypeOK
  BY DEF Inv, Locked
<1>2. Moves(c)
      /\ \/ pc'[c] = "idle"
         \/ /\ pc'[c] = stage /\ call'[c] = call[c] /\ lock' = lock
            /\ seenAt'[c] = at /\ seenOther'[c] = other
            /\ stage = "commit" => call[c].mode # "preview"
  BY <1>1, ProceedMoves
<1>3. Shaped(pc'[c], call'[c])
  BY <1>2 DEF Shaped
<1>4. Locked(pc'[c], c, lock')
  BY <1>1, <1>2 DEF Locked
<1>5. abandoned = 0 => ReadsHold(pc'[c], call'[c], seenAt'[c], seenOther'[c], located, others)
  BY <1>2 DEF ReadsHold
<1> QED
  BY <1>2, <1>3, <1>4, <1>5, MovePreserves

LEMMA StepStart ==
    ASSUME Inv, NEW c \in Callers, NEW q \in Request, Start(c, q)
    PROVE  Inv'
<1>1. /\ pc' = [pc EXCEPT ![c] = "lock"] /\ call' = [call EXCEPT ![c] = q]
      /\ result' = "none" /\ lock' = lock /\ WellFormed(q)
      /\ seenItem' = seenItem /\ seenAt' = seenAt /\ seenOther' = seenOther
      /\ UNCHANGED <<tables, orphans, abandoned>>
  BY DEF Start, Goto, seen
<1>2. pc'[c] = "lock" /\ call'[c] = q /\ pc' \in [Callers -> Stages]
      /\ call' \in [Callers -> {NoCall} \cup Request]
  BY <1>1 DEF Inv, TypeOK, Stages
<1>3. \A d \in Callers \ {c} : pc'[d] = pc[d] /\ call'[d] = call[d]
  BY <1>1 DEF Inv, TypeOK
<1>4. Moves(c)
  BY <1>1, <1>2, <1>3 DEF Inv, TypeOK, Moves, Statuses
<1>5. /\ Shaped(pc'[c], call'[c]) /\ Locked(pc'[c], c, lock')
      /\ ReadsHold(pc'[c], call'[c], seenAt'[c], seenOther'[c], located, others)
  BY <1>1, <1>2 DEF Shaped, Locked, ReadsHold
<1> QED
  BY <1>1, <1>4, <1>5, MovePreserves

LEMMA StepAcquire ==
    ASSUME Inv, NEW c \in Callers, Acquire(c)
    PROVE  Inv'
<1>1. pc[c] = "lock" /\ lock = Free /\ UNCHANGED <<tables, orphans, abandoned>>
  BY DEF Acquire
<1>2. CASE Leave(c, "REJECTED")
  BY <1>1, <1>2, LeavePreserves DEF Statuses
<1>3. CASE lock' = c /\ Goto(c, "item") /\ result' = "none" /\ UNCHANGED <<call, seen>>
  <2>1. /\ pc' = [pc EXCEPT ![c] = "item"] /\ call' = call
        /\ seenItem' = seenItem /\ seenAt' = seenAt /\ seenOther' = seenOther
    BY <1>3 DEF Goto, seen
  <2>2. pc'[c] = "item" /\ pc' \in [Callers -> Stages]
        /\ \A d \in Callers \ {c} : pc'[d] = pc[d]
    BY <2>1 DEF Inv, TypeOK, Stages
  <2>3. Moves(c)
    BY <1>1, <1>3, <2>1, <2>2 DEF Inv, TypeOK, Moves, Statuses
  <2>4. Shaped(pc[c], call[c])
    BY DEF Inv
  <2>5. /\ Shaped(pc'[c], call'[c]) /\ Locked(pc'[c], c, lock')
        /\ ReadsHold(pc'[c], call'[c], seenAt'[c], seenOther'[c], located, others)
    BY <1>1, <1>3, <2>1, <2>2, <2>4 DEF Shaped, Locked, ReadsHold
  <2> QED
    BY <1>1, <2>3, <2>5, MovePreserves
<1> QED
  BY <1>2, <1>3 DEF Acquire

LEMMA StepReadItem ==
    ASSUME Inv, NEW c \in Callers, ReadItem(c)
    PROVE  Inv'
<1> DEFINE q == call[c]
<1>1. pc[c] = "item" /\ UNCHANGED <<tables, orphans, abandoned>>
  BY DEF ReadItem
<1>2. lock = c /\ Shaped("item", q) /\ TypeOK
  BY <1>1 DEF Inv, Locked
<1>3. q \in Request /\ WellFormed(q)
  BY <1>2 DEF Shaped
<1>4. q.item \in Items /\ q.mode \in {"preview", "commit"}
      /\ q.op \in {"create", "update_location", "update_attributes", "delete"}
  BY <1>3 DEF Request
<1>5. ASSUME NEW s \in Statuses, Leave(c, s)
      PROVE  Inv'
  BY <1>1, <1>2, <1>5, LeavePreserves
<1>6. ASSUME Proceed(c, AfterItem(q.op), items[q.item], {}, FALSE)
      PROVE  Inv'
  <2>1. items[q.item] \in Values \cup {NoItem}
    BY <1>2, <1>4 DEF TypeOK
  <2>2. /\ q.op \in {"create", "delete"} => AfterItem(q.op) = "locations"
        /\ q.op = "update_location" => AfterItem(q.op) = "place"
        /\ q.op = "update_attributes" => AfterItem(q.op) = "commit"
    BY DEF AfterItem
  <2>3. AfterItem(q.op) \in Stages
    BY <1>4, <2>2 DEF Stages
  <2>4. /\ q.mode # "preview" => Shaped(AfterItem(q.op), q)
        /\ AfterItem(q.op) # "commit" => Shaped(AfterItem(q.op), q)
    BY <1>3, <1>4, <2>2 DEF Shaped
  <2>5. ReadsHold(AfterItem(q.op), q, {}, FALSE, located, others)
    BY <1>4, <2>2 DEF ReadsHold
  <2> QED
    BY <1>1, <1>6, <2>1, <2>3, <2>4, <2>5, ProceedPreserves
<1>7. \/ Leave(c, "CONFLICT") \/ Leave(c, "NOT_FOUND") \/ Leave(c, "REJECTED")
      \/ Leave(c, "NO_CHANGE") \/ Proceed(c, AfterItem(q.op), items[q.item], {}, FALSE)
  BY DEF ReadItem
<1>8. {"CONFLICT", "NOT_FOUND", "REJECTED", "NO_CHANGE"} \subseteq Statuses
  BY DEF Statuses
<1> HIDE DEF q
<1> QED
  BY <1>5, <1>6, <1>7, <1>8

LEMMA StepReadPlace ==
    ASSUME Inv, NEW c \in Callers, ReadPlace(c)
    PROVE  Inv'
<1> DEFINE q == call[c]
           stage == IF q.op = "create" THEN "commit" ELSE "locations"
<1>1. pc[c] = "place" /\ UNCHANGED <<tables, orphans, abandoned>>
  BY DEF ReadPlace
<1>2. lock = c /\ Shaped("place", q) /\ TypeOK
  BY <1>1 DEF Inv, Locked
<1>3. q \in Request /\ WellFormed(q) /\ q.op \in {"create", "update_location"}
      /\ q.mode \in {"preview", "commit"}
  BY <1>2 DEF Shaped, Request
<1>4. CASE Leave(c, "REJECTED")
  BY <1>1, <1>2, <1>4, LeavePreserves DEF Statuses
<1>5. CASE Proceed(c, stage, seenItem[c], {}, FALSE)
  <2>1. seenItem[c] \in Values \cup {NoItem} /\ stage \in Stages
    BY <1>2 DEF TypeOK, Stages
  <2>2. /\ q.mode # "preview" => Shaped(stage, q)
        /\ stage # "commit" => Shaped(stage, q)
    BY <1>3 DEF Shaped
  <2>3. ReadsHold(stage, q, {}, FALSE, located, others)
    BY <1>3 DEF ReadsHold
  <2> HIDE DEF stage
  <2> QED
    BY <1>1, <1>5, <2>1, <2>2, <2>3, ProceedPreserves
<1> QED
  BY <1>4, <1>5 DEF ReadPlace

LEMMA StepReadLocations ==
    ASSUME Inv, NEW c \in Callers, ReadLocations(c)
    PROVE  Inv'
<1> DEFINE q == call[c]
           at == LocationsOf(q.item)
<1>1. pc[c] = "locations" /\ UNCHANGED <<tables, orphans, abandoned>>
  BY DEF ReadLocations
<1>2. lock = c /\ Shaped("locations", q) /\ TypeOK
  BY <1>1 DEF Inv, Locked
<1>3. q \in Request /\ WellFormed(q) /\ q.op \in {"create", "update_location", "delete"}
      /\ q.mode \in {"preview", "commit"}
  BY <1>2 DEF Shaped, Request
<1>4. at \in SUBSET Places /\ at = PlacesIn(located, q.item) /\ FALSE \in BOOLEAN
  BY DEF LocationsOf, PlacesIn
<1>5. seenItem[c] \in Values \cup {NoItem}
  BY <1>2 DEF TypeOK
<1>6. ASSUME NEW s \in Statuses, Leave(c, s)
      PROVE  Inv'
  BY <1>1, <1>2, <1>6, LeavePreserves
<1>7. ASSUME NEW stage \in Stages, Proceed(c, stage, seenItem[c], at, FALSE),
             \/ q.op = "create" /\ stage = "place"
             \/ q.op = "update_location" /\ stage = "commit"
             \/ q.op = "delete" /\ stage = "others"
      PROVE  Inv'
  <2>1. /\ q.mode # "preview" => Shaped(stage, q)
        /\ stage # "commit" => Shaped(stage, q)
    BY <1>3, <1>7 DEF Shaped
  <2>2. ReadsHold(stage, q, at, FALSE, located, others)
    BY <1>4, <1>7 DEF ReadsHold
  <2> HIDE DEF at
  <2> QED
    BY <1>1, <1>4, <1>5, <1>7, <2>1, <2>2, ProceedPreserves
<1>8. \/ Leave(c, "CONFLICT") \/ Leave(c, "NO_CHANGE")
      \/ q.op = "create" /\ Proceed(c, "place", seenItem[c], at, FALSE)
      \/ q.op = "update_location" /\ Proceed(c, "commit", seenItem[c], at, FALSE)
      \/ q.op = "delete" /\ Proceed(c, "others", seenItem[c], at, FALSE)
  BY DEF ReadLocations
<1>9. {"CONFLICT", "NO_CHANGE"} \subseteq Statuses /\ {"place", "commit", "others"} \subseteq Stages
  BY DEF Statuses, Stages
<1> HIDE DEF q, at
<1> QED
  BY <1>6, <1>7, <1>8, <1>9

LEMMA StepReadOthers ==
    ASSUME Inv, NEW c \in Callers, ReadOthers(c)
    PROVE  Inv'
<1> DEFINE q == call[c]
           other == q.item \in others
<1>1. pc[c] = "others" /\ UNCHANGED <<tables, orphans, abandoned>>
      /\ Proceed(c, "commit", seenItem[c], seenAt[c], other)
  BY DEF ReadOthers
<1>2. Shaped("others", q) /\ TypeOK
  BY <1>1 DEF Inv
<1>3. seenItem[c] \in Values \cup {NoItem} /\ seenAt[c] \in SUBSET Places
  BY <1>2 DEF TypeOK
<1>4. q.mode # "preview" => Shaped("commit", q)
  BY <1>2 DEF Shaped, Request
<1>5. ASSUME abandoned = 0
      PROVE  ReadsHold("commit", q, seenAt[c], other, located, others)
  <2>1. ReadsHold("others", q, seenAt[c], seenOther[c], located, others)
    BY <1>1, <1>5 DEF Inv, Served
  <2>2. q.op = "delete"
    BY <1>2 DEF Shaped
  <2> QED
    BY <2>1, <2>2 DEF ReadsHold
<1>6. other \in BOOLEAN /\ "commit" \in Stages
  BY DEF Stages
<1> HIDE DEF other
<1> QED
  BY <1>1, <1>3, <1>4, <1>5, <1>6, ProceedPreserves

LEMMA StepQueryFails ==
    ASSUME Inv, NEW c \in Callers, QueryFails(c)
    PROVE  Inv'
<1>1. lock = c /\ Leave(c, "REJECTED") /\ UNCHANGED <<tables, orphans, abandoned>>
  BY DEF QueryFails, Inv, Locked
<1> QED
  BY <1>1, LeavePreserves DEF Statuses

(* With c at its transaction, every other call is before the lock. *)
LEMMA OthersWait ==
    ASSUME Inv, NEW c \in Callers, pc[c] = "commit", NEW d \in Callers, d # c
    PROVE  pc[d] \in {"idle", "lock"}
<1>1. Locked(pc[c], c, lock) /\ Locked(pc[d], d, lock)
  BY DEF Inv
<1> QED
  BY <1>1 DEF Locked

LEMMA StepCommit ==
    ASSUME Inv, NEW c \in Callers, Commit(c)
    PROVE  Inv'
<1>1. pc[c] = "commit" /\ Run(Sent(c)) /\ orphans' = orphans /\ abandoned' = abandoned
  BY DEF Commit
<1>2. lock = c /\ Shaped(pc[c], call[c]) /\ TypeOK /\ call[c] \in Request
  BY <1>1 DEF Inv, Locked, Shaped
<1>3. Sent(c) \in Transaction
  BY <1>2, SentTyped
<1>4. PICK s \in Statuses : Leave(c, s)
  BY DEF Commit, Statuses
<1>5. Moves(c) /\ pc'[c] = "idle"
  BY <1>2, <1>4, LeaveMoves
<1>6. lock' = Free
  BY <1>4 DEF Leave
<1>7. /\ items' \in [Items -> Values \cup {NoItem}] /\ located' \in SUBSET Edge
      /\ others' \in SUBSET Items /\ spaces' \in SUBSET Admissible
  BY <1>1, <1>2, <1>3, RunTyped
<1>8. TypeOK'
  BY <1>1, <1>2, <1>5, <1>6, <1>7 DEF TypeOK, Moves
<1>9. ASSUME NEW d \in Callers
      PROVE  pc'[d] \in {"idle", "lock"} /\ Shaped(pc'[d], call'[d])
  <2>1. CASE d = c
    BY <1>5, <2>1 DEF Shaped
  <2>2. CASE d # c
    <3>1. pc'[d] = pc[d] /\ call'[d] = call[d]
      BY <1>5, <2>2 DEF Moves
    <3>2. pc[d] \in {"idle", "lock"} /\ Shaped(pc[d], call[d])
      BY <1>1, <2>2, OthersWait DEF Inv
    <3> QED
      BY <3>1, <3>2
  <2> QED
    BY <2>1, <2>2
<1>10. \A d \in Callers : Shaped(pc'[d], call'[d]) /\ Locked(pc'[d], d, lock')
  BY <1>9 DEF Locked
<1>11. ASSUME abandoned = 0
       PROVE  Served'
  <2>1. Served
    BY <1>11 DEF Inv
  <2>2. OneEach(located') /\ Anchored(items', located', others', spaces')
    BY <1>1, <1>2, <2>1, RunSound
  <2>3. \A d \in Callers :
          ReadsHold(pc'[d], call'[d], seenAt'[d], seenOther'[d], located', others')
    BY <1>9 DEF ReadsHold
  <2>4. orphans' = {}
    BY <1>1, <2>1 DEF Served
  <2> QED
    BY <2>2, <2>3, <2>4 DEF Served
<1> QED
  BY <1>1, <1>8, <1>10, <1>11 DEF Inv

LEMMA StepAbandon ==
    ASSUME Inv, NEW c \in Callers, NEW s \in Statuses, Abandon(c, s)
    PROVE  Inv'
<1>1. /\ pc[c] = "commit" /\ abandoned < MaxAbandoned /\ abandoned' = abandoned + 1
      /\ orphans' = orphans \cup {Sent(c)} /\ Leave(c, s)
      /\ items' = items /\ located' = located /\ others' = others /\ spaces' = spaces
  BY DEF Abandon, tables
<1>2. lock = c /\ Shaped(pc[c], call[c]) /\ TypeOK /\ call[c] \in Request
  BY <1>1 DEF Inv, Locked, Shaped
<1>3. Sent(c) \in Transaction
  BY <1>2, SentTyped
<1>4. Moves(c) /\ pc'[c] = "idle"
  BY <1>1, <1>2, LeaveMoves
<1>5. lock' = Free
  BY <1>1 DEF Leave
<1>6. abandoned' \in 0 .. MaxAbandoned /\ abandoned' # 0
  BY <1>1, <1>2, ItemAssumption DEF TypeOK
<1>7. orphans' \in SUBSET Transaction
  BY <1>1, <1>2, <1>3 DEF TypeOK
<1>8. TypeOK'
  BY <1>1, <1>2, <1>4, <1>5, <1>6, <1>7 DEF TypeOK, Moves
<1>9. ASSUME NEW d \in Callers
      PROVE  Shaped(pc'[d], call'[d]) /\ Locked(pc'[d], d, lock')
  <2>1. CASE d = c
    BY <1>4, <2>1 DEF Shaped, Locked
  <2>2. CASE d # c
    <3>1. pc'[d] = pc[d] /\ call'[d] = call[d]
      BY <1>4, <2>2 DEF Moves
    <3>2. pc[d] \in {"idle", "lock"} /\ Shaped(pc[d], call[d])
      BY <1>1, <2>2, OthersWait DEF Inv
    <3> QED
      BY <3>1, <3>2 DEF Locked
  <2> QED
    BY <2>1, <2>2
<1> QED
  BY <1>6, <1>8, <1>9 DEF Inv

LEMMA StepLate ==
    ASSUME Inv, NEW t \in orphans, LateTransaction(t)
    PROVE  Inv'
<1>1. /\ Run(t) /\ orphans' = orphans \ {t} /\ result' = "none" /\ lock' = lock /\ pc' = pc
      /\ call' = call /\ seenItem' = seenItem /\ seenAt' = seenAt /\ seenOther' = seenOther
      /\ abandoned' = abandoned
  BY DEF LateTransaction, seen
<1>2. t \in Transaction /\ TypeOK
  BY DEF Inv, TypeOK
<1>3. /\ items' \in [Items -> Values \cup {NoItem}] /\ located' \in SUBSET Edge
      /\ others' \in SUBSET Items /\ spaces' \in SUBSET Admissible
  BY <1>1, <1>2, RunTyped
<1>4. TypeOK'
  BY <1>1, <1>2, <1>3 DEF TypeOK, Statuses
<1>5. abandoned # 0
  BY DEF Inv, Served
<1> QED
  BY <1>1, <1>4, <1>5 DEF Inv

----------------------------------------------------------------------------
(* The results *)

LEMMA InitInv ==
    Init => Inv
<1> SUFFICES ASSUME Init PROVE Inv
  OBVIOUS
<1>1. spaces \in SUBSET Admissible /\ Admissible \subseteq Places
  BY ItemAssumption DEF Init
<1>2. \A e \in located : e \in [in : {i \in Items : items[i] # NoItem}, out : spaces]
  BY DEF Init
<1>3. located \in SUBSET Edge
  BY <1>1, <1>2 DEF Edge
<1>4. items \in [Items -> Values \cup {NoItem}]
  <2>1. items \in [Items -> Declared \cup {NoItem}] /\ Declared \subseteq Values
    BY ItemAssumption DEF Init
  <2> QED
    BY <2>1
<1>5. TypeOK
  BY <1>1, <1>3, <1>4, ItemAssumption DEF Init, TypeOK, Stages, Statuses
<1>6. Anchored(items, located, others, spaces)
  BY <1>2 DEF Init, Anchored
<1>7. OneEach(located)
  BY DEF Init, OneEach
<1>8. \A c \in Callers : pc[c] = "idle"
  BY DEF Init
<1>9. \A c \in Callers : /\ Shaped(pc[c], call[c]) /\ Locked(pc[c], c, lock)
                         /\ ReadsHold(pc[c], call[c], seenAt[c], seenOther[c], located, others)
  BY <1>8 DEF Shaped, Locked, ReadsHold
<1>10. orphans = {}
  BY DEF Init
<1> QED
  BY <1>5, <1>6, <1>7, <1>9, <1>10 DEF Inv, Served

LEMMA StepInv ==
    Inv /\ [Next]_vars => Inv'
<1> SUFFICES ASSUME Inv, [Next]_vars PROVE Inv'
  OBVIOUS
<1>1. ASSUME NEW c \in Callers, NEW q \in Request, Start(c, q) PROVE Inv'
  BY <1>1, StepStart
<1>2. ASSUME NEW c \in Callers, Step(c) PROVE Inv'
  BY <1>2, StepAcquire, StepReadItem, StepReadPlace, StepReadLocations, StepReadOthers, StepCommit
     DEF Step
<1>3. ASSUME NEW c \in Callers, QueryFails(c) PROVE Inv'
  BY <1>3, StepQueryFails
<1>4. ASSUME NEW c \in Callers, LoseReply(c) \/ Cancel(c) PROVE Inv'
  BY <1>4, StepAbandon DEF LoseReply, Cancel, Statuses
<1>5. ASSUME NEW t \in orphans, LateTransaction(t) PROVE Inv'
  BY <1>5, StepLate
<1>6. CASE UNCHANGED vars
  <2>1. /\ items' = items /\ located' = located /\ others' = others /\ spaces' = spaces
        /\ lock' = lock /\ pc' = pc /\ call' = call /\ seenItem' = seenItem /\ seenAt' = seenAt
        /\ seenOther' = seenOther /\ result' = result /\ orphans' = orphans
        /\ abandoned' = abandoned
    BY <1>6 DEF vars, tables, seen
  <2> QED
    BY <2>1 DEF Inv, TypeOK, Served
<1> QED
  BY <1>1, <1>2, <1>3, <1>4, <1>5, <1>6 DEF Next

LEMMA Invariance == Spec => []Inv
  BY InitInv, StepInv, PTL DEF Spec

(* The tables of ItemWritingService stay typed and, while no caller left a *)
(* transaction behind, every item has at most one location and no edge     *)
(* outlives its item (mutation/writing.py; its transactions do not check). *)
THEOREM Soundness == Spec => []TablesAreSound
<1>1. Inv => TablesAreSound
  BY DEF Inv, Served, OneEach, Anchored, TablesAreSound, OneLocationWhileServed,
         AtMostOneLocation, NoEdgeOutlivesItsItem
<1> QED
  BY <1>1, Invariance, PTL

(* The step of c that is answered APPLIED is its own transaction. *)
LEMMA AppliedIsCommit ==
    ASSUME Inv, [Next]_vars, NEW c \in Callers, pc[c] = "commit", pc'[c] = "idle",
           result' = "APPLIED"
    PROVE  Commit(c) /\ TxGuard(Sent(c))
<1>1. ASSUME NEW d \in Callers, d # c, NEW stage, Goto(d, stage) PROVE FALSE
  BY <1>1 DEF Inv, TypeOK, Goto
<1>2. \A d \in Callers, s \in Statuses : Leave(d, s) => result' = s /\ Goto(d, "idle")
  BY DEF Leave
<1>3. ASSUME NEW d \in Callers, NEW stage, NEW r, NEW at, NEW other,
             Proceed(d, stage, r, at, other)
      PROVE  result' \in {"PROPOSED", "none"}
  BY <1>3 DEF Proceed, Leave
<1>4. ASSUME NEW d \in Callers, NEW q \in Request, Start(d, q) PROVE FALSE
  BY <1>4 DEF Start
<1>5. ASSUME NEW d \in Callers, Acquire(d) PROVE FALSE
  BY <1>5 DEF Acquire, Leave
<1>6. ASSUME NEW d \in Callers, ReadItem(d) PROVE FALSE
  BY <1>3, <1>6 DEF ReadItem, Leave
<1>7. ASSUME NEW d \in Callers, ReadPlace(d) PROVE FALSE
  BY <1>3, <1>7 DEF ReadPlace, Leave
<1>8. ASSUME NEW d \in Callers, ReadLocations(d) PROVE FALSE
  BY <1>3, <1>8 DEF ReadLocations, Leave
<1>9. ASSUME NEW d \in Callers, ReadOthers(d) PROVE FALSE
  BY <1>3, <1>9 DEF ReadOthers
<1>10. ASSUME NEW d \in Callers, QueryFails(d) \/ LoseReply(d) \/ Cancel(d) PROVE FALSE
  BY <1>10 DEF QueryFails, LoseReply, Cancel, Abandon, Leave
<1>11. ASSUME NEW t \in orphans, LateTransaction(t) PROVE FALSE
  BY <1>11 DEF LateTransaction
<1>12. ~UNCHANGED vars
  BY DEF vars
<1>13. PICK d \in Callers : Commit(d)
  BY <1>4, <1>5, <1>6, <1>7, <1>8, <1>9, <1>10, <1>11, <1>12 DEF Next, Step
<1>14. d = c
  BY <1>1, <1>13 DEF Commit, Leave
<1>15. TxGuard(Sent(c))
  BY <1>13, <1>14 DEF Commit, Leave
<1> QED
  BY <1>13, <1>14, <1>15

(* An APPLIED result of ItemWritingService reports the record, location    *)
(* and incident edges that its transaction really replaced.                *)
THEOREM ReportsAreActual == Spec => AppliedReportIsActual
<1> DEFINE Actual(c) ==
      /\ call[c].op = "update_attributes" => items[call[c].item] = seenItem[c]
      /\ abandoned = 0 =>
           /\ call[c].op # "update_attributes" => LocationsOf(call[c].item) = seenAt[c]
           /\ call[c].op = "delete" => (call[c].item \in others) = seenOther[c]
<1>1. ASSUME Inv, [Next]_vars, NEW c \in Callers, pc[c] = "commit", pc'[c] = "idle",
             result' = "APPLIED"
      PROVE  Actual(c)
  <2> DEFINE q == call[c]
  <2>1. TxGuard(Sent(c))
    BY <1>1, AppliedIsCommit
  <2>2. TypeOK /\ Shaped("commit", q)
    BY <1>1 DEF Inv
  <2>3. q \in Request /\ q.op \in {"create", "update_location", "update_attributes", "delete"}
        /\ q.item \in Items
    BY <2>2 DEF Shaped, Request
  <2>4. Sent(c).item = q.item /\ Sent(c).expected = seenItem[c]
    BY <2>2, <2>3, SentTyped
  <2>5. ASSUME q.op = "update_attributes"
        PROVE  items[q.item] = seenItem[c]
    <3>1. Sent(c).kind = "attributes"
      BY <2>2, <2>3, <2>5, SentTyped
    <3> QED
      BY <2>1, <2>4, <3>1 DEF TxGuard
  <2>6. LocationsOf(q.item) = PlacesIn(located, q.item)
    BY DEF LocationsOf, PlacesIn
  <2>7. ASSUME abandoned = 0
        PROVE  /\ q.op # "update_attributes" => LocationsOf(q.item) = seenAt[c]
               /\ q.op = "delete" => (q.item \in others) = seenOther[c]
    <3>1. ReadsHold("commit", q, seenAt[c], seenOther[c], located, others)
          /\ Anchored(items, located, others, spaces)
      BY <1>1, <2>7 DEF Inv, Served
    <3>2. q.op = "create" => LocationsOf(q.item) = {}
      <4>1. SUFFICES ASSUME q.op = "create", NEW p \in LocationsOf(q.item)
                     PROVE  FALSE
        OBVIOUS
      <4>2. Sent(c).kind = "create"
        BY <2>2, <2>3, <4>1, SentTyped
      <4>3. items[q.item] = NoItem
        BY <2>1, <2>4, <4>2 DEF TxGuard
      <4>4. [in |-> q.item, out |-> p] \in located
        BY <4>1 DEF LocationsOf
      <4> QED
        BY <3>1, <4>3, <4>4 DEF Anchored
    <3> QED
      BY <2>3, <2>6, <3>1, <3>2 DEF ReadsHold
  <2> QED
    BY <2>5, <2>7
<1>2. Inv /\ [Next]_vars =>
        [\A c \in Callers : pc[c] = "commit" /\ pc'[c] = "idle" /\ result' = "APPLIED" =>
                              Actual(c)]_vars
  BY <1>1
<1> QED
  BY <1>2, Invariance, PTL DEF Spec, AppliedReportIsActual

(* While no caller left a transaction behind, ItemWritingService changes   *)
(* the database only in a commit it answers APPLIED: a preview, a refusal  *)
(* and a failed transaction leave no trace.                                *)
THEOREM OnlyCommitsWrite == Spec => OnlyAppliedCommitsWrite
<1> DEFINE Reported ==
      \E c \in Callers : /\ pc[c] # "idle" /\ pc'[c] = "idle"
                         /\ call[c].mode = "commit" /\ result' = "APPLIED"
<1>1. ASSUME Inv, [Next]_vars, abandoned = 0, tables' # tables
      PROVE  Reported
  <2>1. orphans = {}
    BY <1>1 DEF Inv, Served
  <2>2. PICK c \in Callers : Commit(c)
    <3>1. ~UNCHANGED vars
      BY <1>1 DEF vars, tables
    <3>2. ASSUME NEW c \in Callers, NEW q \in Request
          PROVE  ~Start(c, q)
      BY <1>1 DEF Start
    <3>3. ASSUME NEW c \in Callers
          PROVE  /\ ~Acquire(c) /\ ~ReadItem(c) /\ ~ReadPlace(c) /\ ~ReadLocations(c)
                 /\ ~ReadOthers(c) /\ ~QueryFails(c) /\ ~LoseReply(c) /\ ~Cancel(c)
      BY <1>1 DEF Acquire, ReadItem, ReadPlace, ReadLocations, ReadOthers, QueryFails, LoseReply,
                  Cancel, Abandon
    <3> QED
      BY <1>1, <2>1, <3>1, <3>2, <3>3 DEF Next, Step
  <2>3. pc[c] = "commit" /\ TxGuard(Sent(c))
    BY <1>1, <2>2 DEF Commit, Run, tables
  <2>4. result' = "APPLIED" /\ pc' = [pc EXCEPT ![c] = "idle"]
    BY <2>2, <2>3 DEF Commit, Leave, Goto
  <2>5. pc'[c] = "idle" /\ call[c].mode = "commit"
    BY <1>1, <2>3, <2>4 DEF Inv, TypeOK, Shaped
  <2> QED
    BY <2>3, <2>4, <2>5
<1>2. Inv /\ [Next]_vars => [abandoned = 0 /\ tables' # tables => Reported]_vars
  BY <1>1
<1> QED
  BY <1>2, Invariance, PTL DEF Spec, OnlyAppliedCommitsWrite
----------------------------------------------------------------------------
(* Writes by name: a component of its own, over a writer whose calls are   *)
(* atomic.                                                                 *)

(* A write by name, at each await: what it has resolved was so at a moment *)
(* since it began, and it has written nothing; once answered, what its     *)
(* text claims.                                                            *)
IsRecord(r) == r = [names |-> r.names, value |-> r.value, at |-> r.at]

OnceNamed(c, k) == \E s \in moments[c] : k \in ItemsNamed(s, request[c].item)
OnceUnnamed(c) == \E s \in moments[c] : ItemsNamed(s, request[c].item) = {}
Placed(c) == request[c].op \in {"create", "update_location"}

Underway(c) ==
  /\ ~wrote[c] /\ store \in moments[c]
  /\ step[c] = "place" => Placed(c)
  /\ step[c] \in {"preview", "stored"} => request[c].op = "create" /\ resolved[c] \in Keys
  /\ step[c] # "item" =>
       \/ resolved[c] = "" /\ request[c].op = "create" /\ OnceUnnamed(c)
       \/ resolved[c] \in Keys /\ OnceNamed(c, resolved[c])
  /\ step[c] = "write" /\ request[c].op = "create" => resolved[c] = ""
  /\ step[c] \in {"preview", "stored", "write"} /\ Placed(c) =>
       place[c] \in PlacesCalled[request[c].place] \cup Keys
  /\ step[c] = "stored" =>
       \E s \in moments[c] : s[resolved[c]].at \in PlacesCalled[request[c].place]

Answered(c) ==
  /\ Claim(c)
  /\ wrote[c] => reply[c] \in {"recorded", "deleted", "unconfirmed"}
  /\ wrote[c] /\ request[c].op = "create" => OnceUnnamed(c)

PerClient(f) == f = [c \in Clients |-> f[c]]
NamedTypes ==
  /\ store = [k \in Keys |-> store[k]]
  /\ \A k \in Keys : IsRecord(store[k])
  /\ step \in [Clients -> {"idle", "item", "place", "preview", "stored", "write", "done"}]
  /\ request \in [Clients -> Requests \cup {NoRequest}]
  /\ resolved \in [Clients -> Keys \cup {""}]
  /\ PerClient(place)
  /\ PerClient(reply)
  /\ wrote \in [Clients -> BOOLEAN]
  /\ PerClient(moments)

NamedInv ==
  /\ NamedTypes
  /\ \A c \in Clients :
       step[c] # "idle" =>
         /\ request[c] \in Requests /\ NamedWellFormed(request[c])
         /\ IF step[c] = "done" THEN Answered(c) ELSE Underway(c)

LEMMA NamedInvInit == NamedInit => NamedInv
<1>1. SUFFICES ASSUME NamedInit PROVE NamedInv
  OBVIOUS
<1>2. store = [k \in Keys |-> store[k]] /\ \A k \in Keys : IsRecord(store[k])
  BY <1>1, NamedAssumption DEF NamedInit, IsRecord
<1>3. NamedTypes
  BY <1>1, <1>2 DEF NamedInit, NamedTypes, PerClient
<1>4. \A c \in Clients : step[c] = "idle"
  BY <1>1 DEF NamedInit
<1> QED
  BY <1>3, <1>4 DEF NamedInv

(* The status of a resolution. *)
LEMMA FoundSome ==
    ASSUME NEW ids, IsFiniteSet(ids)
    PROVE  /\ Found(ids) \in {"entity_not_found", "found", "ambiguous"}
           /\ Found(ids) = "entity_not_found" <=> ids = {}
           /\ Found(ids) = "found" => The(ids) \in ids
           /\ Found(ids) = "ambiguous" => Cardinality(ids) > 1
<1>1. Cardinality(ids) \in Nat /\ (Cardinality(ids) = 0 <=> ids = {})
  BY FS_CardinalityType, FS_EmptySet
<1> QED
  BY <1>1 DEF Found, The

LEMMA NamesFinite ==
    ASSUME NamedInv, NEW s, NEW q \in Requests
    PROVE  /\ IsFiniteSet(ItemsNamed(s, q.item)) /\ ItemsNamed(s, q.item) \subseteq Keys
           /\ IsFiniteSet(DestinationsNamed(s, q.place))
           /\ DestinationsNamed(s, q.place) \subseteq PlacesCalled[q.place] \cup Keys
<1>1. IsFiniteSet(ItemsNamed(s, q.item)) /\ IsFiniteSet(ItemsNamed(s, q.place))
      /\ ItemsNamed(s, q.item) \subseteq Keys /\ ItemsNamed(s, q.place) \subseteq Keys
  BY FS_Subset, NamedAssumption DEF ItemsNamed
<1> QED
  BY <1>1, FS_Union, NamedAssumption DEF DestinationsNamed

(* The others are where they were; those under way have seen one more      *)
(* store, if the step wrote.                                               *)
Elsewhere(c) ==
  \A d \in Clients \ {c} :
    /\ step'[d] = step[d] /\ request'[d] = request[d] /\ resolved'[d] = resolved[d]
    /\ place'[d] = place[d] /\ reply'[d] = reply[d] /\ wrote'[d] = wrote[d]
LEMMA OthersKeep ==
    ASSUME NamedInv, NEW c \in Clients, NEW d \in Clients \ {c}, Elsewhere(c),
           \/ UNCHANGED store /\ moments'[d] = moments[d]
           \/ Put(store'),
           step[d] # "idle"
    PROVE  /\ request'[d] \in Requests /\ NamedWellFormed(request'[d])
           /\ IF step'[d] = "done" THEN Answered(d)' ELSE Underway(d)'
<1>1. /\ step'[d] = step[d] /\ request'[d] = request[d] /\ resolved'[d] = resolved[d]
      /\ place'[d] = place[d] /\ reply'[d] = reply[d] /\ wrote'[d] = wrote[d]
  BY DEF Elsewhere
<1>2. request[d] \in Requests /\ NamedWellFormed(request[d])
  BY DEF NamedInv
<1>3. CASE step[d] = "done"
  <2>1. moments'[d] = moments[d]
    BY <1>3 DEF Put
  <2>2. Answered(d)
    BY <1>3 DEF NamedInv
  <2>3. Claim(d)' = Claim(d)
    BY <1>1, <2>1 DEF Claim
  <2>4. OnceUnnamed(d)' = OnceUnnamed(d)
    BY <1>1, <2>1 DEF OnceUnnamed
  <2> QED
    BY <1>1, <1>2, <1>3, <2>2, <2>3, <2>4 DEF Answered
<1>4. CASE step[d] # "done"
  <2>1. Underway(d)
    BY <1>4 DEF NamedInv
  <2>2. moments[d] \subseteq moments'[d] /\ store' \in moments'[d]
    BY <1>4, <2>1 DEF Underway, Put
  <2>3. /\ OnceUnnamed(d) => OnceUnnamed(d)'
        /\ OnceNamed(d, resolved[d]) => OnceNamed(d, resolved[d])'
    BY <1>1, <2>2 DEF OnceUnnamed, OnceNamed
  <2>4. Placed(d)' = Placed(d)
    BY <1>1 DEF Placed
  <2>5. step[d] = "stored" =>
          \E s \in moments'[d] : s[resolved'[d]].at \in PlacesCalled[request'[d].place]
    BY <1>1, <2>1, <2>2 DEF Underway
  <2>6. Underway(d)'
    BY <1>1, <2>1, <2>2, <2>3, <2>4, <2>5 DEF Underway, OnceNamed
  <2> QED
    BY <1>1, <1>2, <1>4, <2>6
<1> QED
  BY <1>3, <1>4

(* So it is enough to look at the client that moves. *)
LEMMA OneMoves ==
    ASSUME NamedInv, NEW c \in Clients, Elsewhere(c),
           \A d \in Clients \ {c} : \/ UNCHANGED store /\ moments'[d] = moments[d]
                                    \/ Put(store'),
           NamedTypes',
           request'[c] \in Requests, NamedWellFormed(request'[c]),
           IF step'[c] = "done" THEN Answered(c)' ELSE Underway(c)'
    PROVE  NamedInv'
<1>1. ASSUME NEW d \in Clients, step'[d] # "idle"
      PROVE  /\ request'[d] \in Requests /\ NamedWellFormed(request'[d])
             /\ IF step'[d] = "done" THEN Answered(d)' ELSE Underway(d)'
  <2>1. CASE d = c
    BY <2>1
  <2>2. CASE d # c
    BY <1>1, <2>2, OthersKeep DEF Elsewhere
  <2> QED
    BY <2>1, <2>2
<1> QED
  BY <1>1 DEF NamedInv

(* What an answer assigns. *)
LEMMA Returned ==
    ASSUME NamedTypes, NEW c \in Clients, NEW text, Return(c, text),
           UNCHANGED request,
           \A d \in Clients \ {c} : wrote'[d] = wrote[d]
    PROVE  /\ Elsewhere(c)
           /\ step'[c] = "done" /\ reply'[c] = text
           /\ step' \in [Clients -> {"idle", "item", "place", "preview", "stored", "write", "done"}]
           /\ resolved' \in [Clients -> Keys \cup {""}]
           /\ PerClient(place')
           /\ PerClient(reply')
  BY DEF NamedTypes, PerClient, Return, Elsewhere

LEMMA BeginKeeps ==
    ASSUME NamedInv, NEW c \in Clients, NEW q \in Requests, Begin(c, q)
    PROVE  NamedInv'
<1>1. NamedTypes
  BY DEF NamedInv
<1>2. Elsewhere(c)
  BY <1>1 DEF Begin, Elsewhere, NamedTypes, PerClient
<1>3. /\ request'[c] = q /\ NamedWellFormed(q) /\ step'[c] = "item" /\ ~wrote'[c]
      /\ store' \in moments'[c]
  BY <1>1 DEF Begin, NamedTypes, PerClient
<1>4. NamedTypes'
  BY <1>1 DEF Begin, NamedTypes, PerClient
<1>5. Underway(c)'
  BY <1>3 DEF Underway
<1>6. \A d \in Clients \ {c} : UNCHANGED store /\ moments'[d] = moments[d]
  BY <1>1 DEF Begin, NamedTypes, PerClient
<1> QED
  BY <1>2, <1>3, <1>4, <1>5, <1>6, OneMoves

(* A step that only answers: the claim is about moments that stay. *)
LEMMA AnswerKeeps ==
    ASSUME NamedInv, NEW c \in Clients, step[c] \notin {"idle", "done"},
           NEW text, Return(c, text), UNCHANGED <<store, request, wrote, moments>>,
           Claim(c)'
    PROVE  NamedInv'
<1>1. NamedTypes /\ Underway(c) /\ request[c] \in Requests /\ NamedWellFormed(request[c])
  BY DEF NamedInv
<1>2. /\ Elsewhere(c) /\ step'[c] = "done" /\ reply'[c] = text /\ NamedTypes'
  BY <1>1, Returned DEF NamedTypes, PerClient
<1>3. ~wrote'[c]
  BY <1>1 DEF Underway
<1>4. Answered(c)'
  BY <1>3 DEF Answered
<1> QED
  BY <1>1, <1>2, <1>4, OneMoves

LEMMA GoKeeps ==
    ASSUME NamedInv, NEW c \in Clients, step[c] \notin {"idle", "done"},
           NEW stage \in {"place", "preview", "stored", "write"},
           NEW item \in Keys \cup {""}, NEW destination,
           Go(c, stage, item, destination), UNCHANGED <<store, request, wrote, moments>>,
           stage = "place" => Placed(c),
           stage \in {"preview", "stored"} => request[c].op = "create" /\ item \in Keys,
           \/ item = "" /\ request[c].op = "create" /\ OnceUnnamed(c)
           \/ item \in Keys /\ OnceNamed(c, item),
           stage = "write" /\ request[c].op = "create" => item = "",
           stage \in {"preview", "stored", "write"} /\ Placed(c) =>
             destination \in PlacesCalled[request[c].place] \cup Keys,
           stage = "stored" =>
             \E s \in moments[c] : s[item].at \in PlacesCalled[request[c].place]
    PROVE  NamedInv'
<1>1. NamedTypes /\ Underway(c) /\ request[c] \in Requests /\ NamedWellFormed(request[c])
  BY DEF NamedInv
<1>2. /\ Elsewhere(c) /\ step'[c] = stage /\ resolved'[c] = item /\ place'[c] = destination
      /\ NamedTypes'
  <2>1. request' = request /\ wrote' = wrote
    OBVIOUS
  <2>2. /\ Elsewhere(c) /\ step'[c] = stage /\ resolved'[c] = item /\ place'[c] = destination
        /\ step' \in [Clients -> {"idle", "item", "place", "preview", "stored", "write", "done"}]
        /\ resolved' \in [Clients -> Keys \cup {""}]
        /\ PerClient(place')
        /\ PerClient(reply')
    BY <1>1, <2>1 DEF Go, Elsewhere, NamedTypes, PerClient
  <2>3. NamedTypes'
    BY <1>1, <2>2 DEF NamedTypes, PerClient
  <2> QED
    BY <2>2, <2>3
<1>3. /\ Placed(c)' = Placed(c) /\ OnceUnnamed(c)' = OnceUnnamed(c)
      /\ OnceNamed(c, resolved[c])' = OnceNamed(c, item)
  BY <1>2 DEF Placed, OnceUnnamed, OnceNamed
<1>4. Underway(c)'
  BY <1>1, <1>2, <1>3 DEF Underway
<1> QED
  BY <1>1, <1>2, <1>4, OneMoves

LEMMA ResolveItemKeeps ==
    ASSUME NamedInv, NEW c \in Clients, ResolveItem(c)
    PROVE  NamedInv'
<1> DEFINE q == request[c]
           ids == ItemsNamed(store, q.item)
<1>1. q \in Requests /\ NamedWellFormed(q) /\ Underway(c) /\ step[c] = "item"
  BY DEF NamedInv, ResolveItem
<1>2. UNCHANGED <<store, request, wrote, moments>> /\ store \in moments[c]
  BY <1>1 DEF ResolveItem, Underway
<1>3. IsFiniteSet(ids) /\ ids \subseteq Keys
  BY <1>1, NamesFinite
<1>4. /\ Found(ids) = "entity_not_found" <=> ids = {}
      /\ Found(ids) = "found" => The(ids) \in ids
      /\ Found(ids) = "ambiguous" => Cardinality(ids) > 1
  BY <1>3, FoundSome
<1>5. CASE Found(ids) = "ambiguous" /\ Answer(c, "CONFLICT", "ITEM")
  <2>1. Return(c, "unclear")
    BY <1>5 DEF Answer, Render
  <2>2. Claim(c)'
    <3>1. reply'[c] = "unclear"
      BY <2>1 DEF Return, NamedInv, NamedTypes, PerClient
    <3> QED
      BY <1>2, <1>4, <1>5, <3>1 DEF Claim
  <2> QED
    BY <1>1, <1>2, <2>1, <2>2, AnswerKeeps
<1>6. CASE Found(ids) = "entity_not_found" /\ q.op # "create" /\ Answer(c, "NOT_FOUND", "ITEM")
  <2>1. Return(c, "item not found")
    BY <1>6 DEF Answer, Render
  <2>2. Claim(c)'
    <3>1. reply'[c] = "item not found"
      BY <2>1 DEF Return, NamedInv, NamedTypes, PerClient
    <3> QED
      BY <1>2, <1>4, <1>6, <3>1 DEF Claim
  <2> QED
    BY <1>1, <1>2, <2>1, <2>2, AnswerKeeps
<1>7. CASE Answer(c, "REJECTED", "ATTRIBUTE")
  <2>1. Return(c, "not in the schema")
    BY <1>7 DEF Answer, Render
  <2>2. Claim(c)'
    <3>1. reply'[c] = "not in the schema"
      BY <2>1 DEF Return, NamedInv, NamedTypes, PerClient
    <3> QED
      BY <3>1 DEF Claim
  <2> QED
    BY <1>1, <1>2, <2>1, <2>2, AnswerKeeps
<1>8. CASE /\ Found(ids) = "found" \/ (Found(ids) = "entity_not_found" /\ q.op = "create")
           /\ Go(c, IF q.op \in {"create", "update_location"} THEN "place" ELSE "write",
                 IF ids = {} THEN "" ELSE The(ids), "")
  <2> DEFINE stage == IF q.op \in {"create", "update_location"} THEN "place" ELSE "write"
             item == IF ids = {} THEN "" ELSE The(ids)
  <2>1. \/ item = "" /\ q.op = "create" /\ OnceUnnamed(c)
        \/ item \in Keys /\ OnceNamed(c, item)
    <3>1. CASE ids = {}
      BY <1>2, <1>4, <1>8, <3>1 DEF OnceUnnamed
    <3>2. CASE ids # {}
      BY <1>2, <1>3, <1>4, <1>8, <3>2 DEF OnceNamed
    <3> QED
      BY <3>1, <3>2
  <2>2. /\ stage \in {"place", "write"} /\ item \in Keys \cup {""}
        /\ stage = "place" => Placed(c)
        /\ stage = "write" => ~Placed(c) /\ q.op # "create"
    BY <2>1 DEF Placed
  <2> HIDE DEF stage, item
  <2>3. Go(c, stage, item, "")
    BY <1>8 DEF stage, item
  <2> QED
    BY <1>1, <1>2, <2>1, <2>2, <2>3, GoKeeps
<1> QED
  BY <1>5, <1>6, <1>7, <1>8 DEF ResolveItem

LEMMA ResolvePlaceKeeps ==
    ASSUME NamedInv, NEW c \in Clients, ResolvePlace(c)
    PROVE  NamedInv'
<1> DEFINE q == request[c]
           ids == DestinationsNamed(store, q.place)
<1>1. q \in Requests /\ NamedWellFormed(q) /\ Underway(c) /\ step[c] = "place" /\ NamedTypes
  BY DEF NamedInv, ResolvePlace
<1>2. UNCHANGED <<store, request, wrote, moments>> /\ store \in moments[c]
  BY <1>1 DEF ResolvePlace, Underway
<1>3. IsFiniteSet(ids) /\ ids \subseteq PlacesCalled[q.place] \cup Keys
  BY <1>1, NamesFinite
<1>4. /\ Found(ids) \in {"entity_not_found", "found", "ambiguous"}
      /\ Found(ids) = "entity_not_found" <=> ids = {}
      /\ Found(ids) = "found" => The(ids) \in ids
      /\ Found(ids) = "ambiguous" => Cardinality(ids) > 1
  BY <1>3, FoundSome
<1>5. CASE Found(ids) = "ambiguous"
  <2>1. Return(c, "unclear")
    BY <1>5 DEF Answer, Render, ResolvePlace
  <2>2. Claim(c)'
    <3>1. reply'[c] = "unclear"
      BY <1>1, <2>1 DEF Return, NamedTypes, PerClient
    <3> QED
      BY <1>2, <1>4, <1>5, <3>1 DEF Claim
  <2> QED
    BY <1>1, <1>2, <2>1, <2>2, AnswerKeeps
<1>6. CASE Found(ids) = "entity_not_found"
  <2>1. Return(c, "place not found")
    BY <1>6 DEF Answer, Render, ResolvePlace
  <2>2. Claim(c)'
    <3>1. reply'[c] = "place not found"
      BY <1>1, <2>1 DEF Return, NamedTypes, PerClient
    <3> QED
      BY <1>2, <1>4, <1>6, <3>1 DEF Claim
  <2> QED
    BY <1>1, <1>2, <2>1, <2>2, AnswerKeeps
<1>7. CASE Found(ids) = "found"
  <2> DEFINE stage == IF q.op = "create" /\ resolved[c] # "" THEN "preview" ELSE "write"
             item == resolved[c]
             destination == The(ids)
  <2>1. Go(c, stage, item, destination)
    BY <1>7 DEF ResolvePlace
  <2>2. destination \in PlacesCalled[q.place] \cup Keys
    BY <1>3, <1>4, <1>7
  <2>3. \/ item = "" /\ q.op = "create" /\ OnceUnnamed(c)
        \/ item \in Keys /\ OnceNamed(c, item)
    BY <1>1 DEF Underway
  <2>4. /\ stage \in {"preview", "write"} /\ item \in Keys \cup {""}
        /\ stage = "preview" => q.op = "create" /\ item \in Keys
        /\ stage = "write" /\ q.op = "create" => item = ""
    BY <2>3
  <2> HIDE DEF stage, item, destination
  <2> QED
    BY <1>1, <1>2, <2>1, <2>2, <2>3, <2>4, GoKeeps
<1> QED
  BY <1>4, <1>5, <1>6, <1>7

LEMMA PreviewKeeps ==
    ASSUME NamedInv, NEW c \in Clients, Preview(c)
    PROVE  NamedInv'
<1>1. /\ request[c] \in Requests /\ Underway(c) /\ step[c] = "preview" /\ NamedTypes
      /\ UNCHANGED <<store, request, wrote, moments>>
  BY DEF NamedInv, Preview
<1>2. /\ request[c].op = "create" /\ resolved[c] \in Keys /\ store \in moments[c]
      /\ OnceNamed(c, resolved[c]) /\ place[c] \in PlacesCalled[request[c].place] \cup Keys
  BY <1>1, NamedAssumption DEF Underway, Placed
<1>3. CASE /\ place[c] \in Suitable /\ store[resolved[c]].at = place[c]
           /\ Go(c, "stored", resolved[c], place[c])
  <2>1. store[resolved[c]].at \in PlacesCalled[request[c].place]
    BY <1>2, <1>3, NamedAssumption
  <2>2. \E s \in moments[c] : s[resolved[c]].at \in PlacesCalled[request[c].place]
    BY <1>2, <2>1
  <2> QED
    BY <1>1, <1>2, <1>3, <2>2, GoKeeps
<1>4. CASE Answer(c, "CONFLICT", "ITEM_ALREADY_EXISTS")
  <2>1. Return(c, "exists")
    BY <1>2, <1>4 DEF Answer, Render
  <2>2. reply'[c] = "exists"
    BY <1>1, <2>1 DEF Return, NamedTypes, PerClient
  <2>3. Claim(c)'
    BY <1>1, <1>2, <2>2 DEF Claim, OnceNamed
  <2> QED
    BY <1>1, <2>1, <2>3, AnswerKeeps
<1> QED
  BY <1>3, <1>4 DEF Preview

LEMMA ReadStoredKeeps ==
    ASSUME NamedInv, NEW c \in Clients, ReadStored(c)
    PROVE  NamedInv'
<1>1. /\ request[c] \in Requests /\ Underway(c) /\ step[c] = "stored" /\ NamedTypes
      /\ UNCHANGED <<store, request, wrote, moments>>
  BY DEF NamedInv, ReadStored
<1>2. /\ request[c].op = "create" /\ resolved[c] \in Keys /\ store \in moments[c]
      /\ OnceNamed(c, resolved[c])
      /\ \E s \in moments[c] : s[resolved[c]].at \in PlacesCalled[request[c].place]
  BY <1>1, NamedAssumption DEF Underway
<1>3. CASE Return(c, "error")
  <2>1. reply'[c] = "error"
    BY <1>1, <1>3 DEF Return, NamedTypes, PerClient
  <2>2. Claim(c)'
    BY <2>1 DEF Claim
  <2> QED
    BY <1>1, <1>3, <2>2, AnswerKeeps
<1>4. CASE Answer(c, "CONFLICT", "ITEM_ALREADY_EXISTS")
  <2>1. Return(c, "exists")
    BY <1>2, <1>4 DEF Answer, Render
  <2>2. reply'[c] = "exists"
    BY <1>1, <2>1 DEF Return, NamedTypes, PerClient
  <2>3. Claim(c)'
    BY <1>1, <1>2, <2>2 DEF Claim, OnceNamed
  <2> QED
    BY <1>1, <2>1, <2>3, AnswerKeeps
<1>5. CASE /\ request[c].value \in {"", store[resolved[c]].value}
           /\ Answer(c, "NO_CHANGE", "ITEM_ALREADY_RECORDED_AT_LOCATION")
  <2>1. Return(c, "recorded")
    BY <1>2, <1>5 DEF Answer, Render
  <2>2. reply'[c] = "recorded"
    BY <1>1, <2>1 DEF Return, NamedTypes, PerClient
  <2>3. request[c].value # "" => \E s \in moments[c] : s[resolved[c]].value = request[c].value
    BY <1>2, <1>5
  <2>4. Claim(c)'
    BY <1>1, <1>2, <2>2, <2>3 DEF Claim, OnceNamed
  <2> QED
    BY <1>1, <2>1, <2>4, AnswerKeeps
<1> QED
  BY <1>3, <1>4, <1>5 DEF ReadStored

LEMMA ResolveFailsKeeps ==
    ASSUME NamedInv, NEW c \in Clients, ResolveFails(c)
    PROVE  NamedInv'
<1>1. step[c] \notin {"idle", "done"} /\ Return(c, "error")
      /\ UNCHANGED <<store, request, wrote, moments>>
  BY DEF ResolveFails
<1>2. reply'[c] = "error"
  BY <1>1 DEF Return, NamedInv, NamedTypes, PerClient
<1>3. Claim(c)'
  BY <1>2 DEF Claim
<1> QED
  BY <1>1, <1>3, AnswerKeeps

----------------------------------------------------------------------------
(* The canonical writer *)

(* What is known of a request that is about to write. *)
LEMMA AboutToWrite ==
    ASSUME NamedInv, NEW c \in Clients, step[c] = "write"
    PROVE  /\ request[c] \in Requests /\ NamedWellFormed(request[c]) /\ NamedTypes
           /\ ~wrote[c] /\ store \in moments[c] /\ Key(c) \in Keys
           /\ request[c].op \in {"create", "update_location", "update_attributes", "delete"}
           /\ request[c].op = "create" => Key(c) = request[c].key /\ OnceUnnamed(c)
           /\ request[c].op # "create" => OnceNamed(c, Key(c))
           /\ Placed(c) => place[c] \in PlacesCalled[request[c].place] \cup Keys
<1>1. /\ request[c] \in Requests /\ NamedWellFormed(request[c]) /\ NamedTypes /\ Underway(c)
  BY DEF NamedInv
<1>2. request[c].op \in {"create", "update_location", "update_attributes", "delete"}
  BY <1>1, NamedAssumption
<1>3. request[c].op = "create" => request[c].key \in Keys
  BY <1>1, NamedAssumption
<1> QED
  BY <1>1, <1>2, <1>3, NamedAssumption DEF Underway, Key

(* An outcome that changes nothing. *)
LEMMA OutcomeShape ==
    ASSUME NEW c \in Clients, NEW status, NEW reason, Outcome(c) = <<status, reason>>,
           Answer(c, Outcome(c)[1], Outcome(c)[2])
    PROVE  Return(c, Render(request[c].op, status, reason))
<1>1. Outcome(c)[1] = status /\ Outcome(c)[2] = reason
  OBVIOUS
<1> QED
  BY <1>1 DEF Answer

LEMMA UnwrittenKeeps ==
    ASSUME NamedInv, NEW c \in Clients, step[c] = "write",
           Answer(c, Outcome(c)[1], Outcome(c)[2]), Outcome(c)[1] # "APPLIED",
           UNCHANGED <<store, request, wrote, moments>>
    PROVE  NamedInv'
<1> DEFINE q == request[c]
           record == store[Key(c)]
<1>1. /\ q \in Requests /\ NamedWellFormed(q) /\ NamedTypes
      /\ ~wrote[c] /\ store \in moments[c] /\ Key(c) \in Keys
      /\ q.op \in {"create", "update_location", "update_attributes", "delete"}
      /\ q.op = "create" => Key(c) = q.key /\ OnceUnnamed(c)
      /\ q.op # "create" => OnceNamed(c, Key(c))
      /\ Placed(c) => place[c] \in PlacesCalled[q.place] \cup Keys
  BY AboutToWrite
<1>2. ASSUME NEW text, Return(c, text)
      PROVE  reply'[c] = text
  BY <1>1, <1>2 DEF Return, NamedTypes, PerClient
<1>3. CASE q.op = "create" /\ record # NoRecord
  <2>1. Outcome(c) = <<"CONFLICT", "ITEM_ALREADY_EXISTS">>
    BY <1>3 DEF Outcome
  <2>2. Return(c, "exists")
    BY <1>3, <2>1, OutcomeShape DEF Render
  <2>3. Claim(c)'
    BY <1>1, <1>2, <1>3, <2>2 DEF Claim
  <2> QED
    BY <2>2, <2>3, AnswerKeeps
<1>4. CASE q.op # "create" /\ record = NoRecord
  <2>1. Outcome(c) = <<"NOT_FOUND", "ITEM">>
    BY <1>4 DEF Outcome
  <2>2. Return(c, "item not found")
    <3>1. Render(q.op, "NOT_FOUND", "ITEM") = "item not found"
      BY DEF Render
    <3> QED
      BY <2>1, <3>1, OutcomeShape
  <2>3. Claim(c)'
    BY <1>1, <1>2, <1>4, <2>2 DEF Claim, OnceNamed
  <2> QED
    BY <2>2, <2>3, AnswerKeeps
<1>5. CASE /\ ~(q.op = "create" /\ record # NoRecord) /\ ~(q.op # "create" /\ record = NoRecord)
           /\ Placed(c) /\ place[c] \notin Suitable
  <2>1. Outcome(c) = <<"REJECTED", "INVALID_LOCATION_TYPE">>
    BY <1>5 DEF Outcome, Placed
  <2>2. Return(c, "unconfirmed")
    <3>1. Render(q.op, "REJECTED", "INVALID_LOCATION_TYPE") = "unconfirmed"
      BY DEF Render
    <3> QED
      BY <2>1, <3>1, OutcomeShape
  <2>3. Claim(c)'
    BY <1>2, <2>2 DEF Claim
  <2> QED
    BY <2>2, <2>3, AnswerKeeps
<1>6. CASE /\ ~(Placed(c) /\ place[c] \notin Suitable)
           /\ q.op # "create" /\ record # NoRecord /\ Written(c) = record
  <2>1. Outcome(c) = <<"NO_CHANGE", "">>
    BY <1>1, <1>6 DEF Outcome, Placed
  <2>2. q.op # "delete"
    BY <1>6 DEF Written
  <2>3. Return(c, "recorded")
    BY <2>1, <2>2, OutcomeShape DEF Render
  <2>4. IsRecord(record)
    BY <1>1 DEF NamedTypes
  <2>5. q.op = "update_location" => record.at = place[c]
    BY <1>6, <2>4 DEF Written, IsRecord
  <2>6. q.op = "update_attributes" => record.value = q.value
    BY <1>6, <2>4 DEF Written, IsRecord
  <2>7. q.op = "update_location" => record.at \in PlacesCalled[q.place]
    BY <1>1, <1>6, <2>5, NamedAssumption DEF Placed
  <2>8. q.op = "update_location" => q.value = ""
    BY <1>1 DEF NamedWellFormed
  <2>9. Claim(c)'
    <3>1. /\ \E s \in moments[c] : Key(c) \in ItemsNamed(s, q.item)
          /\ q.op # "update_attributes" => \E s \in moments[c] : s[Key(c)].at \in PlacesCalled[q.place]
          /\ q.value # "" => \E s \in moments[c] : s[Key(c)].value = q.value
      BY <1>1, <1>6, <2>2, <2>6, <2>7, <2>8 DEF OnceNamed
    <3> QED
      BY <1>1, <1>2, <2>3, <3>1 DEF Claim
  <2> QED
    BY <2>3, <2>9, AnswerKeeps
<1>7. CASE /\ ~(q.op = "create" /\ record # NoRecord) /\ ~(q.op # "create" /\ record = NoRecord)
           /\ ~(Placed(c) /\ place[c] \notin Suitable)
           /\ ~(q.op # "create" /\ Written(c) = record)
  <2>1. Outcome(c) = <<"PROPOSED", "">>
    BY <1>1, <1>7 DEF Outcome, Placed
  <2>2. Return(c, "preview")
    BY <2>1, OutcomeShape DEF Render
  <2>3. Claim(c)'
    BY <1>2, <2>2 DEF Claim
  <2> QED
    BY <2>2, <2>3, AnswerKeeps
<1> QED
  BY <1>3, <1>4, <1>5, <1>6, <1>7

(* A transaction that runs, whether its reply is heard or not. *)
LEMMA WrittenKeeps ==
    ASSUME NamedInv, NEW c \in Clients, step[c] = "write", Outcome(c)[1] = "APPLIED",
           NEW text, Return(c, text), UNCHANGED request,
           \/ text = Render(request[c].op, "APPLIED", "")
           \/ text = Render(request[c].op, "REJECTED", "TRANSACTION_FAILED"),
           Put([store EXCEPT ![Key(c)] = Written(c)]),
           wrote' = [wrote EXCEPT ![c] = TRUE]
    PROVE  NamedInv'
<1> DEFINE q == request[c]
           record == store[Key(c)]
<1>1. /\ q \in Requests /\ NamedWellFormed(q) /\ NamedTypes
      /\ ~wrote[c] /\ store \in moments[c] /\ Key(c) \in Keys
      /\ q.op \in {"create", "update_location", "update_attributes", "delete"}
      /\ q.op = "create" => Key(c) = q.key /\ OnceUnnamed(c)
      /\ q.op # "create" => OnceNamed(c, Key(c))
      /\ Placed(c) => place[c] \in PlacesCalled[q.place] \cup Keys
  BY AboutToWrite
<1>2. /\ store' = [store EXCEPT ![Key(c)] = Written(c)]
      /\ moments' = [d \in Clients |->
                       IF step[d] \in {"idle", "done"} THEN moments[d] ELSE moments[d] \cup {store'}]
  BY DEF Put
<1>3. Put(store')
  BY <1>2 DEF Put
<1>4. store'[Key(c)] = Written(c) /\ store' \in moments'[c] /\ moments[c] \subseteq moments'[c]
  BY <1>1, <1>2 DEF NamedTypes, PerClient
<1>5. \A d \in Clients \ {c} : wrote'[d] = wrote[d]
  BY <1>1 DEF NamedTypes, PerClient
<1>6. /\ Elsewhere(c) /\ step'[c] = "done" /\ reply'[c] = text
      /\ step' \in [Clients -> {"idle", "item", "place", "preview", "stored", "write", "done"}]
      /\ resolved' \in [Clients -> Keys \cup {""}]
      /\ PerClient(place')
      /\ PerClient(reply')
  BY <1>1, <1>5, Returned
<1>7. IsRecord(Written(c))
  <2>1. IsRecord(record)
    BY <1>1 DEF NamedTypes, PerClient
  <2> QED
    BY <1>1, <2>1 DEF Written, IsRecord, NoRecord
<1>8. NamedTypes'
  BY <1>1, <1>2, <1>6, <1>7 DEF NamedTypes, PerClient
<1>9. Placed(c) => place[c] \in PlacesCalled[q.place]
  <2>1. Placed(c) => place[c] \in Suitable
    BY <1>1 DEF Outcome, Placed
  <2> QED
    BY <1>1, <2>1, NamedAssumption
<1>10. wrote'[c] /\ request'[c] = q
  BY <1>1 DEF NamedTypes, PerClient
<1>11. q.op = "create" => OnceUnnamed(c)'
  BY <1>1, <1>4, <1>10 DEF OnceUnnamed
<1>12. q.op # "create" => OnceNamed(c, Key(c)) /\ \E s \in moments'[c] : Key(c) \in ItemsNamed(s, q.item)
  BY <1>1, <1>4 DEF OnceNamed
<1>13. Claim(c)' /\ text \in {"recorded", "deleted", "unconfirmed"}
  <2>1. CASE text = Render(q.op, "REJECTED", "TRANSACTION_FAILED")
    <3>1. text = "unconfirmed"
      BY <2>1 DEF Render
    <3> QED
      BY <1>6, <3>1 DEF Claim
  <2>2. CASE text = Render(q.op, "APPLIED", "") /\ q.op = "delete"
    <3>1. text = "deleted"
      BY <2>2 DEF Render
    <3>2. store'[Key(c)] = NoRecord
      BY <1>4, <2>2 DEF Written
    <3> QED
      BY <1>1, <1>4, <1>6, <1>10, <1>12, <2>2, <3>1, <3>2 DEF Claim
  <2>3. CASE text = Render(q.op, "APPLIED", "") /\ q.op # "delete"
    <3>1. text = "recorded"
      BY <2>3 DEF Render
    <3>2. IsRecord(record)
      BY <1>1 DEF NamedTypes, PerClient
    <3>3. q.op # "update_attributes" => Written(c).at = place[c]
      BY <1>1, <2>3, <3>2 DEF Written, IsRecord
    <3>4. q.op # "update_attributes" => store'[Key(c)].at \in PlacesCalled[q.place]
      BY <1>1, <1>4, <1>9, <2>3, <3>3 DEF Placed
    <3>5. q.value # "" => Written(c).value = q.value
      BY <1>1, <2>3, <3>2 DEF Written, IsRecord, NamedWellFormed
    <3>6. /\ \/ \E s \in moments'[c] : Key(c) \in ItemsNamed(s, q.item)
             \/ q.op = "create" /\ wrote'[c] /\ Key(c) = q.key
          /\ q.op # "update_attributes" => \E s \in moments'[c] : s[Key(c)].at \in PlacesCalled[q.place]
          /\ q.value # "" => \E s \in moments'[c] : s[Key(c)].value = q.value
      BY <1>1, <1>4, <1>10, <1>12, <3>4, <3>5
    <3>7. /\ reply'[c] = "recorded" /\ request'[c] = q
          /\ \E k \in Keys :
               /\ (\E s \in moments'[c] : k \in ItemsNamed(s, q.item)) \/ (q.op = "create" /\ wrote'[c] /\ k = q.key)
               /\ q.op # "update_attributes" => \E s \in moments'[c] : s[k].at \in PlacesCalled[q.place]
               /\ q.value # "" => \E s \in moments'[c] : s[k].value = q.value
      BY <1>1, <1>6, <1>10, <3>1, <3>6
    <3>8. Claim(c)'
      BY <3>7 DEF Claim
    <3> QED
      BY <3>1, <3>8
  <2> QED
    BY <2>1, <2>2, <2>3
<1>14. Answered(c)'
  BY <1>6, <1>10, <1>11, <1>13 DEF Answered
<1> QED
  BY <1>1, <1>3, <1>6, <1>8, <1>10, <1>14, OneMoves

LEMMA WriteKeeps ==
    ASSUME NamedInv, NEW c \in Clients, Write(c)
    PROVE  NamedInv'
<1>1. step[c] = "write" /\ Answer(c, Outcome(c)[1], Outcome(c)[2]) /\ UNCHANGED request
  BY DEF Write
<1>2. CASE Outcome(c)[1] = "APPLIED"
  <2>1. Outcome(c)[2] = ""
    BY <1>2 DEF Outcome
  <2>2. Return(c, Render(request[c].op, "APPLIED", ""))
    BY <1>1, <1>2, <2>1 DEF Answer
  <2> QED
    BY <1>1, <1>2, <2>2, WrittenKeeps DEF Write
<1>3. CASE Outcome(c)[1] # "APPLIED"
  BY <1>1, <1>3, UnwrittenKeeps DEF Write
<1> QED
  BY <1>2, <1>3

LEMMA WriteUnansweredKeeps ==
    ASSUME NamedInv, NEW c \in Clients, WriteUnanswered(c)
    PROVE  NamedInv'
<1>1. /\ step[c] = "write" /\ Outcome(c)[1] = "APPLIED" /\ UNCHANGED request
      /\ Return(c, Render(request[c].op, "REJECTED", "TRANSACTION_FAILED"))
  BY DEF WriteUnanswered, Answer
<1>2. CASE UNCHANGED <<store, moments, wrote>>
  <2>1. Return(c, "unconfirmed")
    BY <1>1 DEF Render
  <2>2. reply'[c] = "unconfirmed"
    BY <2>1 DEF Return, NamedInv, NamedTypes, PerClient
  <2>3. Claim(c)'
    BY <2>2 DEF Claim
  <2> QED
    BY <1>1, <1>2, <2>1, <2>3, AnswerKeeps
<1>3. CASE /\ Put([store EXCEPT ![Key(c)] = Written(c)])
           /\ wrote' = [wrote EXCEPT ![c] = TRUE]
  BY <1>1, <1>3, WrittenKeeps
<1> QED
  BY <1>2, <1>3 DEF WriteUnanswered

----------------------------------------------------------------------------
LEMMA NamedInvariance == NamedSpec => []NamedInv
<1>1. ASSUME NamedInv, [NamedNext]_named
      PROVE  NamedInv'
  <2>1. CASE UNCHANGED named
    <3>1. UNCHANGED <<store, step, request, resolved, place, reply, wrote, moments>>
      BY <2>1 DEF named
    <3>2. NamedTypes'
      BY <1>1, <3>1 DEF NamedInv, NamedTypes, PerClient
    <3>3. ASSUME NEW c \in Clients
          PROVE  Underway(c)' = Underway(c) /\ Claim(c)' = Claim(c) /\ OnceUnnamed(c)' = OnceUnnamed(c)
      <4>1. OnceUnnamed(c)' = OnceUnnamed(c)
        BY <3>1 DEF OnceUnnamed
      <4>2. OnceNamed(c, resolved[c])' = OnceNamed(c, resolved[c]) /\ Placed(c)' = Placed(c)
        BY <3>1 DEF OnceNamed, Placed
      <4>3. Claim(c)' = Claim(c)
        BY <3>1 DEF Claim
      <4> QED
        BY <3>1, <4>1, <4>2, <4>3 DEF Underway
    <3> QED
      BY <1>1, <3>1, <3>2, <3>3 DEF NamedInv, Answered
  <2>2. CASE NamedNext
    BY <1>1, <2>2, BeginKeeps, ResolveItemKeeps, ResolvePlaceKeeps, PreviewKeeps, ReadStoredKeeps,
       WriteKeeps, WriteUnansweredKeeps, ResolveFailsKeeps DEF NamedNext
  <2> QED
    BY <1>1, <2>1, <2>2
<1> QED
  BY <1>1, NamedInvInit, PTL DEF NamedSpec

(* The text NamedItemWritingService and render_mutation_result answer a    *)
(* request with is true of the items while it ran, whatever other requests *)
(* wrote between its resolutions and its write.                            *)
THEOREM RepliesAreJustified == NamedSpec => []ReplyJustified
<1>1. NamedInv => ReplyJustified
  BY DEF NamedInv, ReplyJustified, Answered, OnceUnnamed
<1> QED
  BY <1>1, NamedInvariance, PTL

=============================================================================
