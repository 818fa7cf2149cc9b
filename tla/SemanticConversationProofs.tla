--------------------- MODULE SemanticConversationProofs ---------------------
(***************************************************************************)
(* The turns of a conversation refer back to the turns before them, a      *)
(* conversation in use keeps its place in the table, a replay means what   *)
(* its turns mean in order, and a write belongs to the request's own       *)
(* utterance: for any requests, conversations, plans and bounds.           *)
(***************************************************************************)
EXTENDS SemanticConversation, FiniteSetTheorems, SequenceTheorems, WellFoundedInduction,
        TLAPS

Before == {"absent", "new"}
Using == {"waiting", "planning"}
Replaying == {"planning", "antecedents"}
Over == {"mutating", "chatting", "done", "interrupted"}
Places == Before \cup Using \cup Replaying \cup Over

Foci == SUBSET Utterances
Fields == {"key", "users", "holder", "queue", "messages", "turns"}
Turns == [by : Requests, focus : Foci]
Results == [kind : Kinds, focus : Foci]
Calls == [end : Nat, plan : Plans, offsets : SUBSET Nat, turns : Seq(Foci)]
Memos == [end : Nat, res : Results]

Shape ==
  /\ states \in Seq(Requests)
  /\ DOMAIN conv = Requests /\ DOMAIN log = Requests
  /\ DOMAIN pc = Requests /\ DOMAIN own = Requests /\ DOMAIN writes = Requests
  /\ DOMAIN frames = Requests /\ DOMAIN memo = Requests /\ DOMAIN result = Requests
  /\ DOMAIN asked = Requests

----------------------------------------------------------------------------
(* Requests and the conversations they have made or use. *)

(* A conversation is made by a request that enters with it; who uses one   *)
(* has its key.                                                            *)
Owned(r) ==
  /\ pc[r] \in Before => /\ own[r] = None /\ log[r] = <<>>
                         /\ \A o \in Requests : own[o] # r
                         /\ \A i \in DOMAIN states : states[i] # r
  /\ pc[r] = "waiting" => own[r] # None
  /\ pc[r] = "antecedents" => own[r] = None
  /\ own[r] # None => KeyOf[r] # None /\ conv[own[r]].key = KeyOf[r]

UsersOf(c) == {r \in Requests : own[r] = c /\ pc[r] \in Using}

(* One conversation of each key; those in use are among them.              *)
Tabled ==
  /\ Len(states) <= Maximum
  /\ \A i, j \in DOMAIN states : conv[states[i]].key = conv[states[j]].key => i = j
  /\ \A r \in Requests : own[r] # None /\ pc[r] \in Using =>
       \E i \in DOMAIN states : states[i] = own[r]
  /\ \A c \in Requests : conv[c].users = Cardinality(UsersOf(c))

----------------------------------------------------------------------------
(* What turns mean. *)

(* The focus of utterance u, the i-th turn, after turns with these foci.   *)
Meaning(u, plan, foci, i) ==
  IF plan.kind = "fact" /\ plan.found /\ \A o \in plan.offsets : o < i /\ foci[i - o] # {}
  THEN {u} \cup UNION {foci[i - o] : o \in plan.offsets}
  ELSE {}

LastPlan(r, plans) == plans[Len(Sent[r])]

(* What a conversation remembers: the foci of the last turns of its log.   *)
Remembers(turns, l) ==
  /\ Len(turns) = IF Len(l) <= MaxTurns THEN Len(l) ELSE MaxTurns
  /\ \A o \in 1 .. Len(turns) : turns[Len(turns) + 1 - o] = l[Len(l) + 1 - o].focus

FociOf(l) == [j \in DOMAIN l |-> l[j].focus]

IsConversation(c) ==
  DOMAIN c = Fields /\ c.users \in Nat /\ c.turns \in Seq(Foci)

(* The turn of r, the i-th of c, means what it means there.                *)
TurnOf(c, r, focus, foci, i) ==
  /\ own[r] = c /\ pc[r] \in Over
  /\ focus = Meaning(Last(Sent[r]), LastPlan(r, asked[r]), foci, i)

(* Whose turn is logged is over. *)
Logged(c) ==
  /\ IsConversation(conv[c]) /\ log[c] \in Seq(Turns)
  /\ Remembers(conv[c].turns, log[c])
  /\ \A i \in DOMAIN log[c] :
       TurnOf(c, log[c][i].by, log[c][i].focus, FociOf(log[c]), i)

----------------------------------------------------------------------------
(* A request at p that uses conversation c. *)

Typed(r, p, c, n, stack, known, res, plans) ==
  /\ p \in Places /\ c \in Requests \cup {None} /\ n \in Nat
  /\ stack \in Seq(Calls) /\ known \in Seq(Memos) /\ res \in Results
  /\ DOMAIN plans = DOMAIN Sent[r] /\ \A i \in DOMAIN plans : plans[i] \in Plans

Unplanned(r, p, c, plans) ==
  p \in Before \cup {"waiting"} \/ (p = "planning" /\ c # None)
    => LastPlan(r, plans) = NoPlan

Written(p, n, plan) ==
  /\ n = IF p = "done" /\ plan.kind = "mutation" THEN 1 ELSE 0
  /\ p = "mutating" => plan.kind = "mutation"
  /\ p = "chatting" => plan.kind # "mutation"

(* Turns of a replay are counted from the first message it replays.        *)
Base(r) == Len(Sent[r]) - Len(Replayed(r))

Told(known, i, focus) == \E e \in DOMAIN known : known[e].end = i /\ known[e].res.focus = focus

(* The i-th turn means this after the turns it refers to. *)
Meant(r, known, i, plan, focus) ==
  /\ i \in 1 .. Len(Replayed(r))
  /\ \E foci \in Seq(Foci) :
       /\ Len(foci) = i - 1
       /\ \A o \in plan.offsets : o < i => Told(known, i - o, foci[i - o])
       /\ focus = Meaning(Replayed(r)[i], plan, foci, i)

(* Each turn is known once, and means what it is known to mean.            *)
Known(r, known, plans) ==
  /\ \A e, f \in DOMAIN known : known[e].end = known[f].end => e = f
  /\ \A e \in DOMAIN known :
       Meant(r, known, known[e].end, plans[Base(r) + known[e].end], known[e].res.focus)

(* A call under way is about a turn that is not known yet. *)
Calling(r, q, known) ==
  /\ q.end \in 1 .. Len(Replayed(r)) /\ Len(q.turns) = q.end - 1
  /\ \A e \in DOMAIN known : known[e].end # q.end
  /\ q.offsets \subseteq 1 .. q.end - 1

(* Once it is planned it has noted what it refers to, but for the offsets  *)
(* left.                                                                   *)
Noting(r, q, known, plans) ==
  /\ q.plan = plans[Base(r) + q.end]
  /\ \A o \in q.plan.offsets : o < q.end /\ o \notin q.offsets =>
       Told(known, q.end - o, q.turns[q.end - o])

Fresh(q) == q.offsets = {} /\ q.turns = [i \in 1 .. q.end - 1 |-> {}]

(* The calls under way: the first about the request's own message, each    *)
(* about an earlier turn than those before it, all but the last planned.   *)
Stacked(r, p, stack, known, plans) ==
  /\ stack # <<>> /\ stack[1].end = Len(Replayed(r))
  /\ \A j, k \in DOMAIN stack : j < k => stack[k].end < stack[j].end
  /\ \A k \in DOMAIN stack :
       /\ Calling(r, stack[k], known)
       /\ k < Len(stack) \/ p = "antecedents" => Noting(r, stack[k], known, plans)
       /\ k = Len(stack) /\ p = "planning" => Fresh(stack[k])

Replays(r, p, stack, known, res, plans) ==
  /\ p \in Before => known = <<>>
  /\ Known(r, known, plans)
  /\ p \in Replaying => Stacked(r, p, stack, known, plans)
  /\ p \in Over \ {"interrupted"} => Told(known, Len(Replayed(r)), res.focus)

IsRequest(r, p, c, n, stack, known, res, plans) ==
  /\ Typed(r, p, c, n, stack, known, res, plans)
  /\ Unplanned(r, p, c, plans)
  /\ Written(p, n, LastPlan(r, plans))
  /\ c = None => Replays(r, p, stack, known, res, plans)

RequestGood(r) ==
  IsRequest(r, pc[r], own[r], writes[r], frames[r], memo[r], result[r], asked[r])

Inv ==
  /\ Shape
  /\ \A r \in Requests : Owned(r)
  /\ Tabled
  /\ \A c \in Requests : Logged(c)
  /\ \A r \in Requests : RequestGood(r)

----------------------------------------------------------------------------
(* Sequences and sets of numbers. *)

LEMMA LastOfFacts ==
    ASSUME NEW S, NEW s \in Seq(S), NEW n \in Nat
    PROVE  /\ LastOf(s, n) \in Seq(S)
           /\ Len(LastOf(s, n)) = IF Len(s) <= n THEN Len(s) ELSE n
           /\ \A i \in 1 .. Len(LastOf(s, n)) :
                LastOf(s, n)[i] = s[Len(s) - Len(LastOf(s, n)) + i]
<1>1. CASE Len(s) <= n
  BY <1>1 DEF LastOf
<1>2. CASE Len(s) > n
  <2>1. LastOf(s, n) = SubSeq(s, Len(s) - n + 1, Len(s))
    BY <1>2 DEF LastOf
  <2>2. Len(s) - n + 1 \in 1 .. Len(s) + 1 /\ Len(s) \in Nat
    BY <1>2
  <2> QED
    BY <1>2, <2>1, <2>2
<1> QED
  BY <1>1, <1>2

LEMMA RemoveAtFacts ==
    ASSUME NEW S, NEW s \in Seq(S), NEW i \in 1 .. Len(s)
    PROVE  /\ RemoveAt(s, i) \in Seq(S)
           /\ Len(RemoveAt(s, i)) = Len(s) - 1
           /\ \A k \in 1 .. Len(s) - 1 :
                RemoveAt(s, i)[k] = IF k < i THEN s[k] ELSE s[k + 1]
<1> DEFINE a == SubSeq(s, 1, i - 1)
           b == SubSeq(s, i + 1, Len(s))
<1>1. i \in Int /\ Len(s) \in Nat /\ \A k \in 1 .. Len(s) : s[k] \in S
  OBVIOUS
<1>2. a \in Seq(S) /\ Len(a) = i - 1 /\ \A k \in 1 .. i - 1 : a[k] = s[k]
  BY <1>1, SubSeqProperties
<1>3. b \in Seq(S) /\ Len(b) = Len(s) - i /\ \A k \in 1 .. Len(s) - i : b[k] = s[i + k]
  BY <1>1, SubSeqProperties
<1>4. RemoveAt(s, i) = a \o b
  BY DEF RemoveAt
<1> HIDE DEF a, b
<1>5. /\ a \o b \in Seq(S) /\ Len(a \o b) = Len(a) + Len(b)
      /\ \A k \in 1 .. Len(a) + Len(b) :
           (a \o b)[k] = IF k <= Len(a) THEN a[k] ELSE b[k - Len(a)]
  BY <1>2, <1>3, ConcatProperties
<1>6. ASSUME NEW k \in 1 .. Len(s) - 1
      PROVE  (a \o b)[k] = IF k < i THEN s[k] ELSE s[k + 1]
  <2>1. CASE k < i
    BY <1>1, <1>2, <1>3, <1>5, <2>1
  <2>2. CASE ~(k < i)
    <3>1. (a \o b)[k] = b[k - (i - 1)]
      BY <1>1, <1>2, <1>3, <1>5, <2>2
    <3>2. k - (i - 1) \in 1 .. Len(s) - i /\ i + (k - (i - 1)) = k + 1
      BY <1>1, <2>2
    <3> QED
      BY <1>1, <1>3, <2>2, <3>1, <3>2
  <2> QED
    BY <2>1, <2>2
<1> QED
  BY <1>1, <1>2, <1>3, <1>4, <1>5, <1>6

LEMMA FrontFacts ==
    ASSUME NEW S, NEW s \in Seq(S)
    PROVE  /\ Front(s) \in Seq(S)
           /\ Len(Front(s)) = IF s = <<>> THEN 0 ELSE Len(s) - 1
           /\ \A i \in 1 .. Len(s) - 1 : Front(s)[i] = s[i]
  BY DEF Front

LEMMA FrontLastFacts ==
    ASSUME NEW S, NEW s \in Seq(S), s # <<>>
    PROVE  /\ Len(s) \in Nat \ {0} /\ Last(s) = s[Len(s)] /\ Last(s) \in S
           /\ Front(s) \in Seq(S) /\ Len(Front(s)) = Len(s) - 1
           /\ \A i \in 1 .. Len(s) - 1 : Front(s)[i] = s[i]
           /\ Front(s) = <<>> <=> Len(s) = 1
<1>1. Len(s) \in Nat \ {0} /\ \A i \in 1 .. Len(s) : s[i] \in S
  BY EmptySeq
<1>2. /\ Front(s) \in Seq(S) /\ Len(Front(s)) = Len(s) - 1
      /\ \A i \in 1 .. Len(s) - 1 : Front(s)[i] = s[i]
  BY FrontFacts
<1>3. Front(s) = <<>> <=> Len(Front(s)) = 0
  BY <1>2, EmptySeq
<1> QED
  BY <1>1, <1>2, <1>3 DEF Last

LEMMA MinFacts ==
    ASSUME NEW T, T \subseteq Nat, T # {}
    PROVE  Min(T) \in T /\ \A y \in T : Min(T) <= y
<1>1. PICK x \in T : \A y \in T : ~(<<y, x>> \in OpToRel(<, Nat))
  BY NatLessThanWellFounded, WFMin
<1>2. ASSUME NEW y \in T PROVE ~(y < x)
  <2>1. SUFFICES ASSUME y < x PROVE <<y, x>> \in OpToRel(<, Nat)
    BY <1>1
  <2>2. <<y, x>> \in Nat \X Nat /\ <<y, x>>[1] = y /\ <<y, x>>[2] = x
    OBVIOUS
  <2> QED
    BY <2>1, <2>2 DEF OpToRel
<1>3. \E z \in T : \A y \in T : z <= y
  BY <1>2
<1> QED
  BY <1>3 DEF Min

----------------------------------------------------------------------------
(* A step of request r: what it leaves r with, pointwise. *)

Moves(r, p, c, n, stack, known, res, plans) ==
  /\ DOMAIN pc' = Requests /\ DOMAIN own' = Requests /\ DOMAIN writes' = Requests
  /\ DOMAIN frames' = Requests /\ DOMAIN memo' = Requests /\ DOMAIN result' = Requests
  /\ DOMAIN asked' = Requests
  /\ \A o \in Requests \ {r} :
       /\ pc'[o] = pc[o] /\ own'[o] = own[o] /\ writes'[o] = writes[o]
       /\ frames'[o] = frames[o] /\ memo'[o] = memo[o] /\ result'[o] = result[o]
       /\ asked'[o] = asked[o]
  /\ pc'[r] = p /\ own'[r] = c /\ writes'[r] = n /\ frames'[r] = stack
  /\ memo'[r] = known /\ result'[r] = res /\ asked'[r] = plans

LEMMA OfRequests ==
    ASSUME \A r \in Requests : RequestGood(r), NEW r \in Requests,
           NEW p, NEW c, NEW n, NEW stack, NEW known, NEW res, NEW plans,
           Moves(r, p, c, n, stack, known, res, plans),
           IsRequest(r, p, c, n, stack, known, res, plans)
    PROVE  \A o \in Requests : RequestGood(o)'
<1> TAKE o \in Requests
<1>1. CASE o = r
  BY <1>1 DEF RequestGood, Moves
<1>2. CASE o # r
  <2>1. RequestGood(o)
    OBVIOUS
  <2> QED
    BY <1>2, <2>1 DEF RequestGood, Moves
<1> QED
  BY <1>1, <1>2

(* The step leaves the table and the logs alone, and does not end the use  *)
(* of a conversation.                                                      *)
SameConversations ==
  /\ states' = states /\ log' = log /\ DOMAIN conv' = Requests
  /\ \A c \in Requests : /\ DOMAIN conv'[c] = Fields /\ conv'[c].key = conv[c].key
                         /\ conv'[c].users = conv[c].users /\ conv'[c].turns = conv[c].turns

Stays(r) ==
  /\ SameConversations
  /\ \A o \in Requests : own'[o] = own[o]
  /\ \A o \in Requests \ {r} : pc'[o] = pc[o] /\ asked'[o] = asked[o]
  /\ pc'[r] \notin Before \cup {"waiting"}
  /\ IF own[r] # None
     THEN /\ pc'[r] # "antecedents" /\ asked'[r] = asked[r]
          /\ pc[r] \in Using <=> pc'[r] \in Using
          /\ pc[r] \in Over => pc'[r] \in Over
     ELSE TRUE

LEMMA StaysTurn ==
    ASSUME NEW r \in Requests, Stays(r), NEW c \in Requests, NEW o \in Requests,
           NEW focus, NEW foci, NEW i, TurnOf(c, o, focus, foci, i)
    PROVE  /\ own'[o] = c /\ pc'[o] \in Over
           /\ focus = Meaning(Last(Sent[o]), LastPlan(o, asked'[o]), foci, i)
<1>1. own[o] = c /\ pc[o] \in Over /\ own[o] # None /\ own'[o] = own[o]
  BY BoundsAssumption DEF TurnOf, Stays
<1>2. pc'[o] \in Over /\ asked'[o] = asked[o]
  <2>1. CASE o = r
    BY <1>1, <2>1 DEF Stays
  <2>2. CASE o # r
    BY <1>1, <2>2 DEF Stays
  <2> QED
    BY <2>1, <2>2
<1> QED
  BY <1>1, <1>2 DEF TurnOf

LEMMA StaysFacts ==
    ASSUME Inv, NEW r \in Requests, Stays(r)
    PROVE  /\ states' \in Seq(Requests) /\ DOMAIN conv' = Requests /\ DOMAIN log' = Requests
           /\ \A o \in Requests : Owned(o)'
           /\ Tabled'
           /\ \A c \in Requests : Logged(c)'
<1>1. None \notin Requests
  BY BoundsAssumption
<1>2. states' \in Seq(Requests) /\ DOMAIN conv' = Requests /\ DOMAIN log' = Requests
  BY DEF Inv, Shape, Stays, SameConversations
<1>3. \A o \in Requests : Owned(o)'
  <2> TAKE o \in Requests
  <2>1. Owned(o)
    BY DEF Inv
  <2>2. own[o] # None => own[o] \in Requests
    BY DEF Inv, RequestGood, IsRequest, Typed
  <2>3. CASE o = r
    BY <2>1, <2>2, <2>3 DEF Owned, Stays, SameConversations
  <2>4. CASE o # r
    BY <2>1, <2>2, <2>4 DEF Owned, Stays, SameConversations
  <2> QED
    BY <2>3, <2>4
<1>4. Tabled'
  <2>1. \A i \in DOMAIN states : states[i] \in Requests
    BY DEF Inv, Shape
  <2>2. \A o \in Requests : own[o] # None => (pc'[o] \in Using <=> pc[o] \in Using)
    BY DEF Stays
  <2>3. \A c \in Requests : UsersOf(c)' = UsersOf(c)
    BY <1>1, <2>2 DEF UsersOf, Stays
  <2>4. Tabled
    BY DEF Inv
  <2>5. Len(states') <= Maximum
    BY <2>4 DEF Tabled, Stays, SameConversations
  <2>6. \A i, j \in DOMAIN states' :
          conv'[states'[i]].key = conv'[states'[j]].key => i = j
    BY <2>1, <2>4 DEF Tabled, Stays, SameConversations
  <2>7. \A o \in Requests : own'[o] # None /\ pc'[o] \in Using =>
          \E i \in DOMAIN states' : states'[i] = own'[o]
    BY <2>2, <2>4 DEF Tabled, Stays, SameConversations
  <2>8. \A c \in Requests : conv'[c].users = Cardinality(UsersOf(c)')
    BY <2>3, <2>4 DEF Tabled, Stays, SameConversations
  <2> QED
    BY <2>5, <2>6, <2>7, <2>8 DEF Tabled
<1>5. \A c \in Requests : Logged(c)'
  <2> TAKE c \in Requests
  <2>1. Logged(c)
    BY DEF Inv
  <2>2. IsConversation(conv[c])' /\ log'[c] = log[c] /\ conv'[c].turns = conv[c].turns
    BY <2>1 DEF Logged, IsConversation, Stays, SameConversations
  <2>3. ASSUME NEW i \in DOMAIN log[c]
        PROVE  TurnOf(c, log[c][i].by, log[c][i].focus, FociOf(log[c]), i)'
    <3>1. TurnOf(c, log[c][i].by, log[c][i].focus, FociOf(log[c]), i)
      BY <2>1 DEF Logged
    <3>2. log[c][i].by \in Requests
      <4>1. log[c] \in Seq(Turns) /\ i \in 1 .. Len(log[c])
        BY <2>1 DEF Logged
      <4>2. log[c][i] \in Turns
        BY <4>1, ElementOfSeq
      <4> QED
        BY <4>2 DEF Turns
    <3> QED
      <4>1. log'[c] = log[c] /\ FociOf(log'[c]) = FociOf(log[c])
        BY <2>2
      <4> QED
        BY <3>1, <3>2, <4>1, StaysTurn DEF TurnOf
  <2> QED
    BY <2>1, <2>2, <2>3 DEF Logged
<1> QED
  BY <1>2, <1>3, <1>4, <1>5

----------------------------------------------------------------------------
(* What an answer means depends on the turns referred to alone. *)

LEMMA MeaningSame ==
    ASSUME NEW u, NEW plan, NEW foci, NEW others, NEW i,
           \A o \in plan.offsets : o < i => foci[i - o] = others[i - o]
    PROVE  Meaning(u, plan, foci, i) = Meaning(u, plan, others, i)
<1>1. CASE \A o \in plan.offsets : o < i
  <2>1. \A o \in plan.offsets : foci[i - o] = others[i - o]
    BY <1>1
  <2>2. {foci[i - o] : o \in plan.offsets} = {others[i - o] : o \in plan.offsets}
    BY <2>1
  <2>3. (\A o \in plan.offsets : o < i /\ foci[i - o] # {})
          <=> \A o \in plan.offsets : o < i /\ others[i - o] # {}
    BY <2>1
  <2> QED
    BY <2>2, <2>3 DEF Meaning
<1>2. CASE ~ \A o \in plan.offsets : o < i
  BY <1>2 DEF Meaning
<1> QED
  BY <1>1, <1>2

LEMMA AnsweredMeans ==
    ASSUME NEW u, NEW plan, NEW turns, NEW foci, NEW i,
           \A o \in plan.offsets : o <= Len(turns) <=> o < i,
           \A o \in plan.offsets : o < i => Antecedent(turns, o) = foci[i - o]
    PROVE  /\ Answered(u, plan, turns).focus = Meaning(u, plan, foci, i)
           /\ Answered(u, plan, turns).kind = plan.kind
<1>1. Answered(u, plan, turns).kind = plan.kind
  BY DEF Answered
<1>2. (\A o \in plan.offsets : o <= Len(turns) /\ Antecedent(turns, o) # {})
        <=> \A o \in plan.offsets : o < i /\ foci[i - o] # {}
  OBVIOUS
<1>3. CASE \A o \in plan.offsets : o < i
  <2>1. \A o \in plan.offsets : Antecedent(turns, o) = foci[i - o]
    BY <1>3
  <2>2. {Antecedent(turns, o) : o \in plan.offsets} = {foci[i - o] : o \in plan.offsets}
    BY <2>1
  <2> QED
    BY <1>1, <1>2, <2>2 DEF Answered, Meaning
<1>4. CASE ~ \A o \in plan.offsets : o < i
  BY <1>1, <1>2, <1>4 DEF Answered, Meaning
<1> QED
  BY <1>1, <1>3, <1>4

(* A conversation that remembers its log answers as its log means. *)
LEMMA RememberedMeans ==
    ASSUME NEW u, NEW plan \in Plans, NEW turns \in Seq(Foci), NEW l \in Seq(Turns),
           Remembers(turns, l)
    PROVE  Answered(u, plan, turns).focus = Meaning(u, plan, FociOf(l), Len(l) + 1)
<1> SUFFICES ASSUME NEW i, i = Len(l) + 1, NEW foci, foci = FociOf(l)
             PROVE  Answered(u, plan, turns).focus = Meaning(u, plan, foci, i)
  OBVIOUS
<1>1. MaxTurns \in Nat \ {0} /\ plan.offsets \subseteq 1 .. MaxTurns
  BY BoundsAssumption DEF Plans
<1>2. Len(turns) \in Nat /\ Len(l) \in Nat /\ DOMAIN l = 1 .. Len(l)
  OBVIOUS
<1>3. ASSUME NEW o \in plan.offsets
      PROVE  o <= Len(turns) <=> o < i
  <2>1. o \in 1 .. MaxTurns
    BY <1>1
  <2> QED
    BY <1>1, <1>2, <2>1 DEF Remembers
<1>4. ASSUME NEW o \in plan.offsets, o < i
      PROVE  Antecedent(turns, o) = foci[i - o]
  <2>1. o \in 1 .. Len(turns) /\ i - o \in 1 .. Len(l)
    BY <1>1, <1>2, <1>3, <1>4
  <2>2. turns[Len(turns) + 1 - o] = l[Len(l) + 1 - o].focus
    BY <2>1 DEF Remembers
  <2> QED
    BY <1>2, <2>1, <2>2 DEF Antecedent, FociOf
<1> QED
  BY <1>3, <1>4, AnsweredMeans

LEMMA RecordedRemembers ==
    ASSUME NEW turns \in Seq(Foci), NEW l \in Seq(Turns), Remembers(turns, l),
           NEW r \in Requests, NEW focus \in Foci
    PROVE  /\ LastOf(Append(turns, focus), MaxTurns) \in Seq(Foci)
           /\ Append(l, [by |-> r, focus |-> focus]) \in Seq(Turns)
           /\ Remembers(LastOf(Append(turns, focus), MaxTurns),
                        Append(l, [by |-> r, focus |-> focus]))
<1> SUFFICES ASSUME NEW s, s = Append(turns, focus), NEW t, t = LastOf(s, MaxTurns),
                    NEW m, m = Append(l, [by |-> r, focus |-> focus])
             PROVE  t \in Seq(Foci) /\ m \in Seq(Turns) /\ Remembers(t, m)
  OBVIOUS
<1>1. MaxTurns \in Nat \ {0} /\ Len(turns) \in Nat /\ Len(l) \in Nat
  BY BoundsAssumption
<1>2. s \in Seq(Foci) /\ Len(s) = Len(turns) + 1 /\ s[Len(turns) + 1] = focus
      /\ \A i \in 1 .. Len(turns) : s[i] = turns[i]
  OBVIOUS
<1>3. [by |-> r, focus |-> focus] \in Turns
  BY DEF Turns
<1>4. m \in Seq(Turns) /\ Len(m) = Len(l) + 1 /\ m[Len(l) + 1].focus = focus
      /\ \A i \in 1 .. Len(l) : m[i] = l[i]
  BY <1>3
<1>5. /\ t \in Seq(Foci)
      /\ Len(t) = IF Len(s) <= MaxTurns THEN Len(s) ELSE MaxTurns
      /\ \A i \in 1 .. Len(t) : t[i] = s[Len(s) - Len(t) + i]
  <2>1. MaxTurns \in Nat /\ s \in Seq(Foci)
    BY <1>1, <1>2
  <2> QED
    BY <2>1, LastOfFacts
<1>6. Len(turns) = IF Len(l) <= MaxTurns THEN Len(l) ELSE MaxTurns
  BY DEF Remembers
<1>7. Len(t) = IF Len(m) <= MaxTurns THEN Len(m) ELSE MaxTurns
  BY <1>1, <1>2, <1>4, <1>5, <1>6
<1>8. ASSUME NEW o \in 1 .. Len(t)
      PROVE  t[Len(t) + 1 - o] = m[Len(m) + 1 - o].focus
  <2>1. Len(t) + 1 - o \in 1 .. Len(t) /\ o \in Nat \ {0} /\ o <= Len(turns) + 1
    BY <1>1, <1>2, <1>5
  <2>2. t[Len(t) + 1 - o] = s[Len(s) + 1 - o]
    <3>1. Len(s) - Len(t) + (Len(t) + 1 - o) = Len(s) + 1 - o
      <4>1. Len(s) \in Nat /\ Len(t) \in Nat /\ o \in Nat
        BY <1>2, <1>5, <2>1
      <4> QED
        BY <4>1
    <3> QED
      BY <1>5, <2>1, <3>1
  <2>3. CASE o = 1
    BY <1>1, <1>2, <1>4, <2>2, <2>3
  <2>4. CASE o # 1
    <3>1. o - 1 \in 1 .. Len(turns)
      BY <1>1, <2>1, <2>4
    <3>2. turns[Len(turns) + 1 - (o - 1)] = l[Len(l) + 1 - (o - 1)].focus
      BY <3>1 DEF Remembers
    <3>3. Len(s) + 1 - o = Len(turns) + 1 - (o - 1) /\ Len(m) + 1 - o = Len(l) + 1 - (o - 1)
      BY <1>1, <1>2, <1>4, <2>1
    <3>4. Len(s) + 1 - o \in 1 .. Len(turns) /\ Len(m) + 1 - o \in 1 .. Len(l)
      BY <1>1, <1>6, <3>1, <3>3
    <3> QED
      BY <1>2, <1>4, <2>2, <3>2, <3>3, <3>4
  <2> QED
    BY <2>3, <2>4
<1> QED
  BY <1>4, <1>5, <1>7, <1>8 DEF Remembers

----------------------------------------------------------------------------
(* Entering and leaving a conversation. *)

UserOf(r, c) == own[r] = c /\ pc[r] \in Using

LEMMA UsersAreInTable ==
    ASSUME Inv, NEW r \in Requests, NEW c \in Requests, UserOf(r, c)
    PROVE  conv[c].users \in Nat \ {0} /\ \E i \in DOMAIN states : states[i] = c
<1>1. conv[c].users = Cardinality(UsersOf(c)) /\ None \notin Requests
  BY BoundsAssumption DEF Inv, Tabled
<1>2. IsFiniteSet(UsersOf(c)) /\ r \in UsersOf(c)
  BY BoundsAssumption, FS_Subset DEF UsersOf, UserOf
<1>3. Cardinality(UsersOf(c)) \in Nat \ {0}
  BY <1>2, FS_EmptySet, FS_CardinalityType
<1> QED
  BY <1>1, <1>3 DEF Inv, Tabled, UserOf

(* A using request leaves its conversation, with or without its turn. *)
Leaves(r) ==
  /\ own[r] # None /\ pc[r] \in Using /\ pc'[r] \in Over
  /\ states' = states /\ \A o \in Requests : own'[o] = own[o]
  /\ \A o \in Requests \ {r} : pc'[o] = pc[o] /\ asked'[o] = asked[o]
  /\ DOMAIN conv' = Requests
  /\ \A c \in Requests : DOMAIN conv'[c] = Fields /\ conv'[c].key = conv[c].key
  /\ \A c \in Requests \ {own[r]} : conv'[c].users = conv[c].users
  /\ conv'[own[r]].users = conv[own[r]].users - 1
  /\ DOMAIN log' = Requests
  /\ \A c \in Requests \ {own[r]} : log'[c] = log[c] /\ conv'[c].turns = conv[c].turns

LEMMA LeavesFacts ==
    ASSUME Inv, NEW r \in Requests, Leaves(r)
    PROVE  /\ states' \in Seq(Requests)
           /\ \A o \in Requests : Owned(o)'
           /\ Tabled'
           /\ conv'[own[r]].users \in Nat
<1>1. None \notin Requests /\ own[r] \in Requests /\ UserOf(r, own[r])
  BY BoundsAssumption DEF Leaves, UserOf, Inv, RequestGood, IsRequest, Typed
<1>2. states' \in Seq(Requests)
  BY DEF Inv, Shape, Leaves
<1>3. \A o \in Requests : Owned(o)'
  <2> TAKE o \in Requests
  <2>1. Owned(o)
    BY DEF Inv
  <2>2. own[o] # None => own[o] \in Requests
    BY DEF Inv, RequestGood, IsRequest, Typed
  <2>3. CASE o = r
    BY <1>1, <2>1, <2>2, <2>3 DEF Owned, Leaves, Over, Before
  <2>4. CASE o # r
    <3>1. pc'[o] = pc[o] /\ own'[o] = own[o] /\ states' = states
      BY <2>4 DEF Leaves
    <3>2. pc[o] \in Before => o # own[r]
      BY <2>1 DEF Owned
    <3> QED
      BY <2>1, <2>2, <3>1, <3>2 DEF Owned, Leaves
  <2> QED
    BY <2>3, <2>4
<1>4. conv[own[r]].users \in Nat \ {0}
  BY <1>1, UsersAreInTable
<1>5. ASSUME NEW c \in Requests PROVE conv'[c].users = Cardinality(UsersOf(c)')
  <2>1. conv[c].users = Cardinality(UsersOf(c))
    BY DEF Inv, Tabled
  <2>2. CASE c # own[r]
    <3>1. UsersOf(c)' = UsersOf(c)
      BY <2>2 DEF UsersOf, Leaves
    <3> QED
      BY <2>1, <2>2, <3>1 DEF Leaves
  <2>3. CASE c = own[r]
    <3>1. UsersOf(c)' = UsersOf(c) \ {r}
      BY <2>3 DEF UsersOf, Leaves, Over, Using
    <3>2. IsFiniteSet(UsersOf(c)) /\ r \in UsersOf(c)
      BY <2>3, BoundsAssumption, FS_Subset DEF UsersOf, Leaves
    <3>3. Cardinality(UsersOf(c) \ {r}) = Cardinality(UsersOf(c)) - 1
      BY <3>2, FS_RemoveElement
    <3> QED
      BY <2>1, <2>3, <3>1, <3>3 DEF Leaves
  <2> QED
    BY <2>2, <2>3
<1>6. Tabled'
  <2>1. \A i \in DOMAIN states : states[i] \in Requests
    BY DEF Inv, Shape
  <2>2. Len(states') <= Maximum
    BY DEF Inv, Tabled, Leaves
  <2>3. \A i, j \in DOMAIN states' :
          conv'[states'[i]].key = conv'[states'[j]].key => i = j
    BY <2>1 DEF Inv, Tabled, Leaves
  <2>4. ASSUME NEW o \in Requests, own'[o] # None, pc'[o] \in Using
        PROVE  \E i \in DOMAIN states' : states'[i] = own'[o]
    <3>1. own[o] # None /\ pc[o] \in Using
      BY <2>4 DEF Leaves
    <3> QED
      BY <3>1 DEF Inv, Tabled, Leaves
  <2> QED
    BY <1>5, <2>2, <2>3, <2>4 DEF Tabled
<1> QED
  BY <1>2, <1>3, <1>4, <1>6 DEF Leaves

(* A longer log does not change what an earlier turn means. *)
LEMMA MeaningInLonger ==
    ASSUME NEW l \in Seq(Turns), NEW turn \in Turns, NEW i \in 1 .. Len(l) + 1,
           NEW u, NEW plan \in Plans
    PROVE  Meaning(u, plan, FociOf(Append(l, turn)), i) = Meaning(u, plan, FociOf(l), i)
<1>1. plan.offsets \subseteq Nat \ {0} /\ Len(l) \in Nat /\ DOMAIN l = 1 .. Len(l)
  BY BoundsAssumption DEF Plans
<1> SUFFICES ASSUME NEW m, m = Append(l, turn), NEW foci, foci = FociOf(l),
                    NEW others, others = FociOf(m)
             PROVE  Meaning(u, plan, others, i) = Meaning(u, plan, foci, i)
  OBVIOUS
<1>2. m \in Seq(Turns) /\ DOMAIN m = 1 .. Len(l) + 1 /\ \A k \in 1 .. Len(l) : m[k] = l[k]
  OBVIOUS
<1>3. \A o \in plan.offsets : o < i => others[i - o] = foci[i - o]
  <2> SUFFICES ASSUME NEW o \in plan.offsets, o < i PROVE others[i - o] = foci[i - o]
    OBVIOUS
  <2>1. i - o \in 1 .. Len(l) /\ i - o \in 1 .. Len(l) + 1
    BY <1>1
  <2> QED
    BY <1>1, <1>2, <2>1 DEF FociOf
<1> QED
  BY <1>3, MeaningSame

LEMMA TypesOfLog ==
    ASSUME Inv, NEW c \in Requests
    PROVE  /\ log[c] \in Seq(Turns) /\ conv[c].turns \in Seq(Foci) /\ DOMAIN conv[c] = Fields
           /\ conv[c].users \in Nat
           /\ \A i \in DOMAIN log[c] : log[c][i] \in Turns /\ log[c][i].by \in Requests
<1>1. Logged(c)
  BY DEF Inv
<1>2. /\ log[c] \in Seq(Turns) /\ conv[c].turns \in Seq(Foci) /\ DOMAIN conv[c] = Fields
      /\ conv[c].users \in Nat
  BY <1>1 DEF Logged, IsConversation
<1>3. \A i \in DOMAIN log[c] : log[c][i] \in Turns
  BY <1>2, ElementOfSeq
<1> QED
  BY <1>2, <1>3 DEF Turns

(* Turns that are logged are over: nobody else's step concerns them. *)
LEMMA OldTurn ==
    ASSUME Inv, NEW r \in Requests, pc[r] \notin Over,
           \A o \in Requests \ {r} : own'[o] = own[o] /\ pc'[o] = pc[o] /\ asked'[o] = asked[o],
           NEW c \in Requests, NEW i \in DOMAIN log[c], NEW o, o = log[c][i].by
    PROVE  /\ own'[o] = c /\ pc'[o] \in Over
           /\ LastPlan(o, asked'[o]) \in Plans
           /\ log[c][i].focus =
                Meaning(Last(Sent[o]), LastPlan(o, asked'[o]), FociOf(log[c]), i)
<1>1. TurnOf(c, o, log[c][i].focus, FociOf(log[c]), i) /\ o \in Requests
  BY TypesOfLog DEF Inv, Logged
<1>2. o # r
  BY <1>1 DEF TurnOf
<1>3. own'[o] = own[o] /\ pc'[o] = pc[o] /\ asked'[o] = asked[o]
  BY <1>1, <1>2
<1>4. LastPlan(o, asked[o]) \in Plans
  <2>1. DOMAIN asked[o] = DOMAIN Sent[o] /\ \A k \in DOMAIN asked[o] : asked[o][k] \in Plans
    BY <1>1 DEF Inv, RequestGood, IsRequest, Typed
  <2>2. Len(Sent[o]) \in DOMAIN Sent[o]
    BY <1>1, BoundsAssumption, EmptySeq
  <2> QED
    BY <2>1, <2>2 DEF LastPlan
<1> QED
  BY <1>1, <1>3, <1>4 DEF TurnOf

LEMMA SameLogged ==
    ASSUME Inv, NEW r \in Requests, pc[r] \notin Over,
           \A o \in Requests \ {r} : own'[o] = own[o] /\ pc'[o] = pc[o] /\ asked'[o] = asked[o],
           NEW c \in Requests, log'[c] = log[c], IsConversation(conv'[c]),
           conv'[c].turns = conv[c].turns
    PROVE  Logged(c)'
<1>1. log[c] \in Seq(Turns)
  BY TypesOfLog
<1>2. Remembers(conv[c].turns, log[c])
  BY DEF Inv, Logged
<1>3. ASSUME NEW i \in DOMAIN log'[c]
      PROVE  TurnOf(c, log[c][i].by, log[c][i].focus, FociOf(log[c]), i)'
  <2>1. i \in DOMAIN log[c]
    BY <1>3
  <2>2. PICK o : o = log[c][i].by
    OBVIOUS
  <2>3. /\ own'[o] = c /\ pc'[o] \in Over
        /\ log[c][i].focus = Meaning(Last(Sent[o]), LastPlan(o, asked'[o]), FociOf(log[c]), i)
    BY <2>1, <2>2, OldTurn
  <2> QED
    BY <2>2, <2>3 DEF TurnOf, FociOf
<1> QED
  BY <1>1, <1>2, <1>3 DEF Logged

(* A turn that is recorded with what it means. *)
LEMMA RecordedLogged ==
    ASSUME Inv, NEW r \in Requests, Leaves(r), NEW c \in Requests, c = own[r],
           NEW focus \in Foci, LastPlan(r, asked'[r]) \in Plans,
           log'[c] = Append(log[c], [by |-> r, focus |-> focus]),
           conv'[c].turns = LastOf(Append(conv[c].turns, focus), MaxTurns),
           IsConversation(conv'[c]),
           focus = Meaning(Last(Sent[r]), LastPlan(r, asked'[r]), FociOf(log[c]),
                           Len(log[c]) + 1)
    PROVE  Logged(c)'
<1>1. /\ log[c] \in Seq(Turns) /\ conv[c].turns \in Seq(Foci)
      /\ \A i \in DOMAIN log[c] : log[c][i] \in Turns /\ log[c][i].by \in Requests
  BY TypesOfLog
<1>2. Remembers(conv[c].turns, log[c])
  BY DEF Inv, Logged
<1>3. log'[c] \in Seq(Turns) /\ Remembers(conv'[c].turns, log'[c])
  BY <1>1, <1>2, RecordedRemembers
<1>4. PICK turn : turn = [by |-> r, focus |-> focus]
  OBVIOUS
<1>5. turn \in Turns /\ turn.by = r /\ turn.focus = focus
  BY <1>4 DEF Turns
<1>6. PICK n \in Nat : n = Len(log[c])
  BY <1>1
<1>7. /\ DOMAIN log[c] = 1 .. n /\ DOMAIN log'[c] = 1 .. n + 1
      /\ log'[c] = Append(log[c], turn)
      /\ log'[c][n + 1] = turn /\ \A i \in 1 .. n : log'[c][i] = log[c][i]
  BY <1>1, <1>4, <1>5, <1>6
<1>8. pc[r] \notin Over /\ pc'[r] \in Over /\ own'[r] = c
      /\ \A o \in Requests \ {r} :
           own'[o] = own[o] /\ pc'[o] = pc[o] /\ asked'[o] = asked[o]
  BY DEF Leaves, Over, Using
<1>9. ASSUME NEW i \in 1 .. n
      PROVE  TurnOf(c, log[c][i].by, log[c][i].focus, FociOf(log[c]), i)'
  <2>1. i \in DOMAIN log[c] /\ i \in 1 .. Len(log[c]) + 1 /\ log'[c][i] = log[c][i]
    BY <1>6, <1>7
  <2>2. PICK o : o = log[c][i].by
    OBVIOUS
  <2>3. /\ own'[o] = c /\ pc'[o] \in Over /\ LastPlan(o, asked'[o]) \in Plans
        /\ log[c][i].focus = Meaning(Last(Sent[o]), LastPlan(o, asked'[o]), FociOf(log[c]), i)
    BY <1>8, <2>1, <2>2, OldTurn
  <2>4. Meaning(Last(Sent[o]), LastPlan(o, asked'[o]), FociOf(log'[c]), i)
          = Meaning(Last(Sent[o]), LastPlan(o, asked'[o]), FociOf(log[c]), i)
    BY <1>1, <1>5, <1>7, <2>1, <2>3, MeaningInLonger
  <2> QED
    BY <2>1, <2>2, <2>3, <2>4 DEF TurnOf
<1>10. TurnOf(c, log[c][n + 1].by, log[c][n + 1].focus, FociOf(log[c]), n + 1)'
  <2>1. n + 1 \in 1 .. Len(log[c]) + 1
    BY <1>6
  <2>2. Meaning(Last(Sent[r]), LastPlan(r, asked'[r]), FociOf(log'[c]), n + 1)
          = Meaning(Last(Sent[r]), LastPlan(r, asked'[r]), FociOf(log[c]), n + 1)
    BY <1>1, <1>5, <1>7, <2>1, MeaningInLonger
  <2> QED
    BY <1>5, <1>6, <1>7, <1>8, <2>2 DEF TurnOf
<1>11. \A i \in DOMAIN log'[c] : TurnOf(c, log[c][i].by, log[c][i].focus, FociOf(log[c]), i)'
  <2> TAKE i \in DOMAIN log'[c]
  <2>1. i \in 1 .. n \/ i = n + 1
    BY <1>7
  <2> QED
    BY <1>9, <1>10, <2>1
<1> QED
  BY <1>3, <1>11 DEF Logged

----------------------------------------------------------------------------
LEMMA EnterFacts ==
    ASSUME Inv, NEW r \in Requests, NEW c \in Requests, NEW table \in Seq(Requests),
           pc[r] = "new", KeyOf[r] # None, Enter(r, c, table),
           \A o \in Requests : asked'[o] = asked[o],
           Len(table) < Maximum,
           \A i \in DOMAIN table : \E j \in DOMAIN states : table[i] = states[j],
           \A i, j \in DOMAIN table : conv[table[i]].key = conv[table[j]].key => i = j,
           \A i \in DOMAIN table : table[i] # c /\ conv[table[i]].key # KeyOf[r],
           \A i \in DOMAIN states : conv[states[i]].users # 0 /\ states[i] # c =>
             \E j \in DOMAIN table : table[j] = states[i],
           c = r \/ \E i \in DOMAIN states : states[i] = c /\ conv[c].key = KeyOf[r]
    PROVE  /\ states' \in Seq(Requests) /\ DOMAIN conv' = Requests /\ log' = log
           /\ \A o \in Requests : Owned(o)'
           /\ Tabled'
           /\ \A d \in Requests : Logged(d)'
<1>1. None \notin Requests /\ DOMAIN pc = Requests /\ DOMAIN own = Requests
      /\ DOMAIN conv = Requests
  BY BoundsAssumption DEF Inv, Shape
<1>2. own[r] = None /\ Owned(r) /\ c # None
  BY <1>1 DEF Inv, Owned, Before
<1>3. /\ pc'[r] = "waiting" /\ own'[r] = c
      /\ \A o \in Requests \ {r} : pc'[o] = pc[o] /\ own'[o] = own[o]
      /\ log' = log /\ states' = Append(table, c)
  BY <1>1 DEF Enter
<1>4. DOMAIN conv[c] = Fields /\ conv[c].users \in Nat
  BY TypesOfLog
<1>5. /\ DOMAIN conv' = Requests /\ DOMAIN conv'[c] = Fields
      /\ conv'[c].key = KeyOf[r] /\ conv'[c].users = conv[c].users + 1
      /\ conv'[c].turns = conv[c].turns
      /\ \A d \in Requests \ {c} : conv'[d] = conv[d]
  BY <1>1, <1>4 DEF Enter, Fields
<1>6. /\ states' \in Seq(Requests) /\ Len(states') = Len(table) + 1 /\ Len(table) \in Nat
      /\ DOMAIN states' = 1 .. Len(table) + 1 /\ DOMAIN table = 1 .. Len(table)
      /\ states'[Len(table) + 1] = c /\ \A i \in DOMAIN table : states'[i] = table[i]
  BY <1>3
<1>7. \A i \in DOMAIN table : table[i] \in Requests /\ table[i] # c
  OBVIOUS
<1>8. ASSUME NEW o \in Requests PROVE Owned(o)'
  <2>1. Owned(o)
    BY DEF Inv
  <2>2. CASE o = r
    BY <1>1, <1>2, <1>3, <1>5, <2>2 DEF Owned, Before
  <2>3. CASE o # r
    <3>1. pc'[o] = pc[o] /\ own'[o] = own[o] /\ log'[o] = log[o]
      BY <1>3, <2>3
    <3>2. ASSUME pc[o] \in Before
          PROVE  /\ \A x \in Requests : own'[x] # o
                 /\ \A i \in DOMAIN states' : states'[i] # o
      <4>1. c # o
        BY <2>1, <2>3, <3>2 DEF Owned
      <4>2. \A i \in DOMAIN table : table[i] # o
        BY <2>1, <3>2 DEF Owned
      <4>3. \A x \in Requests : own'[x] # o
        BY <1>3, <2>1, <3>2, <4>1 DEF Owned
      <4> QED
        BY <1>6, <4>1, <4>2, <4>3
    <3>3. ASSUME own[o] # None PROVE KeyOf[o] # None /\ conv'[own[o]].key = KeyOf[o]
      <4>1. own[o] \in Requests /\ KeyOf[o] # None /\ conv[own[o]].key = KeyOf[o]
        BY <2>1, <3>3 DEF Owned, Inv, RequestGood, IsRequest, Typed
      <4>2. CASE own[o] = c
        <5>1. c # r
          BY <1>2, <4>2 DEF Owned, Before
        <5> QED
          BY <1>5, <4>1, <4>2, <5>1
      <4>3. CASE own[o] # c
        BY <1>5, <4>1, <4>3
      <4> QED
        BY <4>2, <4>3
    <3> QED
      BY <2>1, <3>1, <3>2, <3>3 DEF Owned
  <2> QED
    BY <2>2, <2>3
<1>9. Tabled'
  <2>1. Len(states') <= Maximum
    BY <1>6, BoundsAssumption
  <2>2. \A i, j \in DOMAIN states' :
          conv'[states'[i]].key = conv'[states'[j]].key => i = j
    <3>1. \A i \in DOMAIN table : conv'[states'[i]].key = conv[table[i]].key
      BY <1>5, <1>6, <1>7
    <3>2. \A i \in DOMAIN table : conv'[states'[i]].key # KeyOf[r]
      BY <3>1
    <3>3. conv'[states'[Len(table) + 1]].key = KeyOf[r]
      BY <1>5, <1>6
    <3>4. \A i \in DOMAIN states' : i \in DOMAIN table \/ i = Len(table) + 1
      BY <1>6
    <3> QED
      BY <3>1, <3>2, <3>3, <3>4
  <2>3. ASSUME NEW o \in Requests, own'[o] # None, pc'[o] \in Using
        PROVE  \E i \in DOMAIN states' : states'[i] = own'[o]
    <3>1. CASE own'[o] = c
      BY <1>6, <3>1
    <3>2. CASE own'[o] # c
      <4>1. o # r /\ own[o] # None /\ pc[o] \in Using /\ own'[o] = own[o]
        BY <1>3, <2>3, <3>2
      <4>2. own[o] \in Requests
        BY <4>1 DEF Inv, RequestGood, IsRequest, Typed
      <4>3. conv[own[o]].users # 0 /\ \E i \in DOMAIN states : states[i] = own[o]
        BY <4>1, <4>2, UsersAreInTable DEF UserOf
      <4>4. \E j \in DOMAIN table : table[j] = own[o]
        BY <3>2, <4>1, <4>3
      <4> QED
        BY <1>6, <4>1, <4>4
    <3> QED
      BY <3>1, <3>2
  <2>4. ASSUME NEW d \in Requests PROVE conv'[d].users = Cardinality(UsersOf(d)')
    <3>1. conv[d].users = Cardinality(UsersOf(d))
      BY DEF Inv, Tabled
    <3>2. CASE d # c
      <4>1. UsersOf(d)' = UsersOf(d)
        BY <1>1, <1>2, <1>3, <3>2 DEF UsersOf
      <4> QED
        BY <1>5, <3>1, <3>2, <4>1
    <3>3. CASE d = c
      <4>1. UsersOf(c)' = UsersOf(c) \cup {r}
        BY <1>3 DEF UsersOf, Using
      <4>2. IsFiniteSet(UsersOf(c)) /\ r \notin UsersOf(c)
        BY <1>2, BoundsAssumption, FS_Subset DEF UsersOf
      <4>3. Cardinality(UsersOf(c) \cup {r}) = Cardinality(UsersOf(c)) + 1
        BY <4>2, FS_AddElement
      <4> QED
        BY <1>5, <3>1, <3>3, <4>1, <4>3
    <3> QED
      BY <3>2, <3>3
  <2> QED
    BY <2>1, <2>2, <2>3, <2>4 DEF Tabled
<1>10. ASSUME NEW d \in Requests PROVE Logged(d)'
  <2>1. pc[r] \notin Over
    BY DEF Over
  <2>2. \A o \in Requests \ {r} : own'[o] = own[o] /\ pc'[o] = pc[o] /\ asked'[o] = asked[o]
    BY <1>3
  <2>3. IsConversation(conv[d])
    BY DEF Inv, Logged
  <2>4. IsConversation(conv'[d]) /\ conv'[d].turns = conv[d].turns
    BY <1>5, <2>3 DEF IsConversation
  <2> QED
    BY <1>3, <2>1, <2>2, <2>4, SameLogged
<1> QED
  BY <1>3, <1>5, <1>6, <1>8, <1>9, <1>10

(* The table without the conversation at place i. *)
LEMMA RemovedTable ==
    ASSUME Inv, NEW i \in DOMAIN states, NEW table, table = RemoveAt(states, i)
    PROVE  /\ table \in Seq(Requests) /\ Len(table) < Maximum
           /\ \A k \in DOMAIN table : \E j \in DOMAIN states : table[k] = states[j]
           /\ \A k, l \in DOMAIN table : conv[table[k]].key = conv[table[l]].key => k = l
           /\ \A k \in DOMAIN table : conv[table[k]].key # conv[states[i]].key
           /\ \A j \in DOMAIN states \ {i} : \E k \in DOMAIN table : table[k] = states[j]
<1>1. /\ states \in Seq(Requests) /\ Len(states) <= Maximum
      /\ \A j, k \in DOMAIN states : conv[states[j]].key = conv[states[k]].key => j = k
  BY DEF Inv, Shape, Tabled
<1>2. PICK n \in Nat : n = Len(states)
  BY <1>1
<1>3. DOMAIN states = 1 .. n /\ i \in 1 .. n
  BY <1>1, <1>2
<1>4. /\ table \in Seq(Requests) /\ Len(table) = n - 1
      /\ \A k \in 1 .. n - 1 : table[k] = IF k < i THEN states[k] ELSE states[k + 1]
  BY <1>1, <1>2, <1>3, RemoveAtFacts
<1>5. DOMAIN table = 1 .. n - 1
  BY <1>4
<1>6. ASSUME NEW k \in DOMAIN table
      PROVE  \E j \in DOMAIN states :
               j # i /\ table[k] = states[j] /\ j = IF k < i THEN k ELSE k + 1
  BY <1>3, <1>4, <1>5
<1>7. \A k, l \in DOMAIN table : conv[table[k]].key = conv[table[l]].key => k = l
  <2> SUFFICES ASSUME NEW k \in DOMAIN table, NEW l \in DOMAIN table,
                      conv[table[k]].key = conv[table[l]].key
               PROVE  k = l
    OBVIOUS
  <2>1. PICK x \in DOMAIN states : table[k] = states[x] /\ x = IF k < i THEN k ELSE k + 1
    BY <1>6
  <2>2. PICK y \in DOMAIN states : table[l] = states[y] /\ y = IF l < i THEN l ELSE l + 1
    BY <1>6
  <2>3. x = y
    BY <1>1, <2>1, <2>2
  <2> QED
    BY <1>3, <1>5, <2>1, <2>2, <2>3
<1>8. \A k \in DOMAIN table : conv[table[k]].key # conv[states[i]].key
  BY <1>1, <1>6
<1>9. ASSUME NEW j \in DOMAIN states \ {i}
      PROVE  \E k \in DOMAIN table : table[k] = states[j]
  <2>1. CASE j < i
    <3>1. j \in DOMAIN table /\ table[j] = states[j]
      BY <1>3, <1>4, <1>5, <2>1
    <3> QED
      BY <3>1
  <2>2. CASE ~(j < i)
    <3>1. j - 1 \in DOMAIN table /\ ~(j - 1 < i) /\ (j - 1) + 1 = j
      BY <1>3, <1>5, <2>2
    <3>2. table[j - 1] = states[j]
      BY <1>4, <1>5, <3>1
    <3> QED
      BY <3>1, <3>2
  <2> QED
    BY <2>1, <2>2
<1>10. Len(table) < Maximum
  BY <1>1, <1>2, <1>4, BoundsAssumption
<1> QED
  BY <1>4, <1>6, <1>7, <1>8, <1>9, <1>10

LEMMA ReplayedFacts ==
    ASSUME NEW r \in Requests
    PROVE  /\ Sent[r] \in Seq(Utterances) /\ Len(Sent[r]) \in Nat \ {0}
           /\ Last(Sent[r]) = Sent[r][Len(Sent[r])]
           /\ Last(Sent[r]) \in Utterances
           /\ Len(Replayed(r)) \in Nat \ {0} /\ Base(r) \in Nat
           /\ Base(r) + Len(Replayed(r)) = Len(Sent[r])
           /\ \A i \in 1 .. Len(Replayed(r)) :
                /\ Replayed(r)[i] = Sent[r][Base(r) + i]
                /\ Base(r) + i \in 1 .. Len(Sent[r])
                /\ Replayed(r)[i] \in Utterances
<1>1. Sent[r] \in Seq(Utterances) /\ Sent[r] # <<>> /\ MaxTurns \in Nat \ {0}
  BY BoundsAssumption
<1>2. PICK n \in Nat : n > 0 /\ Replayed(r) = LastOf(Sent[r], n)
  BY <1>1 DEF Replayed
<1>3. /\ Len(Sent[r]) \in Nat \ {0} /\ Last(Sent[r]) = Sent[r][Len(Sent[r])]
      /\ Last(Sent[r]) \in Utterances
  BY <1>1, FrontLastFacts
<1>4. PICK s : s = Replayed(r)
  OBVIOUS
<1>5. /\ s \in Seq(Utterances)
      /\ Len(s) = IF Len(Sent[r]) <= n THEN Len(Sent[r]) ELSE n
      /\ \A i \in 1 .. Len(s) : s[i] = Sent[r][Len(Sent[r]) - Len(s) + i]
  <2>1. s = LastOf(Sent[r], n) /\ Sent[r] \in Seq(Utterances)
    BY <1>1, <1>2, <1>4
  <2> QED
    BY <2>1, LastOfFacts
<1>6. Len(s) \in Nat \ {0} /\ Len(Sent[r]) - Len(s) \in Nat
  <2>1. Len(s) = Len(Sent[r]) \/ (Len(s) = n /\ n < Len(Sent[r]))
    BY <1>3, <1>5
  <2> QED
    BY <1>2, <1>3, <2>1
<1>7. ASSUME NEW i \in 1 .. Len(s)
      PROVE  Len(Sent[r]) - Len(s) + i \in 1 .. Len(Sent[r])
  BY <1>3, <1>6
<1>8. \A i \in 1 .. Len(s) : s[i] \in Utterances
  BY <1>5
<1>9. Base(r) = Len(Sent[r]) - Len(s)
  BY <1>4 DEF Base
<1>10. Base(r) \in Nat /\ Base(r) + Len(s) = Len(Sent[r])
  BY <1>3, <1>6, <1>9
<1>11. \A i \in 1 .. Len(s) : /\ s[i] = Sent[r][Base(r) + i]
                              /\ Base(r) + i \in 1 .. Len(Sent[r]) /\ s[i] \in Utterances
  BY <1>5, <1>7, <1>8, <1>9
<1> QED
  BY <1>1, <1>3, <1>4, <1>6, <1>10, <1>11

LEMMA SplitInv ==
    ASSUME states' \in Seq(Requests), DOMAIN conv' = Requests, DOMAIN log' = Requests,
           \A o \in Requests : Owned(o)', Tabled', \A c \in Requests : Logged(c)',
           \A r \in Requests : RequestGood(r)',
           NEW r, NEW p, NEW c, NEW n, NEW stack, NEW known, NEW res, NEW plans,
           Moves(r, p, c, n, stack, known, res, plans)
    PROVE  Inv'
  BY DEF Inv, Shape, Moves

LEMMA RequestTypes ==
    ASSUME Inv, NEW r \in Requests
    PROVE  /\ Typed(r, pc[r], own[r], writes[r], frames[r], memo[r], result[r], asked[r])
           /\ Unplanned(r, pc[r], own[r], asked[r])
           /\ Written(pc[r], writes[r], LastPlan(r, asked[r]))
           /\ own[r] = None => Replays(r, pc[r], frames[r], memo[r], result[r], asked[r])
           /\ DOMAIN pc = Requests /\ DOMAIN own = Requests /\ DOMAIN writes = Requests
           /\ DOMAIN frames = Requests /\ DOMAIN memo = Requests /\ DOMAIN result = Requests
           /\ DOMAIN asked = Requests /\ DOMAIN conv = Requests /\ DOMAIN log = Requests
           /\ Owned(r)
  BY DEF Inv, Shape, RequestGood, IsRequest

LEMMA FrameFacts ==
    ASSUME NEW n \in Nat \ {0}
    PROVE  /\ Frame(n) \in Calls /\ Frame(n).end = n /\ Frame(n).offsets = {}
           /\ Frame(n).turns = [i \in 1 .. n - 1 |-> {}] /\ Len(Frame(n).turns) = n - 1
<1>1. NoPlan \in Plans
  BY DEF NoPlan, Plans, Kinds
<1>2. [i \in 1 .. n - 1 |-> {}] \in Seq(Foci) /\ Len([i \in 1 .. n - 1 |-> {}]) = n - 1
  <2>1. n - 1 \in Nat /\ {} \in Foci
    BY DEF Foci
  <2> QED
    BY <2>1
<1> QED
  BY <1>1, <1>2 DEF Frame, Calls

----------------------------------------------------------------------------
(* A request arrives. *)

LEMMA StepBeginReplay ==
    ASSUME Inv, NEW r \in Requests, pc[r] = "new", BeginReplay(r),
           UNCHANGED <<memo, attempt, result, writes, asked>>
    PROVE  Inv'
<1>1. /\ Typed(r, pc[r], own[r], writes[r], frames[r], memo[r], result[r], asked[r])
      /\ Written(pc[r], writes[r], LastPlan(r, asked[r]))
      /\ own[r] = None /\ memo[r] = <<>>
  BY RequestTypes DEF Owned, Before, Replays
<1>2. PICK n \in Nat \ {0} : n = Len(Replayed(r))
  BY ReplayedFacts
<1>3. PICK q \in Calls : /\ q = Frame(n) /\ q.end = n /\ q.offsets = {}
                         /\ q.turns = [i \in 1 .. n - 1 |-> {}] /\ Len(q.turns) = n - 1
  BY FrameFacts
<1>4. Moves(r, "planning", None, writes[r], <<q>>, memo[r], result[r], asked[r])
  BY <1>1, <1>2, <1>3, RequestTypes DEF Moves, BeginReplay
<1>5. Known(r, memo[r], asked[r])
  BY <1>1 DEF Known
<1>6. Calling(r, q, memo[r]) /\ Fresh(q)
  BY <1>1, <1>2, <1>3 DEF Calling, Fresh
<1>7. Stacked(r, "planning", <<q>>, memo[r], asked[r])
  <2>1. DOMAIN <<q>> = {1} /\ <<q>>[1] = q /\ Len(<<q>>) = 1 /\ <<q>> # <<>>
    OBVIOUS
  <2> QED
    BY <1>2, <1>3, <1>6, <2>1 DEF Stacked
<1>8. Typed(r, "planning", None, writes[r], <<q>>, memo[r], result[r], asked[r])
  BY <1>1 DEF Typed, Places, Using
<1>9. IsRequest(r, "planning", None, writes[r], <<q>>, memo[r], result[r], asked[r])
  <2>1. Unplanned(r, "planning", None, asked[r])
    BY DEF Unplanned, Before
  <2>2. Written("planning", writes[r], LastPlan(r, asked[r]))
    BY <1>1 DEF Written
  <2>3. Replays(r, "planning", <<q>>, memo[r], result[r], asked[r])
    BY <1>5, <1>7 DEF Replays, Before, Over
  <2> QED
    BY <1>8, <2>1, <2>2, <2>3 DEF IsRequest
<1>10. \A o \in Requests : RequestGood(o)'
  BY <1>4, <1>9, OfRequests DEF Inv
<1>11. Stays(r)
  <2>1. SameConversations
    BY TypesOfLog, RequestTypes DEF SameConversations, BeginReplay
  <2> QED
    BY <1>1, <1>4, <2>1 DEF Stays, Moves, BeginReplay, Before
<1> QED
  BY <1>4, <1>10, <1>11, StaysFacts, SplitInv

LEMMA StepEnter ==
    ASSUME Inv, NEW r \in Requests, pc[r] = "new", KeyOf[r] # None,
           NEW c \in Requests, NEW table, Enter(r, c, table),
           UNCHANGED <<memo, attempt, result, writes, asked>>,
           states' \in Seq(Requests), DOMAIN conv' = Requests, log' = log,
           \A o \in Requests : Owned(o)', Tabled', \A d \in Requests : Logged(d)'
    PROVE  Inv'
<1>1. /\ Typed(r, pc[r], own[r], writes[r], frames[r], memo[r], result[r], asked[r])
      /\ Unplanned(r, pc[r], own[r], asked[r])
      /\ Written(pc[r], writes[r], LastPlan(r, asked[r]))
  BY RequestTypes
<1>2. Moves(r, "waiting", c, writes[r], frames[r], memo[r], result[r], asked[r])
  BY RequestTypes DEF Moves, Enter
<1>3. IsRequest(r, "waiting", c, writes[r], frames[r], memo[r], result[r], asked[r])
  <2>1. c # None
    BY BoundsAssumption
  <2>2. Typed(r, "waiting", c, writes[r], frames[r], memo[r], result[r], asked[r])
    BY <1>1 DEF Typed, Places, Using
  <2>3. Unplanned(r, "waiting", c, asked[r])
    BY <1>1 DEF Unplanned, Before
  <2>4. Written("waiting", writes[r], LastPlan(r, asked[r]))
    BY <1>1 DEF Written
  <2> QED
    BY <2>1, <2>2, <2>3, <2>4 DEF IsRequest
<1>4. \A o \in Requests : RequestGood(o)'
  BY <1>2, <1>3, OfRequests DEF Inv
<1>5. DOMAIN log' = Requests
  BY RequestTypes
<1> QED
  BY <1>2, <1>4, <1>5, SplitInv

LEMMA StepArrive ==
    ASSUME Inv, NEW r \in Requests, Arrive(r)
    PROVE  Inv'
<1>1. pc[r] = "new" /\ UNCHANGED <<memo, attempt, result, writes, asked>>
  BY DEF Arrive
<1>2. /\ states \in Seq(Requests) /\ Len(states) <= Maximum
      /\ \A i, j \in DOMAIN states : conv[states[i]].key = conv[states[j]].key => i = j
      /\ \A i \in DOMAIN states : states[i] \in Requests /\ states[i] # r
  BY <1>1, RequestTypes DEF Inv, Shape, Tabled, Owned, Before
<1>3. CASE BeginReplay(r)
  BY <1>1, <1>3, StepBeginReplay
<1>4. CASE KeyOf[r] # None /\ \E c \in Held(KeyOf[r]) : Enter(r, c, RemoveAt(states, Place(c)))
  <2>1. PICK c \in Held(KeyOf[r]) : Enter(r, c, RemoveAt(states, Place(c)))
    BY <1>4
  <2>2. conv[c].key = KeyOf[r] /\ \E i \in DOMAIN states : states[i] = c
    BY <2>1 DEF Held, ToSet
  <2>3. Place(c) \in DOMAIN states /\ states[Place(c)] = c /\ c \in Requests
    BY <1>2, <2>2 DEF Place
  <2>4. PICK table : table = RemoveAt(states, Place(c))
    OBVIOUS
  <2>5. /\ table \in Seq(Requests) /\ Len(table) < Maximum
        /\ \A k \in DOMAIN table : \E j \in DOMAIN states : table[k] = states[j]
        /\ \A k, l \in DOMAIN table : conv[table[k]].key = conv[table[l]].key => k = l
        /\ \A k \in DOMAIN table : conv[table[k]].key # conv[states[Place(c)]].key
        /\ \A j \in DOMAIN states \ {Place(c)} : \E k \in DOMAIN table : table[k] = states[j]
    BY <2>3, <2>4, RemovedTable
  <2>6. \A k \in DOMAIN table : table[k] # c /\ conv[table[k]].key # KeyOf[r]
    BY <2>2, <2>3, <2>5
  <2>7. \A i \in DOMAIN states : conv[states[i]].users # 0 /\ states[i] # c =>
          \E j \in DOMAIN table : table[j] = states[i]
    BY <2>3, <2>5
  <2>8. Enter(r, c, table)
    BY <2>1, <2>4
  <2>9. /\ states' \in Seq(Requests) /\ DOMAIN conv' = Requests /\ log' = log
        /\ \A o \in Requests : Owned(o)'
        /\ Tabled' /\ \A d \in Requests : Logged(d)'
    BY <1>1, <1>4, <2>2, <2>3, <2>5, <2>6, <2>7, <2>8, EnterFacts
  <2> QED
    BY <1>1, <1>4, <2>3, <2>8, <2>9, StepEnter
<1>5. CASE /\ KeyOf[r] # None /\ Held(KeyOf[r]) = {} /\ Len(states) < Maximum
           /\ Enter(r, r, states)
  <2>1. \A k \in DOMAIN states : states[k] # r /\ conv[states[k]].key # KeyOf[r]
    BY <1>2, <1>5 DEF Held, ToSet
  <2>2. /\ states' \in Seq(Requests) /\ DOMAIN conv' = Requests /\ log' = log
        /\ \A o \in Requests : Owned(o)'
        /\ Tabled' /\ \A d \in Requests : Logged(d)'
    BY <1>1, <1>2, <1>5, <2>1, EnterFacts
  <2> QED
    BY <1>1, <1>5, <2>2, StepEnter
<1>6. CASE /\ KeyOf[r] # None /\ Held(KeyOf[r]) = {} /\ Idle # {}
           /\ Enter(r, r, RemoveAt(states, Evict))
  <2>1. Evict \in DOMAIN states /\ conv[states[Evict]].users = 0
    <3>1. Idle \subseteq DOMAIN states /\ DOMAIN states = 1 .. Len(states)
      BY <1>2 DEF Idle
    <3>2. Idle \subseteq Nat
      BY <3>1
    <3>3. Evict \in Idle
      BY <1>6, <3>2, MinFacts DEF Evict
    <3> QED
      BY <3>3 DEF Idle
  <2>2. PICK table : table = RemoveAt(states, Evict)
    OBVIOUS
  <2>3. /\ table \in Seq(Requests) /\ Len(table) < Maximum
        /\ \A k \in DOMAIN table : \E j \in DOMAIN states : table[k] = states[j]
        /\ \A k, l \in DOMAIN table : conv[table[k]].key = conv[table[l]].key => k = l
        /\ \A j \in DOMAIN states \ {Evict} : \E k \in DOMAIN table : table[k] = states[j]
    BY <2>1, <2>2, RemovedTable
  <2>4. \A k \in DOMAIN table : table[k] # r /\ conv[table[k]].key # KeyOf[r]
    BY <1>2, <1>6, <2>3 DEF Held, ToSet
  <2>5. \A i \in DOMAIN states : conv[states[i]].users # 0 /\ states[i] # r =>
          \E j \in DOMAIN table : table[j] = states[i]
    BY <2>1, <2>3
  <2>6. Enter(r, r, table)
    BY <1>6, <2>2
  <2>7. /\ states' \in Seq(Requests) /\ DOMAIN conv' = Requests /\ log' = log
        /\ \A o \in Requests : Owned(o)'
        /\ Tabled' /\ \A d \in Requests : Logged(d)'
    BY <1>1, <1>6, <2>3, <2>4, <2>5, <2>6, EnterFacts
  <2> QED
    BY <1>1, <1>6, <2>6, <2>7, StepEnter
<1> QED
  BY <1>3, <1>4, <1>5, <1>6 DEF Arrive

----------------------------------------------------------------------------
(* A request goes on. *)

LEMMA StaysInv ==
    ASSUME Inv, NEW r \in Requests, Stays(r),
           NEW p, NEW c, NEW n, NEW stack, NEW known, NEW res, NEW plans,
           Moves(r, p, c, n, stack, known, res, plans),
           IsRequest(r, p, c, n, stack, known, res, plans)
    PROVE  Inv'
<1>1. \A o \in Requests : RequestGood(o)'
  BY OfRequests DEF Inv
<1> QED
  BY <1>1, StaysFacts, SplitInv

LEMMA InitInv ==
    ASSUME Init
    PROVE  Inv
<1>1. None \notin Requests /\ Maximum \in Nat /\ MaxTurns \in Nat
  BY BoundsAssumption
<1>2. Shape
  BY DEF Init, Shape
<1>3. \A r \in Requests : /\ own[r] = None /\ log[r] = <<>> /\ pc[r] \in Before
                          /\ frames[r] = <<>> /\ memo[r] = <<>> /\ writes[r] = 0
                          /\ result[r] = NoResult
                          /\ asked[r] = [i \in DOMAIN Sent[r] |-> NoPlan]
  BY DEF Init, Before
<1>4. \A r \in Requests : Owned(r)
  BY <1>1, <1>3 DEF Owned, Before, Init
<1>5. Tabled
  <2>1. \A c \in Requests : UsersOf(c) = {}
    BY <1>1, <1>3 DEF UsersOf
  <2>2. \A c \in Requests : conv[c].users = 0
    BY DEF Init
  <2>3. states = <<>> /\ Len(states) = 0 /\ DOMAIN states = {}
    BY DEF Init
  <2>4. \A c \in Requests : conv[c].users = Cardinality(UsersOf(c))
    BY <2>1, <2>2, FS_EmptySet
  <2>5. \A r \in Requests : ~(own[r] # None /\ pc[r] \in Using)
    BY <1>3
  <2> QED
    BY <1>1, <2>3, <2>4, <2>5 DEF Tabled
<1>6. ASSUME NEW c \in Requests PROVE Logged(c)
  <2>1. conv[c] = [key |-> None, users |-> 0, holder |-> None, queue |-> <<>>,
                   messages |-> <<>>, turns |-> <<>>]
    BY DEF Init
  <2>2. IsConversation(conv[c]) /\ conv[c].turns = <<>>
    BY <2>1 DEF IsConversation, Fields
  <2>3. Remembers(<<>>, <<>>)
    BY <1>1 DEF Remembers
  <2>4. log[c] = <<>>
    BY <1>3
  <2>5. <<>> \in Seq(Turns) /\ DOMAIN <<>> = {}
    OBVIOUS
  <2> QED
    BY <2>2, <2>3, <2>4, <2>5 DEF Logged
<1>7. ASSUME NEW r \in Requests PROVE RequestGood(r)
  <2>1. NoPlan \in Plans /\ NoResult \in Results
    BY DEF NoPlan, NoResult, Plans, Results, Kinds, Foci
  <2>2. LastPlan(r, asked[r]) = NoPlan
    <3>1. Len(Sent[r]) \in DOMAIN Sent[r]
      BY BoundsAssumption, EmptySeq
    <3> QED
      BY <1>3, <3>1 DEF LastPlan
  <2>3. Typed(r, pc[r], own[r], writes[r], frames[r], memo[r], result[r], asked[r])
    <3>1. <<>> \in Seq(Calls) /\ <<>> \in Seq(Memos)
      OBVIOUS
    <3>2. DOMAIN asked[r] = DOMAIN Sent[r] /\ \A i \in DOMAIN asked[r] : asked[r][i] \in Plans
      BY <1>3, <2>1
    <3> QED
      <4>1. /\ pc[r] \in Places /\ own[r] = None /\ writes[r] = 0 /\ frames[r] = <<>>
            /\ memo[r] = <<>> /\ result[r] \in Results
        BY <1>3, <2>1 DEF Places
      <4> QED
        BY <3>1, <3>2, <4>1 DEF Typed
  <2>4. Written(pc[r], writes[r], LastPlan(r, asked[r]))
    BY <1>3, <2>2 DEF Written, Before
  <2>5. Replays(r, pc[r], frames[r], memo[r], result[r], asked[r])
    <3>1. memo[r] = <<>> /\ Known(r, <<>>, asked[r])
      <4>1. DOMAIN <<>> = {}
        OBVIOUS
      <4> QED
        BY <1>3, <4>1 DEF Known
    <3>2. pc[r] \in Before /\ pc[r] \notin Replaying /\ pc[r] \notin Over
      BY <1>3 DEF Before, Replaying, Over
    <3> QED
      BY <3>1, <3>2 DEF Replays
  <2> QED
    BY <2>2, <2>3, <2>4, <2>5 DEF RequestGood, IsRequest, Unplanned
<1> QED
  BY <1>2, <1>4, <1>5, <1>6, <1>7 DEF Inv

LEMMA StepAcquire ==
    ASSUME Inv, NEW r \in Requests, Acquire(r)
    PROVE  Inv'
<1>1. /\ Typed(r, pc[r], own[r], writes[r], frames[r], memo[r], result[r], asked[r])
      /\ Unplanned(r, pc[r], own[r], asked[r])
      /\ Written(pc[r], writes[r], LastPlan(r, asked[r]))
      /\ pc[r] = "waiting" /\ own[r] # None /\ own[r] \in Requests
  BY RequestTypes DEF Acquire, Owned, Typed
<1>2. Moves(r, "planning", own[r], writes[r], frames[r], memo[r], result[r], asked[r])
  BY RequestTypes DEF Moves, Acquire
<1>3. IsRequest(r, "planning", own[r], writes[r], frames[r], memo[r], result[r], asked[r])
  BY <1>1 DEF IsRequest, Typed, Places, Using, Unplanned, Written
<1>4. Stays(r)
  <2>1. SameConversations
    <3>1. DOMAIN conv' = Requests /\ states' = states /\ log' = log
      BY RequestTypes DEF Acquire
    <3>2. ASSUME NEW c \in Requests
          PROVE  /\ DOMAIN conv'[c] = Fields /\ conv'[c].key = conv[c].key
                 /\ conv'[c].users = conv[c].users /\ conv'[c].turns = conv[c].turns
      BY <1>1, TypesOfLog, RequestTypes DEF Acquire, Fields
    <3> QED
      BY <3>1, <3>2 DEF SameConversations
  <2> QED
    BY <1>1, <1>2, <2>1 DEF Stays, Moves, Using, Before, Over, Acquire
<1> QED
  BY <1>2, <1>3, <1>4, StaysInv

LEMMA SameStays ==
    ASSUME Inv, UNCHANGED <<states, conv, log>>
    PROVE  SameConversations
  BY TypesOfLog DEF SameConversations, Inv, Shape

LEMMA StepMutate ==
    ASSUME Inv, NEW r \in Requests, Mutate(r)
    PROVE  Inv'
<1>1. /\ Typed(r, pc[r], own[r], writes[r], frames[r], memo[r], result[r], asked[r])
      /\ Written(pc[r], writes[r], LastPlan(r, asked[r]))
      /\ own[r] = None => Replays(r, pc[r], frames[r], memo[r], result[r], asked[r])
      /\ pc[r] = "mutating"
  BY RequestTypes DEF Mutate
<1>2. Moves(r, "done", own[r], writes[r] + 1, frames[r], memo[r], result[r], asked[r])
  BY RequestTypes DEF Moves, Mutate
<1>3. IsRequest(r, "done", own[r], writes[r] + 1, frames[r], memo[r], result[r], asked[r])
  <2>1. Typed(r, "done", own[r], writes[r] + 1, frames[r], memo[r], result[r], asked[r])
    BY <1>1 DEF Typed, Places, Over
  <2>2. Written("done", writes[r] + 1, LastPlan(r, asked[r]))
    BY <1>1 DEF Written
  <2>3. own[r] = None => Replays(r, "done", frames[r], memo[r], result[r], asked[r])
    BY <1>1 DEF Replays, Before, Replaying, Over
  <2> QED
    BY <2>1, <2>2, <2>3 DEF IsRequest, Unplanned, Before
<1>4. Stays(r)
  BY <1>1, <1>2, SameStays DEF Stays, Moves, Mutate, Using, Before, Over
<1> QED
  BY <1>2, <1>3, <1>4, StaysInv

LEMMA StepChat ==
    ASSUME Inv, NEW r \in Requests, Chat(r)
    PROVE  Inv'
<1>1. /\ Typed(r, pc[r], own[r], writes[r], frames[r], memo[r], result[r], asked[r])
      /\ Written(pc[r], writes[r], LastPlan(r, asked[r]))
      /\ own[r] = None => Replays(r, pc[r], frames[r], memo[r], result[r], asked[r])
      /\ pc[r] = "chatting"
  BY RequestTypes DEF Chat
<1>2. Moves(r, "done", own[r], writes[r], frames[r], memo[r], result[r], asked[r])
  BY RequestTypes DEF Moves, Chat
<1>3. IsRequest(r, "done", own[r], writes[r], frames[r], memo[r], result[r], asked[r])
  <2>1. Typed(r, "done", own[r], writes[r], frames[r], memo[r], result[r], asked[r])
    BY <1>1 DEF Typed, Places, Over
  <2>2. Written("done", writes[r], LastPlan(r, asked[r]))
    BY <1>1 DEF Written
  <2>3. own[r] = None => Replays(r, "done", frames[r], memo[r], result[r], asked[r])
    BY <1>1 DEF Replays, Before, Replaying, Over
  <2> QED
    BY <2>1, <2>2, <2>3 DEF IsRequest, Unplanned, Before
<1>4. Stays(r)
  BY <1>1, <1>2, SameStays DEF Stays, Moves, Chat, Using, Before, Over
<1> QED
  BY <1>2, <1>3, <1>4, StaysInv

(* An attempt of the planner fails and is repeated. *)
LEMMA StepRetry ==
    ASSUME Inv, UNCHANGED <<states, conv, pc, own, frames, memo, result, writes, asked, log>>
    PROVE  Inv'
<1>1. Shape'
  BY DEF Inv, Shape
<1>2. ASSUME NEW r \in Requests PROVE Owned(r)'
  BY DEF Inv, Owned
<1>3. Tabled'
  BY DEF Inv, Tabled, UsersOf
<1>4. ASSUME NEW c \in Requests PROVE Logged(c)'
  BY DEF Inv, Logged, TurnOf
<1>5. ASSUME NEW r \in Requests PROVE RequestGood(r)'
  BY DEF Inv, RequestGood
<1> QED
  BY <1>1, <1>2, <1>3, <1>4, <1>5 DEF Inv

----------------------------------------------------------------------------
(* A turn of a conversation ends. *)

LEMMA RecordFacts ==
    ASSUME Inv, NEW r \in Requests, pc[r] = "planning", own[r] # None,
           NEW focus \in Foci, Record(r, focus), pc'[r] \in Over, states' = states,
           own' = own,
           \A o \in Requests \ {r} : pc'[o] = pc[o] /\ asked'[o] = asked[o],
           LastPlan(r, asked'[r]) \in Plans,
           focus = Meaning(Last(Sent[r]), LastPlan(r, asked'[r]), FociOf(log[own[r]]),
                           Len(log[own[r]]) + 1)
    PROVE  /\ states' \in Seq(Requests) /\ DOMAIN conv' = Requests /\ DOMAIN log' = Requests
           /\ \A o \in Requests : Owned(o)'
           /\ Tabled'
           /\ \A c \in Requests : Logged(c)'
<1>1. PICK c \in Requests : c = own[r]
  BY RequestTypes DEF Typed
<1>2. DOMAIN conv = Requests /\ DOMAIN log = Requests /\ DOMAIN conv[c] = Fields
  BY RequestTypes, TypesOfLog
<1>3. /\ DOMAIN conv' = Requests /\ DOMAIN conv'[c] = Fields
      /\ conv'[c].key = conv[c].key /\ conv'[c].users = conv[c].users - 1
      /\ conv'[c].turns = LastOf(Append(conv[c].turns, focus), MaxTurns)
      /\ \A d \in Requests \ {c} : conv'[d] = conv[d]
  BY <1>1, <1>2 DEF Record, Fields
<1>4. /\ DOMAIN log' = Requests
      /\ log'[c] = Append(log[c], [by |-> r, focus |-> focus])
      /\ \A d \in Requests \ {c} : log'[d] = log[d]
  BY <1>1, <1>2 DEF Record
<1>5. Leaves(r)
  <2>1. \A d \in Requests : DOMAIN conv'[d] = Fields /\ conv'[d].key = conv[d].key
    BY <1>3, TypesOfLog
  <2>2. \A d \in Requests \ {c} :
          conv'[d].users = conv[d].users /\ conv'[d].turns = conv[d].turns
    BY <1>3
  <2> QED
    BY <1>1, <1>3, <1>4, <2>1, <2>2 DEF Leaves, Using
<1>6. /\ states' \in Seq(Requests) /\ \A o \in Requests : Owned(o)'
      /\ Tabled' /\ conv'[c].users \in Nat
  BY <1>1, <1>5, LeavesFacts
<1>7. LastOf(Append(conv[c].turns, focus), MaxTurns) \in Seq(Foci)
  <2>1. Append(conv[c].turns, focus) \in Seq(Foci) /\ MaxTurns \in Nat
    BY TypesOfLog, BoundsAssumption
  <2> QED
    BY <2>1, LastOfFacts
<1>8. Logged(c)'
  <2>1. IsConversation(conv'[c])
    BY <1>3, <1>6, <1>7 DEF IsConversation
  <2> QED
    BY <1>1, <1>3, <1>4, <1>5, <2>1, RecordedLogged
<1>9. ASSUME NEW d \in Requests, d # c PROVE Logged(d)'
  <2>1. IsConversation(conv'[d]) /\ conv'[d].turns = conv[d].turns /\ log'[d] = log[d]
    BY <1>3, <1>4, <1>9, TypesOfLog DEF IsConversation
  <2>2. pc[r] \notin Over
    BY DEF Over
  <2>3. \A o \in Requests \ {r} : own'[o] = own[o] /\ pc'[o] = pc[o] /\ asked'[o] = asked[o]
    OBVIOUS
  <2> QED
    BY <2>1, <2>2, <2>3, SameLogged
<1> QED
  BY <1>3, <1>4, <1>6, <1>8, <1>9

LEMMA AnsweredType ==
    ASSUME NEW u \in Utterances, NEW plan \in Plans, NEW turns \in Seq(Foci)
    PROVE  Answered(u, plan, turns) \in Results
<1>1. plan.kind \in Kinds /\ plan.offsets \subseteq 1 .. MaxTurns /\ MaxTurns \in Nat
  BY BoundsAssumption DEF Plans
<1>2. ASSUME NEW o \in plan.offsets, o <= Len(turns)
      PROVE  Antecedent(turns, o) \subseteq Utterances
  <2>1. o \in 1 .. MaxTurns /\ Len(turns) \in Nat
    BY <1>1
  <2>2. Len(turns) + 1 - o \in 1 .. Len(turns)
    BY <1>1, <1>2, <2>1
  <2>3. turns[Len(turns) + 1 - o] \in Foci
    BY <2>2, ElementOfSeq
  <2> QED
    BY <2>3 DEF Antecedent, Foci
<1>3. Answered(u, plan, turns).focus \subseteq Utterances
  <2>1. CASE \A o \in plan.offsets : o <= Len(turns)
    <3>1. UNION {Antecedent(turns, o) : o \in plan.offsets} \subseteq Utterances
      BY <1>2, <2>1
    <3> QED
      BY <3>1 DEF Answered
  <2>2. CASE ~ \A o \in plan.offsets : o <= Len(turns)
    BY <2>2 DEF Answered
  <2> QED
    BY <2>1, <2>2
<1>4. PICK f : f = Answered(u, plan, turns).focus
  OBVIOUS
<1>5. Answered(u, plan, turns) = [kind |-> plan.kind, focus |-> f]
  BY <1>4 DEF Answered
<1> QED
  BY <1>1, <1>3, <1>4, <1>5 DEF Results, Foci

LEMMA AfterFacts ==
    ASSUME NEW res
    PROVE  /\ After(res) \in Over \ {"interrupted"}
           /\ After(res) = "mutating" <=> res.kind = "mutation"
           /\ After(res) = "chatting" => res.kind # "mutation"
  BY DEF After, Over

LEMMA AskedFacts ==
    ASSUME NEW r \in Requests, NEW plans, NEW i \in DOMAIN Sent[r], NEW plan \in Plans,
           DOMAIN plans = DOMAIN Sent[r], \A k \in DOMAIN plans : plans[k] \in Plans,
           NEW others, others = [plans EXCEPT ![i] = plan]
    PROVE  /\ DOMAIN others = DOMAIN Sent[r] /\ \A k \in DOMAIN others : others[k] \in Plans
           /\ others[i] = plan /\ \A k \in DOMAIN Sent[r] \ {i} : others[k] = plans[k]
           /\ LastPlan(r, others) \in Plans
<1>1. Len(Sent[r]) \in DOMAIN Sent[r]
  BY BoundsAssumption, EmptySeq
<1> QED
  BY <1>1 DEF LastPlan

LEMMA StepAnswerInSession ==
    ASSUME Inv, NEW r \in Requests, pc[r] = "planning", own[r] # None,
           NEW plan \in Plans, Answer(r, plan), UNCHANGED <<states, own, writes>>
    PROVE  Inv'
<1>1. /\ Typed(r, pc[r], own[r], writes[r], frames[r], memo[r], result[r], asked[r])
      /\ Written(pc[r], writes[r], LastPlan(r, asked[r]))
  BY RequestTypes
<1>2. PICK c \in Requests : c = own[r]
  BY <1>1 DEF Typed
<1>3. PICK plans : plans = [asked[r] EXCEPT ![Len(Sent[r])] = plan]
  OBVIOUS
<1>4. /\ DOMAIN plans = DOMAIN Sent[r] /\ \A k \in DOMAIN plans : plans[k] \in Plans
      /\ LastPlan(r, plans) = plan
  <2>1. Len(Sent[r]) \in DOMAIN Sent[r]
    BY BoundsAssumption, EmptySeq
  <2> QED
    BY <1>1, <1>3, <2>1, AskedFacts DEF Typed, LastPlan
<1>5. PICK res : res = Answered(Last(Sent[r]), plan, conv[c].turns)
  OBVIOUS
<1>6. conv[c].turns \in Seq(Foci) /\ log[c] \in Seq(Turns) /\ Remembers(conv[c].turns, log[c])
  BY TypesOfLog DEF Inv, Logged
<1>7. res \in Results /\ res.kind = plan.kind
  <2>1. Last(Sent[r]) \in Utterances
    BY ReplayedFacts
  <2> QED
    BY <1>5, <1>6, <2>1, AnsweredType DEF Answered
<1>8. res.focus = Meaning(Last(Sent[r]), plan, FociOf(log[c]), Len(log[c]) + 1)
  BY <1>5, <1>6, RememberedMeans
<1>9. /\ AnswerInSession(r, plan)
      /\ asked' = [asked EXCEPT ![r][Len(Sent[r])] = plan]
  BY DEF Answer, InSession, Position
<1>10. Moves(r, After(res), c, writes[r], frames[r], memo[r], res, plans)
  BY <1>2, <1>3, <1>5, <1>9, RequestTypes DEF Moves, AnswerInSession
<1>11. IsRequest(r, After(res), c, writes[r], frames[r], memo[r], res, plans)
  <2>1. After(res) \in Places /\ c # None
    BY AfterFacts, BoundsAssumption DEF Places
  <2>2. Typed(r, After(res), c, writes[r], frames[r], memo[r], res, plans)
    BY <1>1, <1>4, <1>7, <2>1 DEF Typed
  <2>3. Written(After(res), writes[r], LastPlan(r, plans))
    BY <1>1, <1>4, <1>7, AfterFacts DEF Written
  <2>4. Unplanned(r, After(res), c, plans)
    BY AfterFacts DEF Unplanned, Before, Over
  <2> QED
    BY <2>1, <2>2, <2>3, <2>4 DEF IsRequest
<1>12. \A o \in Requests : RequestGood(o)'
  BY <1>10, <1>11, OfRequests DEF Inv
<1>13. Record(r, res.focus) /\ pc'[r] \in Over /\ asked'[r] = plans /\ res.focus \in Foci
  BY <1>2, <1>5, <1>7, <1>9, <1>10, AfterFacts DEF AnswerInSession, Moves, Results
<1>14. \A o \in Requests \ {r} : pc'[o] = pc[o] /\ asked'[o] = asked[o]
  BY <1>10 DEF Moves
<1>15. /\ states' \in Seq(Requests) /\ DOMAIN conv' = Requests /\ DOMAIN log' = Requests
       /\ \A o \in Requests : Owned(o)' /\ Tabled' /\ \A d \in Requests : Logged(d)'
  BY <1>2, <1>4, <1>8, <1>13, <1>14, RecordFacts
<1> QED
  BY <1>10, <1>12, <1>15, SplitInv

----------------------------------------------------------------------------
(* A request is interrupted. *)

LEMMA Interrupted ==
    ASSUME Inv, NEW r \in Requests, Interrupt(r)
    PROVE  /\ Moves(r, "interrupted", own[r], writes[r], <<>>, memo[r], result[r], asked[r])
           /\ IsRequest(r, "interrupted", own[r], writes[r], <<>>, memo[r], result[r], asked[r])
           /\ \A o \in Requests : RequestGood(o)'
<1>1. /\ Typed(r, pc[r], own[r], writes[r], frames[r], memo[r], result[r], asked[r])
      /\ Written(pc[r], writes[r], LastPlan(r, asked[r]))
      /\ own[r] = None => Replays(r, pc[r], frames[r], memo[r], result[r], asked[r])
  BY RequestTypes
<1>2. pc[r] # "done" /\ pc[r] \notin Before
  BY DEF Interrupt, Before
<1>3. Moves(r, "interrupted", own[r], writes[r], <<>>, memo[r], result[r], asked[r])
  BY RequestTypes DEF Moves, Interrupt
<1>4. IsRequest(r, "interrupted", own[r], writes[r], <<>>, memo[r], result[r], asked[r])
  <2>1. Typed(r, "interrupted", own[r], writes[r], <<>>, memo[r], result[r], asked[r])
    BY <1>1 DEF Typed, Places, Over
  <2>2. Written("interrupted", writes[r], LastPlan(r, asked[r]))
    BY <1>1, <1>2 DEF Written
  <2>3. own[r] = None => Replays(r, "interrupted", <<>>, memo[r], result[r], asked[r])
    BY <1>1 DEF Replays, Before, Replaying
  <2> QED
    BY <2>1, <2>2, <2>3 DEF IsRequest, Unplanned, Before
<1> QED
  BY <1>3, <1>4, OfRequests DEF Inv

LEMMA StepInterruptWaiting ==
    ASSUME Inv, NEW r \in Requests, Interrupt(r), pc[r] = "waiting"
    PROVE  Inv'
<1>1. Moves(r, "interrupted", own[r], writes[r], <<>>, memo[r], result[r], asked[r])
      /\ \A o \in Requests : RequestGood(o)'
  BY Interrupted
<1>2. PICK c \in Requests : c = own[r]
  BY RequestTypes DEF Typed, Owned
<1>3. c # None /\ DOMAIN conv = Requests /\ DOMAIN log = Requests
  BY BoundsAssumption, RequestTypes
<1>4. DOMAIN conv[c] = Fields
  BY TypesOfLog
<1>5. PICK rest : conv' = [conv EXCEPT ![c].users = @ - 1, ![c].queue = rest]
  BY <1>2 DEF Interrupt
<1>6. /\ DOMAIN conv' = Requests /\ DOMAIN conv'[c] = Fields /\ conv'[c].key = conv[c].key
      /\ conv'[c].users = conv[c].users - 1 /\ conv'[c].turns = conv[c].turns
      /\ \A d \in Requests \ {c} : conv'[d] = conv[d]
  BY <1>3, <1>4, <1>5 DEF Fields
<1>7. log' = log /\ states' = states
  BY DEF Interrupt
<1>8. Leaves(r)
  <2>1. \A d \in Requests : /\ DOMAIN conv'[d] = Fields /\ conv'[d].key = conv[d].key
                            /\ conv'[d].turns = conv[d].turns
    BY <1>6, TypesOfLog
  <2>2. \A d \in Requests \ {c} : conv'[d].users = conv[d].users
    BY <1>6
  <2>3. /\ pc'[r] \in Over /\ \A o \in Requests : own'[o] = own[o]
        /\ \A o \in Requests \ {r} : pc'[o] = pc[o] /\ asked'[o] = asked[o]
    BY <1>1 DEF Moves, Over
  <2> QED
    BY <1>2, <1>3, <1>6, <1>7, <2>1, <2>2, <2>3 DEF Leaves, Using
<1>9. /\ states' \in Seq(Requests) /\ \A o \in Requests : Owned(o)'
      /\ Tabled' /\ conv'[c].users \in Nat
  BY <1>2, <1>8, LeavesFacts
<1>10. ASSUME NEW d \in Requests PROVE Logged(d)'
  <2>1. IsConversation(conv'[d]) /\ conv'[d].turns = conv[d].turns
    BY <1>6, <1>9, TypesOfLog DEF IsConversation
  <2>2. pc[r] \notin Over
    BY DEF Over
  <2>3. \A o \in Requests \ {r} : own'[o] = own[o] /\ pc'[o] = pc[o] /\ asked'[o] = asked[o]
    BY <1>8 DEF Leaves
  <2> QED
    BY <1>7, <2>1, <2>2, <2>3, SameLogged
<1> QED
  BY <1>1, <1>3, <1>6, <1>7, <1>9, <1>10, SplitInv

LEMMA StepInterruptSession ==
    ASSUME Inv, NEW r \in Requests, Interrupt(r), pc[r] = "planning", own[r] # None
    PROVE  Inv'
<1>1. Moves(r, "interrupted", own[r], writes[r], <<>>, memo[r], result[r], asked[r])
      /\ \A o \in Requests : RequestGood(o)'
  BY Interrupted
<1>2. LastPlan(r, asked[r]) = NoPlan
  BY RequestTypes DEF Unplanned
<1>3. NoPlan \in Plans /\ {} \in Foci
  BY DEF NoPlan, Plans, Kinds, Foci
<1>4. PICK plan : plan = LastPlan(r, asked'[r])
  OBVIOUS
<1>5. plan = NoPlan
  BY <1>1, <1>2, <1>4 DEF Moves
<1>6. {} = Meaning(Last(Sent[r]), plan, FociOf(log[own[r]]), Len(log[own[r]]) + 1)
  BY <1>5 DEF Meaning, NoPlan
<1>7. Record(r, {})
  BY DEF Interrupt, InSession, RecordInterrupted
<1>8. /\ pc'[r] \in Over /\ states' = states /\ own' = own
      /\ \A o \in Requests \ {r} : pc'[o] = pc[o] /\ asked'[o] = asked[o]
  BY <1>1 DEF Moves, Over, Interrupt
<1>9. /\ states' \in Seq(Requests) /\ DOMAIN conv' = Requests /\ DOMAIN log' = Requests
      /\ \A o \in Requests : Owned(o)' /\ Tabled' /\ \A d \in Requests : Logged(d)'
  BY <1>3, <1>4, <1>5, <1>6, <1>7, <1>8, RecordFacts
<1> QED
  BY <1>1, <1>9, SplitInv

LEMMA StepInterrupt ==
    ASSUME Inv, NEW r \in Requests, Interrupt(r)
    PROVE  Inv'
<1>1. CASE pc[r] = "waiting"
  BY <1>1, StepInterruptWaiting
<1>2. CASE pc[r] = "planning" /\ own[r] # None
  BY <1>2, StepInterruptSession
<1>3. CASE pc[r] # "waiting" /\ ~(pc[r] = "planning" /\ own[r] # None)
  <2>1. /\ Moves(r, "interrupted", own[r], writes[r], <<>>, memo[r], result[r], asked[r])
        /\ IsRequest(r, "interrupted", own[r], writes[r], <<>>, memo[r], result[r], asked[r])
    BY Interrupted
  <2>2. UNCHANGED <<states, conv, log>>
    BY <1>3 DEF Interrupt, InSession
  <2>3. SameConversations
    BY <2>2, SameStays
  <2>4. own[r] # None => pc[r] \in Over /\ pc[r] \notin Using
    BY <1>3, RequestTypes DEF Owned, Interrupt, Over, Using
  <2>5. Stays(r)
    BY <2>1, <2>3, <2>4 DEF Stays, Moves, Over, Before, Using
  <2> QED
    BY <2>1, <2>5, StaysInv
<1> QED
  BY <1>1, <1>2, <1>3

----------------------------------------------------------------------------
(* What a replay knows, and the calls under way. *)

(* What holds of the calls whatever the innermost one waits for. *)
Climbing(r, stack, known, plans) ==
  /\ stack # <<>> /\ stack[1].end = Len(Replayed(r))
  /\ \A j, k \in DOMAIN stack : j < k => stack[k].end < stack[j].end
  /\ \A k \in DOMAIN stack : Calling(r, stack[k], known)
  /\ \A k \in DOMAIN stack : k < Len(stack) => Noting(r, stack[k], known, plans)

LEMMA StackedFacts ==
    ASSUME NEW r \in Requests, NEW p \in Replaying, NEW stack \in Seq(Calls),
           NEW known, NEW plans
    PROVE  Stacked(r, p, stack, known, plans) <=>
             /\ Climbing(r, stack, known, plans)
             /\ p = "antecedents" => Noting(r, Last(stack), known, plans)
             /\ p = "planning" => Fresh(Last(stack))
<1>1. CASE stack = <<>>
  BY <1>1 DEF Stacked, Climbing
<1>2. CASE stack # <<>>
  <2>1. Len(stack) \in DOMAIN stack /\ Last(stack) = stack[Len(stack)]
        /\ \A k \in DOMAIN stack : k \in Int /\ k <= Len(stack)
    <3>1. Len(stack) \in Nat \ {0} /\ Last(stack) = stack[Len(stack)]
      BY <1>2, FrontLastFacts
    <3>2. DOMAIN stack = 1 .. Len(stack)
      OBVIOUS
    <3> QED
      BY <3>1, <3>2
  <2>2. PICK n \in Int : n = Len(stack)
    BY <2>1
  <2>3. \A k \in DOMAIN stack : k < n \/ k = n
    BY <2>1, <2>2
  <2> QED
    BY <1>2, <2>1, <2>2, <2>3 DEF Stacked, Climbing, Replaying
<1> QED
  BY <1>1, <1>2

(* What is known stays known, and no turn but the i-th becomes known.      *)
Grows(known, more, i) ==
  /\ \A j, f : Told(known, j, f) => Told(more, j, f)
  /\ \A e \in DOMAIN more :
       more[e].end = i \/ \E d \in DOMAIN known : known[d].end = more[e].end

(* A turn not known before is told. *)
LEMMA Learnt ==
    ASSUME NEW r \in Requests, NEW known \in Seq(Memos), NEW plans, Known(r, known, plans),
           NEW i \in 1 .. Len(Replayed(r)), \A e \in DOMAIN known : known[e].end # i,
           NEW plan, plan = plans[Base(r) + i],
           NEW res \in Results, Meant(r, known, i, plan, res.focus),
           NEW more, more = Append(known, [end |-> i, res |-> res])
    PROVE  /\ more \in Seq(Memos) /\ Known(r, more, plans)
           /\ Grows(known, more, i) /\ Told(more, i, res.focus)
<1>1. PICK n \in Nat : n = Len(known)
  OBVIOUS
<1>2. PICK last : last = [end |-> i, res |-> res]
  OBVIOUS
<1>3. last \in Memos /\ last.end = i /\ last.res = res
  BY <1>2, ReplayedFacts DEF Memos
<1>4. /\ more \in Seq(Memos) /\ DOMAIN known = 1 .. n /\ DOMAIN more = 1 .. n + 1
      /\ more[n + 1] = last /\ \A e \in 1 .. n : more[e] = known[e]
  BY <1>1, <1>2, <1>3
<1>5. \A j, f : Told(known, j, f) => Told(more, j, f)
  BY <1>4 DEF Told
<1>6. Told(more, i, res.focus)
  <2>1. n + 1 \in DOMAIN more
    BY <1>4
  <2> QED
    BY <1>3, <1>4, <2>1 DEF Told
<1>7. \A e \in DOMAIN more : e \in DOMAIN known \/ e = n + 1
  BY <1>4
<1>8. \A e, f \in DOMAIN more : more[e].end = more[f].end => e = f
  <2>1. \A e, f \in DOMAIN known : known[e].end = known[f].end => e = f
    BY DEF Known
  <2> QED
    BY <1>3, <1>4, <1>7, <2>1
<1>9. ASSUME NEW j, NEW q, NEW f, Meant(r, known, j, q, f)
      PROVE  Meant(r, more, j, q, f)
  BY <1>5, <1>9 DEF Meant
<1>10. Known(r, more, plans)
  <2>1. ASSUME NEW e \in DOMAIN more
        PROVE  Meant(r, more, more[e].end, plans[Base(r) + more[e].end], more[e].res.focus)
    <3>1. CASE e = n + 1
      BY <1>3, <1>4, <1>9, <3>1
    <3>2. CASE e \in DOMAIN known
      <4>1. Meant(r, known, known[e].end, plans[Base(r) + known[e].end], known[e].res.focus)
        BY <3>2 DEF Known
      <4> QED
        BY <1>4, <1>9, <3>2, <4>1
    <3> QED
      BY <1>7, <3>1, <3>2
  <2> QED
    BY <1>8, <2>1 DEF Known
<1>11. \A e \in DOMAIN more :
         more[e].end = i \/ \E d \in DOMAIN known : known[d].end = more[e].end
  BY <1>3, <1>4, <1>7
<1> QED
  BY <1>4, <1>5, <1>6, <1>10, <1>11 DEF Grows

(* The call notes the focus of a turn it refers to. *)
NotedIn(q, i, focus, d) == [q EXCEPT !.turns[i] = focus, !.offsets = @ \ {d}]

LEMMA Noted ==
    ASSUME NEW r \in Requests, NEW q \in Calls, NEW known, NEW plans,
           Calling(r, q, known), Noting(r, q, known, plans),
           NEW i \in 1 .. q.end - 1, NEW focus \in Foci, Told(known, i, focus),
           NEW d, d = q.end - i,
           NEW noted, noted = NotedIn(q, i, focus, d)
    PROVE  /\ noted \in Calls /\ noted.end = q.end
           /\ Calling(r, noted, known) /\ Noting(r, noted, known, plans)
<1>1. /\ q.end \in Nat /\ q.plan \in Plans /\ q.offsets \subseteq Nat /\ q.turns \in Seq(Foci)
      /\ Len(q.turns) = q.end - 1 /\ i \in Nat /\ d \in Nat
  BY DEF Calls, Calling
<1> DEFINE turns == [q.turns EXCEPT ![i] = focus]
<1>2. noted = [end |-> q.end, plan |-> q.plan, offsets |-> q.offsets \ {d}, turns |-> turns]
  BY DEF Calls, NotedIn
<1>3. /\ turns \in Seq(Foci) /\ Len(turns) = q.end - 1
      /\ turns[i] = focus
      /\ \A k \in 1 .. q.end - 1 : k # i => turns[k] = q.turns[k]
  BY <1>1
<1> HIDE DEF turns
<1>4. noted \in Calls
  BY <1>1, <1>2, <1>3 DEF Calls
<1>5. Calling(r, noted, known)
  BY <1>2, <1>3 DEF Calling
<1>6. ASSUME NEW o \in q.plan.offsets, o < q.end, o \notin q.offsets \ {d}
      PROVE  Told(known, q.end - o, noted.turns[q.end - o])
  <2>1. o \in Nat \ {0}
    BY <1>1, BoundsAssumption DEF Plans
  <2>2. CASE o = d
    BY <1>1, <1>2, <1>3, <2>2
  <2>3. CASE o # d
    <3>1. Told(known, q.end - o, q.turns[q.end - o])
      BY <1>6, <2>3 DEF Noting
    <3>2. q.end - o \in 1 .. q.end - 1 /\ q.end - o # i
      BY <1>1, <1>6, <2>1, <2>3
    <3> QED
      BY <1>2, <1>3, <3>1, <3>2
  <2> QED
    BY <2>2, <2>3
<1>7. Noting(r, noted, known, plans)
  BY <1>2, <1>6 DEF Noting
<1> QED
  BY <1>2, <1>4, <1>5, <1>7

(* The innermost call gives way to one that has noted more. *)
LEMMA Replaced ==
    ASSUME NEW r \in Requests, NEW stack \in Seq(Calls), NEW known, NEW plans,
           Climbing(r, stack, known, plans),
           NEW x \in Calls, x.end = Last(stack).end,
           Calling(r, x, known), Noting(r, x, known, plans),
           NEW other, other = Append(Front(stack), x)
    PROVE  other \in Seq(Calls) /\ Stacked(r, "antecedents", other, known, plans)
<1>1. stack # <<>>
  BY DEF Climbing
<1>2. PICK n \in Nat \ {0} : n = Len(stack)
  BY <1>1, FrontLastFacts
<1>3. /\ Last(stack) = stack[n] /\ DOMAIN stack = 1 .. n
      /\ Front(stack) \in Seq(Calls) /\ Len(Front(stack)) = n - 1
      /\ \A k \in 1 .. n - 1 : Front(stack)[k] = stack[k]
  BY <1>1, <1>2, FrontLastFacts
<1>4. /\ other \in Seq(Calls) /\ Len(other) = n /\ DOMAIN other = 1 .. n
      /\ other[n] = x /\ \A k \in 1 .. n - 1 : other[k] = stack[k]
  BY <1>3
<1>5. \A k \in 1 .. n : k = n \/ k \in 1 .. n - 1
  OBVIOUS
<1>6. \A k \in 1 .. n : other[k].end = stack[k].end
  BY <1>3, <1>4, <1>5
<1>7. other # <<>> /\ other[1].end = Len(Replayed(r))
      /\ \A j, k \in DOMAIN other : j < k => other[k].end < other[j].end
  <2>1. 1 \in 1 .. n /\ other # <<>>
    BY <1>4
  <2> QED
    BY <1>3, <1>4, <1>6, <2>1 DEF Climbing
<1>8. ASSUME NEW k \in DOMAIN other
      PROVE  Calling(r, other[k], known) /\ Noting(r, other[k], known, plans)
  <2>1. CASE k = n
    BY <1>4, <2>1
  <2>2. CASE k \in 1 .. n - 1
    <3>1. other[k] = stack[k] /\ k \in DOMAIN stack /\ k < n
      BY <1>3, <1>4, <2>2
    <3> QED
      BY <1>2, <3>1 DEF Climbing
  <2> QED
    BY <1>4, <1>5, <2>1, <2>2
<1> QED
  BY <1>4, <1>7, <1>8 DEF Stacked

(* A call for a turn that is not known. *)
LEMMA Pushed ==
    ASSUME NEW r \in Requests, NEW stack \in Seq(Calls), NEW known, NEW plans,
           Stacked(r, "antecedents", stack, known, plans),
           NEW t \in 1 .. Last(stack).end - 1, \A e \in DOMAIN known : known[e].end # t,
           NEW other, other = Append(stack, Frame(t))
    PROVE  other \in Seq(Calls) /\ Stacked(r, "planning", other, known, plans)
<1>1. stack # <<>>
  BY DEF Stacked
<1>2. PICK n \in Nat \ {0} : n = Len(stack)
  BY <1>1, FrontLastFacts
<1>3. Last(stack) = stack[n] /\ DOMAIN stack = 1 .. n /\ stack[n] \in Calls
  <2>1. Last(stack) = stack[n] /\ Last(stack) \in Calls
    BY <1>1, <1>2, FrontLastFacts
  <2> QED
    BY <1>2, <2>1
<1>4. stack[n].end \in 1 .. Len(Replayed(r)) /\ Len(Replayed(r)) \in Nat
  BY <1>3, ReplayedFacts DEF Stacked, Calling
<1>5. t \in Nat \ {0} /\ t < stack[n].end /\ t \in 1 .. Len(Replayed(r))
  BY <1>3, <1>4
<1>6. PICK x \in Calls : /\ x = Frame(t) /\ x.end = t /\ x.offsets = {}
                         /\ x.turns = [i \in 1 .. t - 1 |-> {}] /\ Len(x.turns) = t - 1
  BY <1>5, FrameFacts
<1>7. /\ other \in Seq(Calls) /\ Len(other) = n + 1 /\ DOMAIN other = 1 .. n + 1
      /\ other[n + 1] = x /\ \A k \in 1 .. n : other[k] = stack[k]
  BY <1>2, <1>6
<1>8. \A k \in 1 .. n + 1 : k = n + 1 \/ k \in 1 .. n
  OBVIOUS
<1>9. Calling(r, x, known) /\ Fresh(x)
  BY <1>5, <1>6 DEF Calling, Fresh
<1>10. \A k \in 1 .. n : stack[k].end \in Nat /\ t < stack[k].end
  <2> TAKE k \in 1 .. n
  <2>1. stack[k].end \in Nat
    BY <1>3, <1>4 DEF Stacked, Calling
  <2>2. k = n \/ k < n
    OBVIOUS
  <2>3. k < n => stack[n].end < stack[k].end
    BY <1>3 DEF Stacked
  <2> QED
    BY <1>4, <1>5, <2>1, <2>2, <2>3
<1>11. other # <<>> /\ other[1].end = Len(Replayed(r))
  BY <1>7 DEF Stacked
<1>12. ASSUME NEW j \in DOMAIN other, NEW k \in DOMAIN other, j < k
       PROVE  other[k].end < other[j].end
  <2>1. j \in 1 .. n
    BY <1>7, <1>8, <1>12
  <2>2. CASE k = n + 1
    BY <1>6, <1>7, <1>10, <2>1, <2>2
  <2>3. CASE k \in 1 .. n
    <3>1. other[j] = stack[j] /\ other[k] = stack[k] /\ j \in DOMAIN stack /\ k \in DOMAIN stack
      BY <1>3, <1>7, <2>1, <2>3
    <3> QED
      BY <1>12, <3>1 DEF Stacked
  <2> QED
    BY <1>7, <1>8, <2>2, <2>3
<1>13. ASSUME NEW k \in DOMAIN other
       PROVE  /\ Calling(r, other[k], known)
              /\ k < Len(other) => Noting(r, other[k], known, plans)
              /\ k = Len(other) => Fresh(other[k])
  <2>1. CASE k = n + 1
    BY <1>7, <1>9, <2>1
  <2>2. CASE k \in 1 .. n
    <3>1. other[k] = stack[k] /\ k \in DOMAIN stack /\ k # n + 1
      BY <1>3, <1>7, <2>2
    <3> QED
      BY <1>7, <3>1 DEF Stacked
  <2> QED
    BY <1>7, <1>8, <2>1, <2>2
<1> QED
  BY <1>7, <1>11, <1>12, <1>13 DEF Stacked

(* The innermost call returns, and what it was about becomes known.        *)
LEMMA Popped ==
    ASSUME NEW r \in Requests, NEW stack \in Seq(Calls), NEW known, NEW plans, NEW more,
           Climbing(r, stack, known, plans),
           NEW rest, rest = Front(stack), rest # <<>>,
           NEW i, i = Last(stack).end, Grows(known, more, i)
    PROVE  /\ rest \in Seq(Calls) /\ Last(rest) \in Calls
           /\ Climbing(r, rest, more, plans) /\ Noting(r, Last(rest), more, plans)
           /\ i < Last(rest).end
<1>1. stack # <<>>
  BY DEF Climbing
<1>2. PICK n \in Nat \ {0} : n = Len(stack)
  BY <1>1, FrontLastFacts
<1>3. /\ Last(stack) = stack[n] /\ DOMAIN stack = 1 .. n
      /\ rest \in Seq(Calls) /\ Len(rest) = n - 1
      /\ \A k \in 1 .. n - 1 : rest[k] = stack[k]
  BY <1>1, <1>2, FrontLastFacts
<1>4. /\ n - 1 \in 1 .. n /\ Last(rest) = rest[n - 1] /\ DOMAIN rest = 1 .. n - 1
      /\ 1 \in 1 .. n - 1 /\ Last(rest) \in Calls
  <2>1. Len(rest) \in Nat \ {0} /\ Last(rest) = rest[Len(rest)] /\ Last(rest) \in Calls
    BY <1>3, FrontLastFacts
  <2> QED
    BY <1>3, <2>1
<1>5. ASSUME NEW k \in 1 .. n - 1
      PROVE  /\ stack[n].end < rest[k].end
             /\ Calling(r, rest[k], more) /\ Noting(r, rest[k], more, plans)
  <2>1. rest[k] = stack[k] /\ k \in 1 .. n /\ k < n
    BY <1>3
  <2>2. /\ stack[n].end < stack[k].end /\ Calling(r, stack[k], known)
        /\ Noting(r, stack[k], known, plans)
    BY <1>2, <1>3, <2>1 DEF Climbing
  <2>4. stack[k].end # i
    <3>1. stack[n] \in Calls /\ stack[k] \in Calls
      BY <1>2, <2>1, ElementOfSeq
    <3>2. stack[n].end \in Nat /\ stack[k].end \in Nat
      BY <3>1 DEF Calls
    <3> QED
      BY <1>3, <2>2, <3>2
  <2>5. Calling(r, stack[k], more) /\ Noting(r, stack[k], more, plans)
    <3>1. PICK q : q = stack[k]
      OBVIOUS
    <3>2. Calling(r, q, known) /\ Noting(r, q, known, plans) /\ q.end # i
      BY <2>2, <2>4, <3>1
    <3>3. Calling(r, q, more)
      BY <3>2 DEF Calling, Grows
    <3>4. Noting(r, q, more, plans)
      BY <3>2 DEF Noting, Grows
    <3> QED
      BY <3>1, <3>3, <3>4
  <2> QED
    BY <2>1, <2>2, <2>5
<1>6. /\ rest[1].end = Len(Replayed(r))
      /\ \A j, k \in DOMAIN rest : j < k => rest[k].end < rest[j].end
  <2>1. \A k \in DOMAIN rest : k \in DOMAIN stack /\ rest[k] = stack[k]
    BY <1>3, <1>4
  <2> QED
    BY <1>4, <2>1 DEF Climbing
<1> QED
  BY <1>3, <1>4, <1>5, <1>6 DEF Climbing

----------------------------------------------------------------------------
(* A replay goes on. *)

LEMMA ReplayStays ==
    ASSUME Inv, NEW r \in Requests, own[r] = None, UNCHANGED <<states, conv, log>>,
           NEW p \in Replaying \cup Over, NEW n, NEW stack, NEW known, NEW res, NEW plans,
           Moves(r, p, None, n, stack, known, res, plans)
    PROVE  Stays(r)
<1>1. SameConversations
  BY SameStays
<1>2. p \notin Before \cup {"waiting"}
  BY DEF Replaying, Over, Before
<1> QED
  BY <1>1, <1>2 DEF Stays, Moves

(* The calls of a replay wait for the planner or for turns referred to.    *)
LEMMA ReplayGoesOn ==
    ASSUME Inv, NEW r \in Requests, own[r] = None, pc[r] \in Replaying,
           UNCHANGED <<states, conv, own, writes, log>>,
           NEW p \in Replaying, NEW stack \in Seq(Calls), NEW known \in Seq(Memos), NEW plans,
           DOMAIN plans = DOMAIN Sent[r], \A k \in DOMAIN plans : plans[k] \in Plans,
           Known(r, known, plans), Stacked(r, p, stack, known, plans),
           Moves(r, p, None, writes[r], stack, known, result[r], plans)
    PROVE  Inv'
<1>1. /\ Typed(r, pc[r], own[r], writes[r], frames[r], memo[r], result[r], asked[r])
      /\ Written(pc[r], writes[r], LastPlan(r, asked[r]))
  BY RequestTypes
<1>2. Typed(r, p, None, writes[r], stack, known, result[r], plans)
  BY <1>1 DEF Typed, Places
<1>3. Written(p, writes[r], LastPlan(r, plans))
  BY <1>1 DEF Written, Replaying
<1>4. Replays(r, p, stack, known, result[r], plans)
  BY DEF Replays, Replaying, Before, Over
<1>5. Unplanned(r, p, None, plans)
  BY DEF Unplanned, Replaying, Before
<1>6. IsRequest(r, p, None, writes[r], stack, known, result[r], plans)
  BY <1>2, <1>3, <1>4, <1>5 DEF IsRequest
<1>7. p \in Replaying \cup Over
  OBVIOUS
<1>8. Stays(r)
  BY <1>7, ReplayStays
<1> QED
  BY <1>6, <1>8, StaysInv

(* The outermost call returns. *)
LEMMA ReplayEnds ==
    ASSUME Inv, NEW r \in Requests, own[r] = None, pc[r] \in Replaying,
           UNCHANGED <<states, conv, own, writes, log>>,
           NEW known \in Seq(Memos), NEW res \in Results, NEW plans,
           DOMAIN plans = DOMAIN Sent[r], \A k \in DOMAIN plans : plans[k] \in Plans,
           Known(r, known, plans), Told(known, Len(Replayed(r)), res.focus),
           res.kind = LastPlan(r, plans).kind,
           Moves(r, After(res), None, writes[r], <<>>, known, res, plans)
    PROVE  Inv'
<1>1. /\ Typed(r, pc[r], own[r], writes[r], frames[r], memo[r], result[r], asked[r])
      /\ Written(pc[r], writes[r], LastPlan(r, asked[r]))
  BY RequestTypes
<1>2. PICK p : p = After(res)
  OBVIOUS
<1>3. /\ p \in Over \ {"interrupted"}
      /\ p = "mutating" <=> res.kind = "mutation"
      /\ p = "chatting" => res.kind # "mutation"
  BY <1>2, AfterFacts
<1>4. Typed(r, p, None, writes[r], <<>>, known, res, plans)
  <2>1. <<>> \in Seq(Calls)
    OBVIOUS
  <2> QED
    BY <1>1, <1>3, <2>1 DEF Typed, Places
<1>5. Written(p, writes[r], LastPlan(r, plans))
  BY <1>1, <1>3 DEF Written, Replaying
<1>6. Replays(r, p, <<>>, known, res, plans)
  BY <1>3 DEF Replays, Replaying, Before, Over
<1>7. Unplanned(r, p, None, plans)
  BY <1>3 DEF Unplanned, Over, Before
<1>8. IsRequest(r, p, None, writes[r], <<>>, known, res, plans)
  BY <1>4, <1>5, <1>6, <1>7 DEF IsRequest
<1>9. p \in Replaying \cup Over
  BY <1>3
<1>10. Moves(r, p, None, writes[r], <<>>, known, res, plans)
  BY <1>2
<1>11. Stays(r)
  BY <1>9, <1>10, ReplayStays
<1> QED
  BY <1>8, <1>10, <1>11, StaysInv

LEMMA StepReturn ==
    ASSUME Inv, NEW r \in Requests, own[r] = None, pc[r] \in Replaying,
           UNCHANGED <<states, conv, own, writes, log>>,
           NEW plans, DOMAIN asked' = Requests, asked'[r] = plans,
           \A o \in Requests \ {r} : asked'[o] = asked[o],
           DOMAIN plans = DOMAIN Sent[r], \A k \in DOMAIN plans : plans[k] \in Plans,
           NEW stack \in Seq(Calls), Climbing(r, stack, memo[r], plans),
           Known(r, memo[r], plans),
           NEW i, i = Last(stack).end, NEW plan, plan = plans[Base(r) + i],
           NEW res \in Results, res.kind = plan.kind, Meant(r, memo[r], i, plan, res.focus),
           Return(r, stack, res)
    PROVE  Inv'
<1>1. PICK known \in Seq(Memos) : known = memo[r]
  BY RequestTypes DEF Typed
<1>2. PICK top \in Calls : top = Last(stack)
  BY FrontLastFacts DEF Climbing
<1>3. PICK more : more = Append(known, [end |-> i, res |-> res])
  OBVIOUS
<1>4. PICK rest : rest = Front(stack)
  OBVIOUS
<1>5. Calling(r, top, known) /\ i = top.end /\ i \in 1 .. Len(Replayed(r))
      /\ \A e \in DOMAIN known : known[e].end # i
  <2>1. stack # <<>>
    BY DEF Climbing
  <2>2. Len(stack) \in DOMAIN stack /\ top = stack[Len(stack)]
    BY <1>2, <2>1, FrontLastFacts
  <2>3. Calling(r, top, known)
    BY <1>1, <2>2 DEF Climbing
  <2> QED
    BY <1>2, <2>3 DEF Calling
<1>6. /\ more \in Seq(Memos) /\ Known(r, more, plans)
      /\ Grows(known, more, i) /\ Told(more, i, res.focus)
  <2>1. Known(r, known, plans) /\ Meant(r, known, i, plan, res.focus)
    BY <1>1
  <2> QED
    BY <1>3, <1>5, <2>1, Learnt
<1>7. CASE rest = <<>>
  <2>1. Moves(r, After(res), None, writes[r], <<>>, more, res, plans)
    BY <1>1, <1>2, <1>3, <1>4, <1>5, <1>7, RequestTypes DEF Moves, Return
  <2>2. i = Len(Replayed(r))
    <3>1. stack # <<>>
      BY DEF Climbing
    <3>2. Len(stack) = 1 /\ Last(stack) = stack[Len(stack)]
      BY <1>4, <1>7, <3>1, FrontLastFacts
    <3> QED
      BY <3>2 DEF Climbing
  <2>3. res.kind = LastPlan(r, plans).kind
    BY <2>2, ReplayedFacts DEF LastPlan
  <2> QED
    BY <1>6, <2>1, <2>2, <2>3, ReplayEnds
<1>8. CASE rest # <<>>
  <2>1. /\ rest \in Seq(Calls) /\ Last(rest) \in Calls
        /\ Climbing(r, rest, more, plans) /\ Noting(r, Last(rest), more, plans)
        /\ i < Last(rest).end
    <3>1. Climbing(r, stack, known, plans)
      BY <1>1
    <3> QED
      BY <1>4, <1>6, <1>8, <3>1, Popped
  <2>2. PICK caller \in Calls : caller = Last(rest)
    BY <2>1
  <2>3. Calling(r, caller, more)
    <3>1. Len(rest) \in DOMAIN rest /\ caller = rest[Len(rest)]
      BY <1>8, <2>1, <2>2, FrontLastFacts
    <3> QED
      BY <2>1, <3>1 DEF Climbing
  <2>4. PICK d : d = caller.end - i
    OBVIOUS
  <2>5. PICK focus \in Foci : focus = res.focus
    BY DEF Results
  <2>6. PICK noted : noted = NotedIn(caller, i, focus, d)
    OBVIOUS
  <2>7. i \in 1 .. caller.end - 1
    <3>1. caller.end \in Nat /\ i \in Nat /\ i >= 1
      BY <1>5, ReplayedFacts DEF Calls
    <3> QED
      BY <2>1, <2>2, <3>1
  <2>8. /\ noted \in Calls /\ noted.end = caller.end
        /\ Calling(r, noted, more) /\ Noting(r, noted, more, plans)
    <3>1. Told(more, i, focus) /\ Noting(r, caller, more, plans)
      BY <1>6, <2>1, <2>2, <2>5
    <3> QED
      BY <2>3, <2>4, <2>6, <2>7, <3>1, Noted
  <2>9. PICK other : other = Append(Front(rest), noted)
    OBVIOUS
  <2>10. other \in Seq(Calls) /\ Stacked(r, "antecedents", other, more, plans)
    BY <2>1, <2>2, <2>8, <2>9, Replaced
  <2>11. Moves(r, "antecedents", None, writes[r], other, more, result[r], plans)
    BY <1>1, <1>2, <1>3, <1>4, <1>5, <1>8, <2>2, <2>4, <2>5, <2>6, <2>9, RequestTypes
       DEF Moves, Return, NotedIn
  <2>12. "antecedents" \in Replaying
    BY DEF Replaying
  <2> QED
    BY <1>6, <2>10, <2>11, <2>12, ReplayGoesOn
<1> QED
  BY <1>7, <1>8

(* Planning the turn the innermost call is about changes nothing known.    *)
LEMMA Replanned ==
    ASSUME NEW r \in Requests, NEW stack \in Seq(Calls), NEW known \in Seq(Memos), NEW plans,
           Climbing(r, stack, known, plans), Known(r, known, plans),
           NEW i, i = Last(stack).end, NEW others,
           \A k \in 1 .. Len(Replayed(r)) : k # i => others[Base(r) + k] = plans[Base(r) + k]
    PROVE  Climbing(r, stack, known, others) /\ Known(r, known, others)
<1>1. stack # <<>>
  BY DEF Climbing
<1>2. PICK n \in Nat \ {0} : n = Len(stack)
  BY <1>1, FrontLastFacts
<1>3. DOMAIN stack = 1 .. n /\ n \in DOMAIN stack /\ i = stack[n].end
  <2>1. DOMAIN stack = 1 .. n /\ n \in 1 .. n
    BY <1>2
  <2>2. Last(stack) = stack[n]
    BY <1>1, <1>2, FrontLastFacts
  <2> QED
    BY <2>1, <2>2
<1>4. \A k \in DOMAIN stack : Calling(r, stack[k], known)
  BY DEF Climbing
<1>5. \A k \in DOMAIN stack : k < n => Noting(r, stack[k], known, others)
  <2> SUFFICES ASSUME NEW k \in DOMAIN stack, k < n
               PROVE  Noting(r, stack[k], known, others)
    OBVIOUS
  <2>1. Noting(r, stack[k], known, plans) /\ i < stack[k].end
    BY <1>2, <1>3 DEF Climbing
  <2>2. PICK m : m = stack[k].end
    OBVIOUS
  <2>3. m \in 1 .. Len(Replayed(r)) /\ i \in 1 .. Len(Replayed(r))
    BY <1>3, <1>4, <2>2 DEF Calling
  <2>4. others[Base(r) + m] = plans[Base(r) + m]
    BY <2>1, <2>2, <2>3
  <2> QED
    BY <2>1, <2>2, <2>4 DEF Noting
<1>6. Known(r, known, others)
  <2>1. ASSUME NEW e \in DOMAIN known
        PROVE  Meant(r, known, known[e].end, others[Base(r) + known[e].end],
                     known[e].res.focus)
    <3>1. PICK m : m = known[e].end
      OBVIOUS
    <3>2. Meant(r, known, m, plans[Base(r) + m], known[e].res.focus)
      BY <3>1 DEF Known
    <3>3. m # i /\ m \in 1 .. Len(Replayed(r))
      BY <1>3, <1>4, <3>1, <3>2 DEF Calling, Meant
    <3> QED
      BY <3>1, <3>2, <3>3
  <2> QED
    BY <2>1 DEF Known
<1> QED
  BY <1>2, <1>4, <1>5, <1>6 DEF Climbing

(* The innermost call, once its turn is planned. *)
PlannedIn(q, plan) == [q EXCEPT !.plan = plan, !.offsets = {o \in plan.offsets : o < q.end}]

LEMMA Planned ==
    ASSUME NEW r \in Requests, NEW q \in Calls, NEW known, NEW plans,
           Calling(r, q, known), NEW plan \in Plans, plan = plans[Base(r) + q.end],
           NEW x, x = PlannedIn(q, plan)
    PROVE  /\ x \in Calls /\ x.end = q.end
           /\ Calling(r, x, known) /\ Noting(r, x, known, plans)
<1> DEFINE needed == {o \in plan.offsets : o < q.end}
<1>1. q.end \in Nat /\ q.turns \in Seq(Foci) /\ Len(q.turns) = q.end - 1
  BY DEF Calls, Calling
<1>2. x = [end |-> q.end, plan |-> plan, offsets |-> needed, turns |-> q.turns]
  BY DEF Calls, PlannedIn
<1>3. needed \subseteq 1 .. q.end - 1 /\ needed \subseteq Nat
  BY <1>1, BoundsAssumption DEF Plans
<1>4. \A o \in plan.offsets : o < q.end => o \in needed
  OBVIOUS
<1> HIDE DEF needed
<1>5. x \in Calls /\ x.end = q.end
  BY <1>1, <1>2, <1>3 DEF Calls
<1>6. Calling(r, x, known)
  BY <1>2, <1>3 DEF Calling
<1>7. Noting(r, x, known, plans)
  BY <1>2, <1>4 DEF Noting
<1> QED
  BY <1>5, <1>6, <1>7

(* The innermost call of a replay. *)
LEMMA TopFacts ==
    ASSUME Inv, NEW r \in Requests, own[r] = None, pc[r] \in Replaying
    PROVE  /\ frames[r] \in Seq(Calls) /\ memo[r] \in Seq(Memos)
           /\ DOMAIN asked[r] = DOMAIN Sent[r]
           /\ \A k \in DOMAIN asked[r] : asked[r][k] \in Plans
           /\ Known(r, memo[r], asked[r]) /\ Climbing(r, frames[r], memo[r], asked[r])
           /\ Last(frames[r]) \in Calls /\ Calling(r, Last(frames[r]), memo[r])
           /\ Last(frames[r]).end \in 1 .. Len(Replayed(r))
           /\ Base(r) + Last(frames[r]).end \in DOMAIN Sent[r]
           /\ pc[r] = "antecedents" => Noting(r, Last(frames[r]), memo[r], asked[r])
           /\ pc[r] = "planning" => Fresh(Last(frames[r]))
<1>1. /\ Typed(r, pc[r], own[r], writes[r], frames[r], memo[r], result[r], asked[r])
      /\ Replays(r, pc[r], frames[r], memo[r], result[r], asked[r])
  BY RequestTypes
<1>2. /\ frames[r] \in Seq(Calls) /\ memo[r] \in Seq(Memos)
      /\ DOMAIN asked[r] = DOMAIN Sent[r]
      /\ \A k \in DOMAIN asked[r] : asked[r][k] \in Plans
  BY <1>1 DEF Typed
<1>3. /\ Known(r, memo[r], asked[r])
      /\ Stacked(r, pc[r], frames[r], memo[r], asked[r])
  BY <1>1 DEF Replays
<1>4. /\ Climbing(r, frames[r], memo[r], asked[r])
      /\ pc[r] = "antecedents" => Noting(r, Last(frames[r]), memo[r], asked[r])
      /\ pc[r] = "planning" => Fresh(Last(frames[r]))
  BY <1>2, <1>3, StackedFacts
<1>5. frames[r] # <<>>
  BY <1>4 DEF Climbing
<1>6. /\ Len(frames[r]) \in DOMAIN frames[r]
      /\ Last(frames[r]) = frames[r][Len(frames[r])] /\ Last(frames[r]) \in Calls
  <2>1. /\ Len(frames[r]) \in Nat \ {0} /\ Last(frames[r]) \in Calls
        /\ Last(frames[r]) = frames[r][Len(frames[r])]
    BY <1>2, <1>5, FrontLastFacts
  <2> QED
    BY <1>2, <2>1
<1>7. Calling(r, Last(frames[r]), memo[r])
  BY <1>4, <1>6 DEF Climbing
<1>8. Last(frames[r]).end \in 1 .. Len(Replayed(r))
  BY <1>7 DEF Calling
<1>9. DOMAIN Sent[r] = 1 .. Len(Sent[r])
  BY ReplayedFacts
<1>10. Base(r) + Last(frames[r]).end \in DOMAIN Sent[r]
  BY <1>8, <1>9, ReplayedFacts
<1> QED
  BY <1>2, <1>3, <1>4, <1>6, <1>7, <1>8, <1>10

LEMMA StepAnswerInReplay ==
    ASSUME Inv, NEW r \in Requests, pc[r] = "planning", own[r] = None,
           NEW plan \in Plans, Answer(r, plan), UNCHANGED <<states, own, writes>>
    PROVE  Inv'
<1>1. pc[r] \in Replaying
  BY DEF Replaying
<1>2. PICK stack \in Seq(Calls) : stack = frames[r]
  BY <1>1, TopFacts
<1>3. PICK known \in Seq(Memos) : known = memo[r]
  BY <1>1, TopFacts
<1>4. PICK top \in Calls : top = Last(stack)
  BY <1>1, <1>2, TopFacts
<1>5. PICK i : i = top.end
  OBVIOUS
<1>6. /\ Known(r, known, asked[r]) /\ Climbing(r, stack, known, asked[r])
      /\ Calling(r, top, known) /\ Fresh(top)
      /\ i \in 1 .. Len(Replayed(r)) /\ Base(r) + i \in DOMAIN Sent[r]
      /\ DOMAIN asked[r] = DOMAIN Sent[r] /\ \A k \in DOMAIN asked[r] : asked[r][k] \in Plans
  BY <1>1, <1>2, <1>3, <1>4, <1>5, TopFacts
<1>7. PICK m : m = Base(r) + i
  OBVIOUS
<1>8. PICK plans : plans = [asked[r] EXCEPT ![m] = plan]
  OBVIOUS
<1>9. /\ DOMAIN plans = DOMAIN Sent[r] /\ \A k \in DOMAIN plans : plans[k] \in Plans
      /\ plans[m] = plan /\ \A k \in DOMAIN Sent[r] \ {m} : plans[k] = asked[r][k]
  BY <1>6, <1>7, <1>8, AskedFacts
<1>10. Climbing(r, stack, known, plans) /\ Known(r, known, plans)
  <2>1. ASSUME NEW k \in 1 .. Len(Replayed(r)), k # i
        PROVE  plans[Base(r) + k] = asked[r][Base(r) + k]
    <3>1. Base(r) + k # m
      BY <1>6, <1>7, <2>1, ReplayedFacts
    <3>2. DOMAIN Sent[r] = 1 .. Len(Sent[r])
      BY ReplayedFacts
    <3>3. Base(r) + k \in DOMAIN Sent[r]
      BY <3>2, ReplayedFacts
    <3> QED
      BY <1>9, <3>1, <3>3
  <2>2. i = Last(stack).end
    BY <1>4, <1>5
  <2>3. Climbing(r, stack, known, asked[r]) /\ Known(r, known, asked[r])
    BY <1>6
  <2>4. PICK before : before = asked[r]
    OBVIOUS
  <2>5. \A k \in 1 .. Len(Replayed(r)) : k # i => plans[Base(r) + k] = before[Base(r) + k]
    BY <2>1, <2>4
  <2>6. Climbing(r, stack, known, before) /\ Known(r, known, before)
    BY <2>3, <2>4
  <2> QED
    BY <2>2, <2>5, <2>6, Replanned
<1>11. /\ DOMAIN asked' = Requests /\ asked'[r] = plans
       /\ \A o \in Requests \ {r} : asked'[o] = asked[o]
  <2>1. Position(r) = m
    BY <1>2, <1>4, <1>5, <1>7 DEF Position, InSession, Base
  <2> QED
    BY <1>8, <2>1, RequestTypes DEF Answer
<1>12. AnswerInReplay(r, plan) /\ UNCHANGED <<states, conv, own, writes, log>>
  BY DEF Answer, InSession, AnswerInReplay
<1>13. CASE plan.offsets = {}
  <2>1. PICK u \in Utterances : u = Replayed(r)[i]
    BY <1>6, ReplayedFacts
  <2>2. top.turns \in Seq(Foci) /\ Len(top.turns) = i - 1
    BY <1>5, <1>6 DEF Calls, Calling
  <2>3. PICK res \in Results : res = Answered(u, plan, top.turns)
    BY <2>1, <2>2, AnsweredType
  <2>4. /\ res.focus = Meaning(u, plan, top.turns, i) /\ res.kind = plan.kind
    BY <1>13, <2>3, AnsweredMeans
  <2>5. Meant(r, known, i, plan, res.focus)
    BY <1>6, <1>13, <2>1, <2>2, <2>4 DEF Meant
  <2>6. Return(r, stack, res)
    BY <1>2, <1>4, <1>5, <1>12, <1>13, <2>1, <2>3 DEF AnswerInReplay
  <2> QED
    BY <1>1, <1>3, <1>4, <1>5, <1>7, <1>9, <1>10, <1>11, <1>12, <2>4, <2>5, <2>6, StepReturn
<1>14. CASE plan.offsets # {}
  <2>1. PICK x : x = PlannedIn(top, plan)
    OBVIOUS
  <2>2. /\ x \in Calls /\ x.end = top.end
        /\ Calling(r, x, known) /\ Noting(r, x, known, plans)
    <3>1. plan = plans[Base(r) + top.end]
      BY <1>5, <1>7, <1>9
    <3> QED
      BY <1>6, <2>1, <3>1, Planned
  <2>3. PICK other : other = Append(Front(stack), x)
    OBVIOUS
  <2>4. other \in Seq(Calls) /\ Stacked(r, "antecedents", other, known, plans)
    BY <1>4, <1>10, <2>2, <2>3, Replaced
  <2>5. Moves(r, "antecedents", None, writes[r], other, known, result[r], plans)
    BY <1>2, <1>3, <1>4, <1>11, <1>12, <1>14, <2>1, <2>3, RequestTypes
       DEF Moves, AnswerInReplay, PlannedIn
  <2>6. "antecedents" \in Replaying
    BY DEF Replaying
  <2> QED
    BY <1>1, <1>9, <1>10, <1>12, <2>4, <2>5, <2>6, ReplayGoesOn
<1> QED
  BY <1>13, <1>14

(* A call that has noted all it refers to is answered with its last turns. *)
LEMMA NotedMeans ==
    ASSUME NEW r \in Requests, NEW q \in Calls, NEW known, NEW plans,
           Calling(r, q, known), Noting(r, q, known, plans), q.offsets = {},
           NEW u \in Utterances, u = Replayed(r)[q.end],
           NEW turns, turns = LastOf(q.turns, MaxTurns),
           NEW res, res = Answered(u, q.plan, turns)
    PROVE  /\ res \in Results /\ res.kind = q.plan.kind
           /\ Meant(r, known, q.end, q.plan, res.focus)
<1>1. PICK i \in Nat : i = q.end
  BY DEF Calls
<1>2. PICK foci \in Seq(Foci) : foci = q.turns
  BY DEF Calls
<1>3. /\ Len(foci) = i - 1 /\ i \in 1 .. Len(Replayed(r))
      /\ MaxTurns \in Nat \ {0}
  BY <1>1, <1>2, BoundsAssumption DEF Calling
<1>4. PICK plan \in Plans : plan = q.plan
  BY DEF Calls
<1>5. plan.offsets \subseteq 1 .. MaxTurns
  BY DEF Plans
<1>6. /\ turns \in Seq(Foci)
      /\ Len(turns) = IF Len(foci) <= MaxTurns THEN Len(foci) ELSE MaxTurns
      /\ \A k \in 1 .. Len(turns) : turns[k] = foci[Len(foci) - Len(turns) + k]
  <2>1. MaxTurns \in Nat /\ turns = LastOf(foci, MaxTurns)
    BY <1>2, <1>3
  <2> QED
    BY <2>1, LastOfFacts
<1>7. \A o \in plan.offsets : o <= Len(turns) <=> o < i
  <2> TAKE o \in plan.offsets
  <2>1. o \in 1 .. MaxTurns
    BY <1>5
  <2> QED
    BY <1>1, <1>3, <1>6, <2>1
<1>8. ASSUME NEW o \in plan.offsets, o < i
      PROVE  Antecedent(turns, o) = foci[i - o]
  <2>1. o \in 1 .. MaxTurns /\ o <= Len(turns) /\ Len(turns) \in Nat
    BY <1>3, <1>5, <1>6, <1>7, <1>8
  <2>2. Len(turns) + 1 - o \in 1 .. Len(turns)
    BY <1>3, <2>1
  <2>3. Len(foci) - Len(turns) + (Len(turns) + 1 - o) = i - o
    <3>1. o \in Int /\ i \in Int /\ Len(turns) \in Int /\ Len(foci) = i - 1
      BY <1>1, <1>3, <2>1
    <3> QED
      BY <3>1
  <2> QED
    BY <1>6, <2>2, <2>3 DEF Antecedent
<1>9. res.focus = Meaning(u, plan, foci, i) /\ res.kind = plan.kind
  <2>1. res = Answered(u, plan, turns)
    BY <1>4
  <2>2. \A o \in plan.offsets : o < i => Antecedent(turns, o) = foci[i - o]
    BY <1>8
  <2>3. /\ Answered(u, plan, turns).focus = Meaning(u, plan, foci, i)
        /\ Answered(u, plan, turns).kind = plan.kind
    BY <1>7, <2>2, AnsweredMeans
  <2> QED
    BY <2>1, <2>3
<1>10. \A o \in plan.offsets : o < i => Told(known, i - o, foci[i - o])
  BY <1>1, <1>2, <1>4 DEF Noting
<1>11. Meant(r, known, i, plan, res.focus)
  BY <1>1, <1>3, <1>9, <1>10 DEF Meant
<1>12. res \in Results
  BY <1>4, <1>6, AnsweredType
<1> QED
  BY <1>1, <1>4, <1>9, <1>11, <1>12

LEMMA StepAntecedents ==
    ASSUME Inv, NEW r \in Requests, Antecedents(r)
    PROVE  Inv'
<1>1. pc[r] = "antecedents" /\ pc[r] \in Replaying /\ own[r] = None
  BY RequestTypes DEF Antecedents, Replaying, Owned
<1>2. PICK stack \in Seq(Calls) : stack = frames[r]
  BY <1>1, TopFacts
<1>3. PICK known \in Seq(Memos) : known = memo[r]
  BY <1>1, TopFacts
<1>4. PICK top \in Calls : top = Last(stack)
  BY <1>1, <1>2, TopFacts
<1>5. PICK plans : plans = asked[r]
  OBVIOUS
<1>6. /\ Known(r, known, plans) /\ Climbing(r, stack, known, plans)
      /\ Calling(r, top, known) /\ Noting(r, top, known, plans)
      /\ top.end \in 1 .. Len(Replayed(r))
      /\ DOMAIN plans = DOMAIN Sent[r] /\ \A k \in DOMAIN plans : plans[k] \in Plans
  BY <1>1, <1>2, <1>3, <1>4, <1>5, TopFacts
<1>7. /\ UNCHANGED <<states, conv, own, writes, log>>
      /\ DOMAIN asked' = Requests /\ asked'[r] = plans
      /\ \A o \in Requests \ {r} : asked'[o] = asked[o]
  BY <1>5, RequestTypes DEF Antecedents
<1>8. CASE top.offsets = {}
  <2>1. PICK u \in Utterances : u = Replayed(r)[top.end]
    BY <1>6, ReplayedFacts
  <2>2. PICK turns : turns = LastOf(top.turns, MaxTurns)
    OBVIOUS
  <2>3. PICK res : res = Answered(u, top.plan, turns)
    OBVIOUS
  <2>4. /\ res \in Results /\ res.kind = top.plan.kind
        /\ Meant(r, known, top.end, top.plan, res.focus)
    BY <1>6, <1>8, <2>1, <2>2, <2>3, NotedMeans
  <2>5. Return(r, stack, res)
    BY <1>2, <1>4, <1>8, <2>1, <2>2, <2>3 DEF Antecedents
  <2>6. PICK i : i = top.end
    OBVIOUS
  <2>7. PICK plan : plan = top.plan
    OBVIOUS
  <2>8. /\ i = Last(stack).end /\ plan = plans[Base(r) + i] /\ res.kind = plan.kind
        /\ Meant(r, known, i, plan, res.focus)
    BY <1>4, <1>6, <2>4, <2>6, <2>7 DEF Noting
  <2>9. Climbing(r, stack, memo[r], plans) /\ Known(r, memo[r], plans)
        /\ Meant(r, memo[r], i, plan, res.focus)
    BY <1>3, <1>6, <2>8
  <2> QED
    BY <1>1, <1>6, <1>7, <2>4, <2>5, <2>8, <2>9, StepReturn
<1>9. CASE top.offsets # {}
  <2>1. PICK next : next = Min(top.offsets)
    OBVIOUS
  <2>2. next \in top.offsets /\ next \in Nat
    <3>1. top.offsets \subseteq Nat
      BY DEF Calls
    <3> QED
      BY <1>9, <2>1, <3>1, MinFacts
  <2>3. PICK target : target = top.end - next
    OBVIOUS
  <2>4. /\ next \in 1 .. top.end - 1 /\ target \in 1 .. top.end - 1
        /\ next = top.end - target
    <3>1. next \in 1 .. top.end - 1 /\ top.end \in Nat
      BY <1>6, <2>2 DEF Calling, Calls
    <3> QED
      BY <2>3, <3>1
  <2>5. CASE Recalled(r, target) # {}
    <3>1. PICK e : e = CHOOSE x \in Recalled(r, target) : TRUE
      OBVIOUS
    <3>2. e \in Recalled(r, target)
      BY <2>5, <3>1
    <3>3. e \in ToSet(known) /\ e.end = target
      BY <1>3, <3>2 DEF Recalled
    <3>4. PICK d \in DOMAIN known : known[d] = e
      BY <3>3 DEF ToSet
    <3>5. e \in Memos
      BY <3>4, ElementOfSeq
    <3>6. PICK focus \in Foci : focus = e.res.focus
      BY <3>5 DEF Memos, Results
    <3>7. Told(known, target, focus)
      BY <3>3, <3>4, <3>6 DEF Told
    <3>8. PICK noted : noted = NotedIn(top, target, focus, next)
      OBVIOUS
    <3>9. /\ noted \in Calls /\ noted.end = top.end
          /\ Calling(r, noted, known) /\ Noting(r, noted, known, plans)
      BY <1>6, <2>4, <3>7, <3>8, Noted
    <3>10. PICK other : other = Append(Front(stack), noted)
      OBVIOUS
    <3>11. other \in Seq(Calls) /\ Stacked(r, "antecedents", other, known, plans)
      BY <1>4, <1>6, <3>9, <3>10, Replaced
    <3>12. frames' = [frames EXCEPT ![r] = other] /\ UNCHANGED <<pc, memo, result>>
      <4>1. other = Append(Front(frames[r]),
                [top EXCEPT !.turns[target] = e.res.focus, !.offsets = @ \ {next}])
        BY <1>2, <3>6, <3>8, <3>10 DEF NotedIn
      <4>2. /\ frames' = [frames EXCEPT ![r] = Append(Front(@),
                  [top EXCEPT !.turns[target] = e.res.focus, !.offsets = @ \ {next}])]
            /\ UNCHANGED <<pc, memo, result>>
        BY <1>2, <1>4, <1>9, <2>1, <2>3, <2>5, <3>1 DEF Antecedents
      <4> QED
        BY <4>1, <4>2
    <3>13. Moves(r, "antecedents", None, writes[r], other, known, result[r], plans)
      BY <1>1, <1>3, <1>7, <3>12, RequestTypes DEF Moves
    <3>14. "antecedents" \in Replaying
      BY DEF Replaying
    <3> QED
      BY <1>1, <1>6, <1>7, <3>11, <3>13, <3>14, ReplayGoesOn
  <2>6. CASE Recalled(r, target) = {}
    <3>1. \A e \in DOMAIN known : known[e].end # target
      BY <1>3, <2>6 DEF Recalled, ToSet
    <3>2. PICK other : other = Append(stack, Frame(target))
      OBVIOUS
    <3>3. other \in Seq(Calls) /\ Stacked(r, "planning", other, known, plans)
      <4>1. "antecedents" \in Replaying
        BY DEF Replaying
      <4>2. Stacked(r, "antecedents", stack, known, plans)
        BY <1>4, <1>6, <4>1, StackedFacts
      <4>3. target \in 1 .. Last(stack).end - 1
        BY <1>4, <2>4
      <4> QED
        BY <3>1, <3>2, <4>2, <4>3, Pushed
    <3>4. /\ frames' = [frames EXCEPT ![r] = other]
          /\ pc' = [pc EXCEPT ![r] = "planning"] /\ UNCHANGED <<memo, result>>
      BY <1>2, <1>4, <1>9, <2>1, <2>3, <2>6, <3>2 DEF Antecedents
    <3>5. Moves(r, "planning", None, writes[r], other, known, result[r], plans)
      BY <1>1, <1>3, <1>7, <3>4, RequestTypes DEF Moves
    <3>6. "planning" \in Replaying
      BY DEF Replaying
    <3> QED
      BY <1>1, <1>6, <1>7, <3>3, <3>5, <3>6, ReplayGoesOn
  <2> QED
    BY <2>5, <2>6
<1> QED
  BY <1>8, <1>9

LEMMA StepAnswer ==
    ASSUME Inv, NEW r \in Requests, pc[r] = "planning", NEW plan \in Plans,
           Answer(r, plan), UNCHANGED <<states, own, writes>>
    PROVE  Inv'
  BY StepAnswerInSession, StepAnswerInReplay

LEMMA StepInv ==
    ASSUME Inv, [Next]_vars
    PROVE  Inv'
<1>1. CASE UNCHANGED vars
  BY <1>1, StepRetry DEF vars
<1>2. ASSUME NEW r \in Requests, Arrive(r) PROVE Inv'
  BY <1>2, StepArrive
<1>3. ASSUME NEW r \in Requests, Interrupt(r) PROVE Inv'
  BY <1>3, StepInterrupt
<1>4. ASSUME NEW r \in Requests, Acquire(r) PROVE Inv'
  BY <1>4, StepAcquire
<1>5. ASSUME NEW r \in Requests, Antecedents(r) PROVE Inv'
  BY <1>5, StepAntecedents
<1>6. ASSUME NEW r \in Requests, Mutate(r) PROVE Inv'
  BY <1>6, StepMutate
<1>7. ASSUME NEW r \in Requests, Chat(r) PROVE Inv'
  BY <1>7, StepChat
<1>8. ASSUME NEW r \in Requests, PlannerFails(r) PROVE Inv'
  <2>1. Failure \in Plans
    BY DEF Failure, Plans, Kinds
  <2>2. pc[r] = "planning" /\ UNCHANGED <<states, own, writes>>
    BY <1>8 DEF PlannerFails
  <2>3. CASE Answer(r, Failure)
    BY <2>1, <2>2, <2>3, StepAnswer
  <2>4. CASE UNCHANGED <<conv, pc, frames, memo, result, asked, log>>
    BY <2>2, <2>4, StepRetry
  <2> QED
    BY <1>8, <2>3, <2>4 DEF PlannerFails
<1>9. ASSUME NEW r \in Requests, pc[r] = "planning",
             NEW p \in PlansFor[Sent[r][Position(r)]], PlannerReplies(r, p)
      PROVE  Inv'
  <2>1. Position(r) \in DOMAIN Sent[r]
    <3>1. CASE own[r] # None
      BY <3>1, BoundsAssumption, EmptySeq DEF Position, InSession
    <3>2. CASE own[r] = None
      <4>1. Base(r) + Last(frames[r]).end \in DOMAIN Sent[r]
        BY <1>9, <3>2, TopFacts DEF Replaying
      <4> QED
        BY <3>2, <4>1 DEF Position, InSession, Base
    <3> QED
      BY <3>1, <3>2
  <2>2. Sent[r][Position(r)] \in Utterances
    BY <2>1, BoundsAssumption, ElementOfSeq
  <2>3. p \in Plans
    BY <1>9, <2>2, BoundsAssumption
  <2> QED
    BY <1>9, <2>3, StepAnswer DEF PlannerReplies
<1> QED
  BY <1>1, <1>2, <1>3, <1>4, <1>5, <1>6, <1>7, <1>8, <1>9 DEF Next, Serve

----------------------------------------------------------------------------
(* What the invariant says of the properties. *)

LEMMA InvStays ==
    ASSUME Inv
    PROVE  UsedConversationsStay
<1>1. None \notin Requests
  BY BoundsAssumption
<1>2. Len(states) <= Maximum
  BY DEF Inv, Tabled
<1>3. ASSUME NEW r \in Requests, own[r] # None, pc[r] \in Using
      PROVE  Held(KeyOf[r]) = {own[r]}
  <2>1. conv[own[r]].key = KeyOf[r] /\ \E i \in DOMAIN states : states[i] = own[r]
    BY <1>3 DEF Inv, Owned, Tabled
  <2>2. \A i, j \in DOMAIN states : conv[states[i]].key = conv[states[j]].key => i = j
    BY DEF Inv, Tabled
  <2>3. Held(KeyOf[r]) = {c \in {states[i] : i \in DOMAIN states} : conv[c].key = KeyOf[r]}
    BY DEF Held, ToSet
  <2> QED
    BY <2>1, <2>2, <2>3
<1>4. \A c \in Requests : conv[c].users = Cardinality(UsersOf(c))
  BY DEF Inv, Tabled
<1> QED
  BY <1>2, <1>3, <1>4 DEF UsedConversationsStay, InSession, Using, UsersOf

LEMMA InvWrites ==
    ASSUME Inv
    PROVE  WritesAreAskedFor
<1> SUFFICES ASSUME NEW r \in Requests, NEW plan, plan = LastPlan(r, asked[r])
             PROVE  /\ writes[r] <= IF plan.kind = "mutation" THEN 1 ELSE 0
                    /\ pc[r] = "done" /\ plan.kind = "mutation" => writes[r] = 1
  BY DEF WritesAreAskedFor, LastPlan
<1>1. Written(pc[r], writes[r], plan)
  BY RequestTypes
<1> QED
  BY <1>1 DEF Written

LEMMA InvTurns ==
    ASSUME Inv
    PROVE  TurnsReferBack
<1> SUFFICES ASSUME NEW c \in Requests, NEW i \in DOMAIN log[c]
             PROVE  /\ KeyOf[log[c][i].by] = conv[c].key
                    /\ log[c][i].focus =
                         Meaning(Last(Sent[log[c][i].by]),
                                 LastPlan(log[c][i].by, asked[log[c][i].by]),
                                 [j \in 1 .. i - 1 |-> log[c][j].focus], i)
  BY Zenon DEF TurnsReferBack, LastPlan, Meaning
<1>0. SUFFICES ASSUME NEW turn, turn = log[c][i],
                      NEW plan, plan = LastPlan(turn.by, asked[turn.by]),
                      NEW before, before = [j \in 1 .. i - 1 |-> log[c][j].focus],
                      NEW u, u = Last(Sent[turn.by])
               PROVE  /\ KeyOf[turn.by] = conv[c].key
                      /\ turn.focus = Meaning(u, plan, before, i)
  OBVIOUS
<1>1. /\ log[c] \in Seq(Turns) /\ turn.by \in Requests
      /\ TurnOf(c, turn.by, turn.focus, FociOf(log[c]), i)
  BY <1>0, TypesOfLog DEF Inv, Logged
<1>2. PICK r \in Requests : r = turn.by
  BY <1>1
<1>3. KeyOf[r] = conv[c].key
  <2>1. own[r] = c /\ c # None /\ Owned(r)
    BY <1>1, <1>2, BoundsAssumption DEF TurnOf, Inv
  <2> QED
    BY <2>1 DEF Owned
<1>4. plan \in Plans /\ plan.offsets \subseteq 1 .. MaxTurns /\ MaxTurns \in Nat
  <2>1. \A k \in DOMAIN Sent[r] : asked[r][k] \in Plans
    BY <1>2, RequestTypes DEF Typed
  <2>2. Len(Sent[r]) \in DOMAIN Sent[r]
    BY BoundsAssumption, EmptySeq
  <2>3. plan \in Plans
    BY <1>0, <1>2, <2>1, <2>2 DEF LastPlan
  <2> QED
    BY <2>3, BoundsAssumption DEF Plans
<1>5. DOMAIN log[c] = 1 .. Len(log[c]) /\ Len(log[c]) \in Nat /\ i \in 1 .. Len(log[c])
  BY <1>1
<1>6. PICK foci : foci = FociOf(log[c])
  OBVIOUS
<1>7. \A o \in plan.offsets : o < i => foci[i - o] = before[i - o]
  <2> SUFFICES ASSUME NEW o \in plan.offsets, o < i PROVE foci[i - o] = before[i - o]
    OBVIOUS
  <2>1. i - o \in 1 .. i - 1 /\ i - o \in 1 .. Len(log[c])
    BY <1>4, <1>5
  <2> QED
    BY <1>0, <1>5, <1>6, <2>1 DEF FociOf
<1>8. turn.focus = Meaning(u, plan, before, i)
  <2>1. turn.focus = Meaning(u, plan, foci, i)
    BY <1>0, <1>1, <1>6 DEF TurnOf
  <2> QED
    BY <1>7, <2>1, MeaningSame
<1> QED
  BY <1>2, <1>3, <1>8

LEMMA InvHolds == Spec => []Inv
<1> QED
  BY InitInv, StepInv, PTL DEF Spec

----------------------------------------------------------------------------
(* A turn of a conversation (facts.answer_request under the conversation's *)
(* lock) is answered with the foci of the turns before it, interrupted     *)
(* turns included, although the service keeps only the last of them.       *)
THEOREM TurnsMean == Spec => []TurnsReferBack
<1>1. Inv => TurnsReferBack
  BY InvTurns
<1> QED
  BY <1>1, InvHolds, PTL

(* The conversation a request waits for or is planned in is in the table   *)
(* and the only one of its key, and its count of users is right, so that   *)
(* eviction (_state_for) spares it while it is used and may take it later. *)
THEOREM UsedStay == Spec => []UsedConversationsStay
<1>1. Inv => UsedConversationsStay
  BY InvStays
<1> QED
  BY <1>1, InvHolds, PTL

(* A replay never writes; a write is made for the request's own utterance, *)
(* at most once, and has been made when a request that planned it is done. *)
THEOREM OnlyAskedWrites == Spec => []WritesAreAskedFor
<1>1. Inv => WritesAreAskedFor
  BY InvWrites
<1> QED
  BY <1>1, InvHolds, PTL

----------------------------------------------------------------------------
(* A replay means what its turns mean in order. *)

(* The focus of message i, given those of the messages from the first on.  *)
Follows(r, plans, first, foci, i) ==
  IF /\ plans[i].kind = "fact" /\ plans[i].found
     /\ \A o \in plans[i].offsets : i - o >= first /\ foci[i - o] # {}
  THEN {Sent[r][i]} \cup UNION {foci[i - o] : o \in plans[i].offsets}
  ELSE {}

Ordered(r, plans, first, n, foci) ==
  foci = [i \in first .. n |-> Follows(r, plans, first, foci, i)]

LEMMA FollowsSame ==
    ASSUME NEW r, NEW plans, NEW first \in Int, NEW i \in Int,
           plans[i].offsets \subseteq Nat \ {0}, NEW foci, NEW others,
           \A k \in first .. i - 1 : foci[k] = others[k]
    PROVE  Follows(r, plans, first, foci, i) = Follows(r, plans, first, others, i)
<1>1. \A o \in plans[i].offsets : i - o >= first => foci[i - o] = others[i - o]
  OBVIOUS
<1>2. CASE \A o \in plans[i].offsets : i - o >= first
  <2>1. \A o \in plans[i].offsets : foci[i - o] = others[i - o]
    BY <1>1, <1>2
  <2>2. {foci[i - o] : o \in plans[i].offsets} = {others[i - o] : o \in plans[i].offsets}
    BY <2>1
  <2>3. (\A o \in plans[i].offsets : i - o >= first /\ foci[i - o] # {})
          <=> \A o \in plans[i].offsets : i - o >= first /\ others[i - o] # {}
    BY <2>1
  <2> QED
    BY <2>2, <2>3 DEF Follows
<1>3. CASE ~ \A o \in plans[i].offsets : i - o >= first
  BY <1>3 DEF Follows
<1> QED
  BY <1>2, <1>3

(* The foci of the messages in order exist, message by message. *)
LEMMA OrderExists ==
    ASSUME NEW r, NEW plans, NEW first \in Int, NEW n \in Nat,
           \A i \in first .. first + n - 1 : plans[i].offsets \subseteq Nat \ {0}
    PROVE  \E foci : Ordered(r, plans, first, first + n - 1, foci)
<1> DEFINE Bad == {m \in 0 .. n : ~ \E foci : Ordered(r, plans, first, first + m - 1, foci)}
<1>1. SUFFICES Bad = {}
  <2>1. n \in 0 .. n
    OBVIOUS
  <2> QED
    BY <1>1, <2>1
<1>2. SUFFICES ASSUME Bad # {} PROVE FALSE
  BY <1>2
<1>3. PICK b : b = Min(Bad)
  OBVIOUS
<1>4. b \in Bad /\ \A m \in Bad : b <= m
  <2>1. Bad \subseteq Nat
    OBVIOUS
  <2> HIDE DEF Bad
  <2> QED
    BY <1>2, <1>3, <2>1, MinFacts
<1>5. b \in 0 .. n /\ ~ \E foci : Ordered(r, plans, first, first + b - 1, foci)
  BY <1>4
<1>6. CASE b = 0
  <2>1. PICK foci : foci = [i \in {} |-> {}]
    OBVIOUS
  <2>2. first .. first + b - 1 = {}
    BY <1>6
  <2>3. Ordered(r, plans, first, first + b - 1, foci)
    BY <2>1, <2>2 DEF Ordered
  <2> QED
    BY <1>5, <2>3
<1>7. CASE b # 0
  <2>1. b - 1 \in 0 .. n /\ ~(b <= b - 1)
    BY <1>5, <1>7
  <2>2. b - 1 \notin Bad
    BY <1>4, <2>1
  <2>3. PICK foci : Ordered(r, plans, first, first + (b - 1) - 1, foci)
    BY <2>1, <2>2
  <2>4. PICK last \in Int : last = first + b - 1
    BY <1>5
  <2>5. first + (b - 1) - 1 = last - 1 /\ first <= last
    BY <1>5, <1>7, <2>4
  <2>6. foci = [i \in first .. last - 1 |-> Follows(r, plans, first, foci, i)]
    BY <2>3, <2>5 DEF Ordered
  <2>7. PICK more : more = [i \in first .. last |-> Follows(r, plans, first, foci, i)]
    OBVIOUS
  <2>8. \A k \in first .. last - 1 : foci[k] = more[k]
    BY <2>4, <2>6, <2>7
  <2>9. \A i \in first .. last :
          Follows(r, plans, first, foci, i) = Follows(r, plans, first, more, i)
    <3> TAKE i \in first .. last
    <3>1. i \in first .. first + n - 1
      BY <1>5, <2>4
    <3>2. plans[i].offsets \subseteq Nat \ {0}
      BY <3>1
    <3>3. \A k \in first .. i - 1 : foci[k] = more[k]
      BY <2>4, <2>8
    <3> QED
      BY <3>2, <3>3, FollowsSame
  <2>10. more = [i \in first .. last |-> Follows(r, plans, first, more, i)]
    BY <2>7, <2>9
  <2> QED
    BY <1>5, <2>4, <2>10 DEF Ordered
<1> QED
  BY <1>6, <1>7

LEMMA InOrderFollows ==
    ASSUME NEW r \in Requests, NEW plans, plans = asked[r],
           DOMAIN plans = DOMAIN Sent[r], \A k \in DOMAIN plans : plans[k] \in Plans,
           NEW first, first = Base(r) + 1, NEW n, n = Len(Sent[r])
    PROVE  \E foci : Ordered(r, plans, first, n, foci) /\ InOrder(r, n) = foci[n]
<1>1. first \in Int /\ n \in Int /\ first = Len(Sent[r]) - Len(Replayed(r)) + 1
      /\ Len(Replayed(r)) \in Nat /\ first + Len(Replayed(r)) - 1 = n /\ first >= 1
      /\ DOMAIN Sent[r] = 1 .. n
  BY ReplayedFacts DEF Base
<1>2. \A i \in first .. n : plans[i].offsets \subseteq Nat \ {0}
  <2> TAKE i \in first .. n
  <2>1. plans[i] \in Plans
    BY <1>1
  <2> QED
    BY <2>1, BoundsAssumption DEF Plans
<1>3. \E foci : Ordered(r, plans, first, n, foci)
  BY <1>1, <1>2, OrderExists
<1>4. PICK chosen : chosen = CHOOSE foci : Ordered(r, plans, first, n, foci)
  OBVIOUS
<1>5. Ordered(r, plans, first, n, chosen)
  BY <1>3, <1>4
<1>6. InOrder(r, n) = (CHOOSE foci : Ordered(r, asked[r], Len(Sent[r]) - Len(Replayed(r)) + 1,
                                             n, foci))[n]
  BY Zenon DEF InOrder, Ordered, Follows
<1>7. InOrder(r, n) = chosen[n]
  BY <1>1, <1>4, <1>6
<1> QED
  BY <1>5, <1>7

(* What is known of a turn is what reading the turns in order gives it.    *)
LEMMA KnownInOrder ==
    ASSUME NEW r \in Requests, NEW known, NEW plans, Known(r, known, plans),
           DOMAIN plans = DOMAIN Sent[r], \A k \in DOMAIN plans : plans[k] \in Plans,
           NEW foci, Ordered(r, plans, Base(r) + 1, Len(Sent[r]), foci),
           NEW i \in 1 .. Len(Replayed(r)), NEW focus, Told(known, i, focus)
    PROVE  focus = foci[Base(r) + i]
<1>1. PICK base \in Nat : base = Base(r)
  BY ReplayedFacts
<1>2. PICK length \in Nat : length = Len(Replayed(r))
  BY ReplayedFacts
<1>3. /\ base + length = Len(Sent[r]) /\ DOMAIN Sent[r] = 1 .. Len(Sent[r])
      /\ \A k \in 1 .. length : Replayed(r)[k] = Sent[r][base + k]
  BY <1>1, <1>2, ReplayedFacts
<1>4. \A k \in 1 .. length : foci[base + k] = Follows(r, plans, base + 1, foci, base + k)
  <2>1. foci = [k \in base + 1 .. base + length |-> Follows(r, plans, base + 1, foci, k)]
    BY <1>1, <1>3 DEF Ordered
  <2>2. \A k \in 1 .. length : base + k \in base + 1 .. base + length
    OBVIOUS
  <2> QED
    BY <2>1, <2>2
<1> DEFINE Bad == {k \in 1 .. length : \E f : Told(known, k, f) /\ f # foci[base + k]}
<1>5. SUFFICES Bad = {}
  BY <1>1, <1>2, <1>5
<1>6. SUFFICES ASSUME Bad # {} PROVE FALSE
  BY <1>6
<1>7. PICK b : b = Min(Bad)
  OBVIOUS
<1>8. b \in Bad /\ \A k \in Bad : b <= k
  <2>1. Bad \subseteq Nat
    OBVIOUS
  <2> HIDE DEF Bad
  <2> QED
    BY <1>6, <1>7, <2>1, MinFacts
<1>9. PICK f : b \in 1 .. length /\ Told(known, b, f) /\ f # foci[base + b]
  BY <1>8
<1>10. \A k \in 1 .. length : k < b => \A g : Told(known, k, g) => g = foci[base + k]
  <2> SUFFICES ASSUME NEW k \in 1 .. length, k < b, NEW g, Told(known, k, g),
                      g # foci[base + k]
               PROVE  FALSE
    OBVIOUS
  <2>1. k \in Bad
    OBVIOUS
  <2>2. b <= k
    BY <1>8, <2>1
  <2> QED
    BY <1>9, <2>2
<1> HIDE DEF Bad
<1>11. PICK plan \in Plans : plan = plans[base + b]
  <2>1. base + b \in DOMAIN Sent[r]
    BY <1>3, <1>9
  <2> QED
    BY <2>1
<1>12. Meant(r, known, b, plan, f)
  <2>1. PICK e \in DOMAIN known : known[e].end = b /\ known[e].res.focus = f
    BY <1>9 DEF Told
  <2> QED
    BY <1>1, <1>11, <2>1 DEF Known
<1>13. PICK others \in Seq(Foci) :
         /\ \A o \in plan.offsets : o < b => Told(known, b - o, others[b - o])
         /\ f = Meaning(Replayed(r)[b], plan, others, b)
  BY <1>12 DEF Meant
<1>14. plan.offsets \subseteq Nat \ {0}
  BY BoundsAssumption DEF Plans
<1>15. \A o \in plan.offsets : o < b => others[b - o] = foci[(base + b) - o]
  <2> SUFFICES ASSUME NEW o \in plan.offsets, o < b
               PROVE  others[b - o] = foci[(base + b) - o]
    OBVIOUS
  <2>1. b - o \in 1 .. length /\ b - o < b /\ base + (b - o) = (base + b) - o
    BY <1>9, <1>14
  <2>2. Told(known, b - o, others[b - o])
    BY <1>13
  <2> QED
    BY <1>10, <2>1, <2>2
<1>16. Meaning(Replayed(r)[b], plan, others, b) = Follows(r, plans, base + 1, foci, base + b)
  <2>1. \A o \in plan.offsets : o < b <=> (base + b) - o >= base + 1
    BY <1>9, <1>14
  <2>2. Replayed(r)[b] = Sent[r][base + b]
    BY <1>3, <1>9
  <2>3. CASE \A o \in plan.offsets : o < b
    <3>1. \A o \in plan.offsets : others[b - o] = foci[(base + b) - o]
      BY <1>15, <2>3
    <3>2. {others[b - o] : o \in plan.offsets} = {foci[(base + b) - o] : o \in plan.offsets}
      BY <3>1
    <3>3. (\A o \in plan.offsets : o < b /\ others[b - o] # {})
            <=> \A o \in plan.offsets : (base + b) - o >= base + 1 /\ foci[(base + b) - o] # {}
      BY <2>1, <3>1
    <3> QED
      BY <1>11, <2>2, <3>2, <3>3 DEF Meaning, Follows
  <2>4. CASE ~ \A o \in plan.offsets : o < b
    BY <1>11, <2>1, <2>4 DEF Meaning, Follows
  <2> QED
    BY <2>3, <2>4
<1> QED
  BY <1>4, <1>9, <1>13, <1>16

LEMMA InvReplay ==
    ASSUME Inv
    PROVE  ReplayIsInOrder
<1> SUFFICES ASSUME NEW r \in Requests, pc[r] = "done", own[r] = None
             PROVE  /\ result[r].focus = InOrder(r, Len(Sent[r]))
                    /\ \A e, f \in DOMAIN memo[r] : memo[r][e].end = memo[r][f].end => e = f
  BY DEF ReplayIsInOrder, InSession
<1>1. /\ Typed(r, pc[r], own[r], writes[r], frames[r], memo[r], result[r], asked[r])
      /\ Replays(r, pc[r], frames[r], memo[r], result[r], asked[r])
  BY RequestTypes
<1>2. Known(r, memo[r], asked[r]) /\ Told(memo[r], Len(Replayed(r)), result[r].focus)
  BY <1>1 DEF Replays, Over
<1>3. PICK plans : plans = asked[r]
  OBVIOUS
<1>4. DOMAIN plans = DOMAIN Sent[r] /\ \A k \in DOMAIN plans : plans[k] \in Plans
  BY <1>1, <1>3 DEF Typed
<1>5. PICK n : n = Len(Sent[r])
  OBVIOUS
<1>6. PICK first : first = Base(r) + 1
  OBVIOUS
<1>7. PICK foci : Ordered(r, plans, first, n, foci) /\ InOrder(r, n) = foci[n]
  BY <1>3, <1>4, <1>5, <1>6, InOrderFollows
<1>8. PICK last : last = Len(Replayed(r))
  OBVIOUS
<1>9. last \in 1 .. Len(Replayed(r)) /\ Base(r) + last = n
  BY <1>5, <1>8, ReplayedFacts
<1>10. PICK known : known = memo[r]
  OBVIOUS
<1>11. PICK focus : focus = result[r].focus
  OBVIOUS
<1>12. /\ Known(r, known, plans) /\ Told(known, last, focus)
       /\ Ordered(r, plans, Base(r) + 1, Len(Sent[r]), foci)
  BY <1>2, <1>3, <1>5, <1>6, <1>7, <1>8, <1>10, <1>11
<1>13. focus = foci[Base(r) + last]
  BY <1>4, <1>9, <1>12, KnownInOrder
<1>14. result[r].focus = InOrder(r, Len(Sent[r]))
  BY <1>5, <1>7, <1>9, <1>11, <1>13
<1> QED
  BY <1>2, <1>14 DEF Known

(* A replay (_answer_prefix) answers its last turn as it would be answered *)
(* after all the turns before it, taken in order, although it looks back   *)
(* only as far as the plans refer, and plans no turn twice.                *)
THEOREM ReplayMeansOrder == Spec => []ReplayIsInOrder
<1>1. Inv => ReplayIsInOrder
  BY InvReplay
<1> QED
  BY <1>1, InvHolds, PTL

=============================================================================
