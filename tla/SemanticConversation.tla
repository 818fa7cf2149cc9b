------------------------ MODULE SemanticConversation ------------------------
(***************************************************************************)
(* One turn of a conversation, from the request to the write or the answer *)
(* it leads to (runtime/agent.py, semantic/conversation.py, facts.py,      *)
(* planner.py and unified_planner.py).                                     *)
(*                                                                         *)
(* A request of a conversation enters the table of conversations, waits    *)
(* for its lock, has its utterance planned with the utterances before it,  *)
(* and is answered with what the turns before it were about (their focus). *)
(* A request without a conversation, or one that finds the table full of   *)
(* conversations in use, is interpreted from its own messages: earlier     *)
(* turns are planned again, only as far as the plan refers back to them.   *)
(*                                                                         *)
(* What the model plans for an utterance is [kind, offsets, found]: the    *)
(* turns it refers to, counted backwards, and whether the household's      *)
(* facts answer it once these are known.  A focus is the set of utterances *)
(* it stems from, so that a wrong antecedent shows.                        *)
(***************************************************************************)
EXTENDS Integers, Sequences, FiniteSets, FiniteSetsExt, SequencesExt

CONSTANTS
  Requests,        \* requests, each naming the utterance it brings
  KeyOf,           \* the conversation of a request, None without one
  Sent,            \* the user messages of a request, the last its own
  PlansFor,        \* plans the model may give an utterance
  None,
  Maximum,         \* the bound on conversations in the table
  MaxTurns,        \* MAX_DISCOURSE_TURNS
  Attempts,        \* attempts of the planner at one utterance
  Scenarios        \* the sets of requests that arrive in one behaviour

Utterances == DOMAIN PlansFor
Kinds == {"none", "failed", "fact", "mutation", "chat"}
Plans == [kind : Kinds, offsets : SUBSET (1 .. MaxTurns), found : BOOLEAN]

ASSUME BoundsAssumption ==
  /\ Maximum \in Nat \ {0} /\ MaxTurns \in Nat \ {0} /\ Attempts \in Nat \ {0}
  /\ IsFiniteSet(Requests) /\ None \notin Requests
  /\ \A r \in Requests : Sent[r] \in Seq(Utterances) /\ Sent[r] # <<>>
  /\ \A u \in Utterances : PlansFor[u] \subseteq Plans

VARIABLES
  states,          \* the table: conversations by creator, oldest use first
  conv,            \* every conversation object ever made, by its creator
  pc,              \* where each request is
  own,             \* the conversation object a request uses
  frames,          \* the calls under way, innermost last
  memo,            \* replay: turns planned, and how each was answered
  attempt,         \* the planner's attempt at the current utterance
  result,          \* what try_answer gave: kind and focus
  writes,          \* ghost: writes executed for a request
  asked,           \* ghost: the plan made of each message of a request
  log              \* ghost: the turns of each conversation object

vars == <<states, conv, pc, own, frames, memo, attempt, result, writes, asked, log>>

Keys == {KeyOf[r] : r \in Requests} \ {None}
NoResult == [kind |-> "none", focus |-> {}]
NoPlan == [kind |-> "none", offsets |-> {}, found |-> FALSE]
Failure == [kind |-> "failed", offsets |-> {}, found |-> FALSE]

(* The last n of a sequence (Python's s[-n:]). *)
LastOf(s, n) == IF Len(s) <= n THEN s ELSE SubSeq(s, Len(s) - n + 1, Len(s))

(* users[-(MAX_DISCOURSE_TURNS + 1):], or the last message alone. *)
Replayed(r) == LastOf(Sent[r], IF KeyOf[r] = None THEN MaxTurns + 1 ELSE 1)

Init ==
  /\ states = <<>>
  /\ conv = [r \in Requests |->
               [key |-> None, users |-> 0, holder |-> None, queue |-> <<>>,
                messages |-> <<>>, turns |-> <<>>]]
  /\ \E live \in Scenarios : pc = [r \in Requests |-> IF r \in live THEN "new" ELSE "absent"]
  /\ own = [r \in Requests |-> None]
  /\ frames = [r \in Requests |-> <<>>]
  /\ memo = [r \in Requests |-> <<>>]
  /\ attempt = [r \in Requests |-> 0]
  /\ result = [r \in Requests |-> NoResult]
  /\ writes = [r \in Requests |-> 0]
  /\ asked = [r \in Requests |-> [i \in DOMAIN Sent[r] |-> NoPlan]]
  /\ log = [r \in Requests |-> <<>>]

----------------------------------------------------------------------------
(* The table of conversations. *)

Held(key) == {c \in ToSet(states) : conv[c].key = key}

(* Mutant: a conversation in use is not spared. *)
IdleOrNot == DOMAIN states

Idle == {i \in DOMAIN states : conv[states[i]].users = 0}
Place(c) == CHOOSE i \in DOMAIN states : states[i] = c

(* A call of _answer_prefix: the turn it interprets and what it learned.   *)
Frame(end) == [end |-> end, plan |-> NoPlan, offsets |-> {},
               turns |-> [i \in 1 .. end - 1 |-> {}]]

BeginReplay(r) ==
  /\ frames' = [frames EXCEPT ![r] = <<Frame(Len(Replayed(r)))>>]
  /\ pc' = [pc EXCEPT ![r] = "planning"]
  /\ UNCHANGED <<states, conv, own, log>>

(* The place of the conversation that makes room: the longest unused. *)
Evict == Min(Idle)

(* Conversation c comes last in a table without it. *)
Enter(r, c, table) ==
  /\ states' = Append(table, c)
  /\ conv' = [conv EXCEPT ![c].key = KeyOf[r], ![c].users = @ + 1,
                          ![c].queue = Append(@, r)]
  /\ own' = [own EXCEPT ![r] = c]
  /\ pc' = [pc EXCEPT ![r] = "waiting"]
  /\ UNCHANGED <<frames, log>>

Arrive(r) ==
  /\ pc[r] = "new"
  /\ \/ KeyOf[r] = None /\ BeginReplay(r)
     \/ /\ KeyOf[r] # None
        /\ \/ \E c \in Held(KeyOf[r]) : Enter(r, c, RemoveAt(states, Place(c)))
           \/ Held(KeyOf[r]) = {} /\ Len(states) < Maximum /\ Enter(r, r, states)
           \/ /\ Held(KeyOf[r]) = {} /\ Len(states) >= Maximum
              /\ IF Idle = {} THEN BeginReplay(r) ELSE Enter(r, r, RemoveAt(states, Evict))
  /\ UNCHANGED <<memo, attempt, result, writes, asked>>

(* The lock is handed on in the order it was asked for. *)
Acquire(r) ==
  /\ pc[r] = "waiting"
  /\ LET c == conv[own[r]]
     IN  c.holder = None /\ Head(c.queue) = r
  /\ conv' = [conv EXCEPT ![own[r]].holder = r, ![own[r]].queue = Tail(@)]
  /\ pc' = [pc EXCEPT ![r] = "planning"]
  /\ UNCHANGED <<states, own, frames, memo, attempt, result, writes, asked, log>>

----------------------------------------------------------------------------
(* Planning and answering. *)

InSession(r) == own[r] # None

(* The position, among the request's messages, of the utterance at hand.   *)
Position(r) == IF InSession(r) THEN Len(Sent[r])
               ELSE Len(Sent[r]) - Len(Replayed(r)) + Last(frames[r]).end

(* Mutant: the first of the remembered turns is turn one. *)
AntecedentFromStart(turns, offset) == turns[offset]

(* The focus of the turn this many turns back. *)
Antecedent(turns, offset) == turns[Len(turns) + 1 - offset]

(* facts.answer_request: a plan's answer, given the foci of earlier turns. *)
Answered(utterance, plan, turns) ==
  LET known == \A o \in plan.offsets : o <= Len(turns) /\ Antecedent(turns, o) # {}
  IN  [kind |-> plan.kind,
       focus |-> IF plan.kind = "fact" /\ plan.found /\ known
                 THEN {utterance} \cup UNION {Antecedent(turns, o) : o \in plan.offsets}
                 ELSE {}]

(* What follows try_answer in _prepare_request. *)
After(res) == CASE res.kind = "mutation" -> "mutating"
                [] res.kind = "chat" -> "chatting"
                [] OTHER -> "done"

(* A turn of a conversation ends, normally or not. *)
Record(r, focus) ==
  LET c == own[r]
  IN  /\ conv' = [conv EXCEPT ![c].messages = LastOf(Append(@, Last(Sent[r])), MaxTurns),
                              ![c].turns = LastOf(Append(@, focus), MaxTurns),
                              ![c].holder = None, ![c].users = @ - 1]
      /\ log' = [log EXCEPT ![c] = Append(@, [by |-> r, focus |-> focus])]

(* Mutant: a turn that was interrupted leaves no entry for its focus. *)
RecordInterruptedSkipping(r) ==
  LET c == own[r]
  IN  /\ conv' = [conv EXCEPT ![c].messages = LastOf(Append(@, Last(Sent[r])), MaxTurns),
                              ![c].holder = None, ![c].users = @ - 1]
      /\ log' = [log EXCEPT ![c] = Append(@, [by |-> r, focus |-> {}])]

(* Mutant: the lock stays with an interrupted turn. *)
RecordInterruptedHolding(r) ==
  LET c == own[r]
  IN  /\ conv' = [conv EXCEPT ![c].messages = LastOf(Append(@, Last(Sent[r])), MaxTurns),
                              ![c].turns = LastOf(Append(@, {}), MaxTurns),
                              ![c].users = @ - 1]
      /\ log' = [log EXCEPT ![c] = Append(@, [by |-> r, focus |-> {}])]

RecordInterrupted(r) == Record(r, {})

(* A planned turn of a conversation is answered under its lock. *)
AnswerInSession(r, plan) ==
  LET res == Answered(Last(Sent[r]), plan, conv[own[r]].turns)
  IN  /\ result' = [result EXCEPT ![r] = res]
      /\ pc' = [pc EXCEPT ![r] = After(res)]
      /\ Record(r, res.focus)
      /\ UNCHANGED <<frames, memo>>

(* The innermost call returns res to the call that needed its turn.        *)
Return(r, stack, res) ==
  LET top == Last(stack)
      rest == Front(stack)
      caller == Last(rest)
      noted == [caller EXCEPT !.turns[top.end] = res.focus,
                                !.offsets = @ \ {caller.end - top.end}]
      known == [memo EXCEPT ![r] = Append(@, [end |-> top.end, res |-> res])]
  IN  /\ memo' = known
      /\ IF rest = <<>>
         THEN /\ frames' = [frames EXCEPT ![r] = <<>>]
              /\ result' = [result EXCEPT ![r] = res]
              /\ pc' = [pc EXCEPT ![r] = After(res)]
         ELSE /\ frames' = [frames EXCEPT ![r] = Append(Front(rest), noted)]
              /\ pc' = [pc EXCEPT ![r] = "antecedents"]
              /\ UNCHANGED result

(* A planned turn of a replay: the turns it refers to come first.          *)
AnswerInReplay(r, plan) ==
  LET top == Last(frames[r])
      needed == {o \in plan.offsets : o < top.end}
      utterance == Replayed(r)[top.end]
  IN  /\ IF plan.offsets = {}
         THEN Return(r, frames[r], Answered(utterance, plan, top.turns))
         ELSE /\ frames' = [frames EXCEPT ![r] =
                   Append(Front(@), [top EXCEPT !.plan = plan, !.offsets = needed])]
              /\ pc' = [pc EXCEPT ![r] = "antecedents"]
              /\ UNCHANGED <<result, memo>>
      /\ UNCHANGED <<conv, log>>

Answer(r, plan) ==
  /\ attempt' = [attempt EXCEPT ![r] = 0]
  /\ asked' = [asked EXCEPT ![r][Position(r)] = plan]
  /\ IF InSession(r) THEN AnswerInSession(r, plan) ELSE AnswerInReplay(r, plan)

(* Mutant: a planned write is executed where it is planned. *)
PlannerRepliesWriting(r, plan) ==
  /\ pc[r] = "planning"
  /\ Answer(r, plan)
  /\ writes' = [writes EXCEPT ![r] = IF plan.kind = "mutation" THEN @ + 1 ELSE @]
  /\ UNCHANGED <<states, own>>

(* The planner's answer passes validation. *)
PlannerReplies(r, plan) ==
  /\ pc[r] = "planning"
  /\ Answer(r, plan)
  /\ UNCHANGED <<states, own, writes>>

(* An attempt fails or does not validate, and is repeated; after the last, *)
(* or an error the planner does not catch, the turn is answered as         *)
(* unsupported.                                                            *)
PlannerFails(r) ==
  /\ pc[r] = "planning"
  /\ \/ /\ attempt[r] + 1 < Attempts
        /\ attempt' = [attempt EXCEPT ![r] = @ + 1]
        /\ UNCHANGED <<conv, pc, frames, memo, result, asked, log>>
     \/ Answer(r, Failure)
  /\ UNCHANGED <<states, own, writes>>

(* Mutant: a turn that was planned is planned again. *)
RecalledNever(r, end) == {}

Recalled(r, end) == {e \in ToSet(memo[r]) : e.end = end}

(* The loop over the offsets of a plan in _answer_prefix. *)
Antecedents(r) ==
  LET top == Last(frames[r])
      next == Min(top.offsets)
      target == top.end - next
      noted(f) == [top EXCEPT !.turns[target] = f, !.offsets = @ \ {next}]
  IN  /\ pc[r] = "antecedents"
      /\ IF top.offsets = {}
         THEN Return(r, frames[r],
                     Answered(Replayed(r)[top.end], top.plan, LastOf(top.turns, MaxTurns)))
         ELSE IF Recalled(r, target) # {}
         THEN /\ frames' = [frames EXCEPT ![r] = Append(Front(@),
                   noted((CHOOSE e \in Recalled(r, target) : TRUE).res.focus))]
              /\ UNCHANGED <<pc, memo, result>>
         ELSE /\ frames' = [frames EXCEPT ![r] = Append(@, Frame(target))]
              /\ pc' = [pc EXCEPT ![r] = "planning"]
              /\ UNCHANGED <<memo, result>>
      /\ UNCHANGED <<states, conv, own, attempt, writes, asked, log>>

----------------------------------------------------------------------------
(* The end of a request. *)

(* The planned write is executed, once, for the request itself. *)
Mutate(r) ==
  /\ pc[r] = "mutating"
  /\ writes' = [writes EXCEPT ![r] = @ + 1]
  /\ pc' = [pc EXCEPT ![r] = "done"]
  /\ UNCHANGED <<states, conv, own, frames, memo, attempt, result, asked, log>>

(* Ordinary conversation is the model loop's (ModelLoop). *)
Chat(r) ==
  /\ pc[r] = "chatting"
  /\ pc' = [pc EXCEPT ![r] = "done"]
  /\ UNCHANGED <<states, conv, own, frames, memo, attempt, result, writes, asked, log>>

(* The request is cancelled, or the engine raises.  One that waits leaves  *)
(* the queue; one that holds the lock records an empty focus.              *)
Interrupt(r) ==
  /\ pc[r] \in {"waiting", "planning", "antecedents", "mutating", "chatting"}
  /\ CASE pc[r] = "waiting" ->
            /\ conv' = [conv EXCEPT ![own[r]].users = @ - 1,
                          ![own[r]].queue = SelectSeq(@, LAMBDA q : q # r)]
            /\ UNCHANGED log
       [] pc[r] = "planning" /\ InSession(r) -> RecordInterrupted(r)
       [] OTHER -> UNCHANGED <<conv, log>>
  /\ pc' = [pc EXCEPT ![r] = "interrupted"]
  /\ frames' = [frames EXCEPT ![r] = <<>>]
  /\ UNCHANGED <<states, own, memo, attempt, result, writes, asked>>

Ended(r) == pc[r] \in {"done", "interrupted"}

Serve(r) ==
  \/ Acquire(r) \/ Antecedents(r) \/ Mutate(r) \/ Chat(r) \/ PlannerFails(r)
  \/ pc[r] = "planning" /\ \E p \in PlansFor[Sent[r][Position(r)]] : PlannerReplies(r, p)

Next == \E r \in Requests : Arrive(r) \/ Serve(r) \/ Interrupt(r)

(* Every await of a request ends: the model's calls have timeouts, and the *)
(* lock is handed on.                                                      *)
Fairness == \A r \in Requests : WF_vars(Serve(r))

Spec == Init /\ [][Next]_vars /\ Fairness

----------------------------------------------------------------------------
(* Properties. *)

(* Each turn of a conversation is answered with the foci of the turns      *)
(* before it, whatever was interrupted, waited or failed in between and    *)
(* however many turns the service still remembers; an interrupted, failed  *)
(* or non-fact turn counts as a turn and has no focus.                     *)
TurnsReferBack ==
  \A c \in Requests : \A i \in DOMAIN log[c] :
    LET turn == log[c][i]
        plan == asked[turn.by][Len(Sent[turn.by])]
        before == [j \in 1 .. i - 1 |-> log[c][j].focus]
        known == \A o \in plan.offsets : o < i /\ before[i - o] # {}
    IN  /\ KeyOf[turn.by] = conv[c].key
        /\ turn.focus = IF plan.kind = "fact" /\ plan.found /\ known
                        THEN {Last(Sent[turn.by])} \cup UNION {before[i - o] : o \in plan.offsets}
                        ELSE {}

(* A conversation in use stays in the table and stays the only one of its  *)
(* key, so that no turn is lost to a second copy; the table keeps its      *)
(* bound, and a conversation nobody uses can be evicted.                   *)
UsedConversationsStay ==
  /\ Len(states) <= Maximum
  /\ \A r \in Requests :
       InSession(r) /\ pc[r] \in {"waiting", "planning"} => Held(KeyOf[r]) = {own[r]}
  /\ \A c \in Requests :
       conv[c].users = Cardinality({r \in Requests :
                          own[r] = c /\ pc[r] \in {"waiting", "planning"}})

(* What the plans of a request's messages mean, read in order. *)
InOrder(r, n) ==
  LET first == Len(Sent[r]) - Len(Replayed(r)) + 1
      focus[i \in first .. n] ==
        LET plan == asked[r][i]
        IN  IF /\ plan.kind = "fact" /\ plan.found
               /\ \A o \in plan.offsets : i - o >= first /\ focus[i - o] # {}
            THEN {Sent[r][i]} \cup UNION {focus[i - o] : o \in plan.offsets}
            ELSE {}
  IN  focus[n]

(* A replay gives the answer that answering its turns in order would give, *)
(* although it starts from the last and plans no turn twice.               *)
ReplayIsInOrder ==
  \A r \in Requests : pc[r] = "done" /\ ~InSession(r) =>
    /\ result[r].focus = InOrder(r, Len(Sent[r]))
    /\ \A e, f \in DOMAIN memo[r] : memo[r][e].end = memo[r][f].end => e = f

(* "discourse replay must never execute writes" (semantic/facts.py): a     *)
(* write belongs to the request's own utterance and happens at most once;  *)
(* a request that ends normally after planning one has executed it.        *)
WritesAreAskedFor ==
  \A r \in Requests :
    LET plan == asked[r][Len(Sent[r])]
        wanted == plan.kind = "mutation"
    IN  /\ writes[r] <= IF wanted THEN 1 ELSE 0
        /\ pc[r] = "done" /\ wanted => writes[r] = 1

(* Every request that arrived ends: no lock stays with a request that was  *)
(* interrupted, failed or is done.                                         *)
RequestsEnd == \A r \in Requests : pc[r] \in {"waiting", "planning"} ~> Ended(r)
============================================================================
