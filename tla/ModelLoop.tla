----------------------------- MODULE ModelLoop -----------------------------
(* One answer of the bounded tool-calling loop (runtime/model_loop.py), with *)
(* the model provider it asks (providers/*.py), the tool dispatcher it calls *)
(* (capabilities/dispatcher.py) and the SSE response that carries the answer *)
(* (api/sse.py).                                                             *)
(* The model is the environment: in every step it streams text and tool      *)
(* calls of its choice, fails, or ends the step; the reader may disconnect.  *)
EXTENDS DisplayText, FiniteSets, FiniteSetsExt, Integers

CONSTANTS MaxSteps, MaxCalls,        \* max_steps, max_tool_calls_per_step
          MaxRecords, MaxBytes,      \* max_tool_records, max_tool_result_bytes
          ToolNames,                 \* names a model may call
          Public,                    \* tools the agent's dispatcher allows
          Limits,                    \* values a model may give for "limit"
          LimitMaximum,              \* "maximum" in the tool's schema
          NameBytes,                 \* size of a tool's name in a result
          ItemBytes,                 \* possible sizes of one record
          MaxItems,                  \* bound: records a tool finds
          Alphabet,
          MaxText, MaxLaterText      \* bounds: text of the first and of later steps

NoLimit == -1

ASSUME LoopAssumption ==
  /\ MaxSteps \in Nat \ {0} /\ MaxCalls \in Nat \ {0}
  /\ MaxRecords \in Nat \ {0} /\ MaxBytes \in Nat \ {0}
  /\ Public \subseteq ToolNames /\ IsFiniteSet(ToolNames)
  /\ {"calendar.list_events", "write_item"} \subseteq ToolNames
  /\ NameBytes \in [ToolNames -> Nat] /\ ItemBytes \subseteq Nat /\ MaxItems \in Nat
  /\ Limits \subseteq Int /\ NoLimit \in Limits /\ LimitMaximum \in Nat

VARIABLES
  mode,          \* "stream", "openai" (stream assembled from deltas) or "run"
  at, step,
  calls,         \* tool calls of the current step, [tool, limit]
  fragments,     \* tool_fragments of the OpenAI-compatible transport
  done,          \* how many of the step's calls have been answered
  conversation,  \* assistant and tool messages added by the loop
  failure,       \* _LoopState.failure_reason
  total,         \* _LoopState.total_tool_calls
  payload,       \* the tool result serialized last
  raw,           \* text received in this step
  pending,       \* held by the DisplayTextStream
  held, resolved,\* held by the _SelfVocativeStream, and whether it is settled
  out,           \* text yielded to the reader
  stop,          \* how the answer ended, "none" while it has not
  frame,         \* the last SSE frames sent: "role", "content", "stop", "error"
  codes,         \* ghost: how tools failed, "tool_timeout" and "failed"
  ran            \* ghost: tools whose handler was started

loopVars == <<mode, at, step, calls, fragments, done, conversation, failure, total,
          payload, raw, pending, held, resolved, out, stop, frame, codes, ran>>

text == <<raw, pending, held, resolved>>

None == "none"
Undo == [tool |-> None, n |-> 0, available |-> 0, complete |-> TRUE,
         truncated |-> FALSE, bytes |-> 0, listed |-> FALSE]

\* AgentService never offers write_item to the loop.
Offered == Public \ {"write_item"}
GraphOperations == {"resolve_entity_alias", "get_entity", "get_relationships"}
CalendarTools == {"calendar.list_events", "calendar.check_availability"}

----------------------------------------------------------------------------
(* Arguments: a missing limit becomes the loop's own, one within the tool's  *)
(* maximum is lowered to it, any other is left for validation to refuse.     *)
BoundedArguments(call) ==
  IF call.tool # "calendar.list_events" THEN call.limit
  ELSE IF call.limit = NoLimit THEN MaxRecords
  ELSE IF call.limit <= LimitMaximum THEN Min({call.limit, MaxRecords})
  ELSE call.limit

\* ListEventsArguments: 1 <= limit <= 100.
ValidArguments(tool, limit) ==
  tool = "calendar.list_events" => limit \in 1..LimitMaximum

Error(code) == [ok |-> FALSE, code |-> code, listed |-> FALSE, items |-> 0,
                weight |-> 0, complete |-> TRUE]
Found(n, w, complete) == [ok |-> TRUE, code |-> "ok", listed |-> TRUE,
                          items |-> n, weight |-> w, complete |-> complete]
Scalar == [ok |-> TRUE, code |-> "ok", listed |-> FALSE, items |-> 0,
           weight |-> 0, complete |-> TRUE]

(* What a started handler may answer: the exceptions ToolDispatcher._dispatch *)
(* turns into error codes, or the tool's result.                             *)
HandlerResults(tool, limit) ==
  {Error("tool_execution_failed"), Error("invalid_arguments")} \cup
  CASE tool = "calculate" -> {Error("calculation_error"), Scalar}
    [] tool \in CalendarTools ->
         {Error("unauthorized"), Error("calendar_unavailable")} \cup
         {Found(n, w, c) :
            n \in 0..(IF limit = NoLimit THEN MaxItems ELSE Min({limit, MaxItems})),
            w \in ItemBytes, c \in BOOLEAN}
    [] OTHER -> {Scalar}

(* ToolDispatcher.dispatch: graph operations are internal, any other tool    *)
(* must be in the agent's allowlist, and arguments are validated first.      *)
DispatchResults(tool, limit) ==
  IF tool \notin Public \ GraphOperations
  THEN {[ran |-> FALSE, result |-> Error("unknown_tool")]}
  ELSE IF ~ValidArguments(tool, limit)
  THEN {[ran |-> FALSE, result |-> Error("invalid_arguments")]}
  ELSE {[ran |-> TRUE, result |-> r] : r \in HandlerResults(tool, limit)}

(* ModelLoop._dispatch: a native call never mutates, and a call that takes   *)
(* longer than the tool timeout is abandoned.                                *)
LoopDispatch(tool, limit) ==
  IF tool = "write_item" THEN {[ran |-> FALSE, result |-> Error("unknown_tool")]}
  ELSE DispatchResults(tool, limit) \cup
       {[ran |-> TRUE, result |-> Error("tool_timeout")] : d \in
          {d \in DispatchResults(tool, limit) : d.ran}}

\* Mutant: a later failure replaces a timeout.
LastFailureReason(result, current) ==
  IF result.ok THEN current
  ELSE IF result.code = "tool_timeout" THEN "timeout" ELSE "tool_error"

(* _tool_failure_reason: a timeout stays the reason whatever follows it.     *)
ToolFailureReason(result, current) ==
  IF result.ok THEN current
  ELSE IF result.code = "tool_timeout" \/ current = "timeout" THEN "timeout"
  ELSE "tool_error"

----------------------------------------------------------------------------
(* Serialization: at most MaxRecords records, then as many as fit in         *)
(* MaxBytes, then an error that says the result was too large.               *)
Message(tool, result, n) ==
  [tool |-> tool, n |-> n, available |-> result.items, listed |-> result.listed,
   complete |-> result.complete /\ n = result.items,
   truncated |-> n < result.items,
   bytes |-> 1 + n * result.weight + (IF result.ok THEN 0 ELSE NameBytes[tool])]

TooLarge(tool, bytes) == [Undo EXCEPT !.tool = tool, !.complete = FALSE, !.bytes = bytes]

SerializeToolResult(tool, result) ==
  LET first == Message(tool, result,
                 IF result.listed THEN Min({result.items, MaxRecords}) ELSE 0)
      smaller == {n \in 0..(first.n - 1) :
                    result.listed /\ Message(tool, result, n).bytes <= MaxBytes}
  IN IF first.bytes <= MaxBytes THEN first
     ELSE IF smaller # {} THEN Message(tool, result, Max(smaller))
     ELSE IF 1 + NameBytes[tool] <= MaxBytes THEN TooLarge(tool, 1 + NameBytes[tool])
     ELSE TooLarge(tool, 1)

(* _openai_messages: the id a tool result is sent with is the next unused id  *)
(* of the last assistant message with calls, or one made of its own position. *)
ToolCallId(messages, i) ==
  LET callers == {j \in 1..(i - 1) : /\ messages[j].role = "assistant"
                                     /\ messages[j].tools # << >>}
      caller == Max(callers)
      used == Cardinality({j \in (caller + 1)..(i - 1) : messages[j].role = "tool"})
  IN IF callers # {} /\ used < Len(messages[caller].tools)
     THEN <<"call", used>> ELSE <<"position", i>>

----------------------------------------------------------------------------
LoopInit ==
  /\ mode \in {"stream", "openai", "run"}
  /\ at = "ask" /\ step = 1 /\ calls = << >> /\ done = 0
  /\ fragments = [i \in {} |-> None]
  /\ conversation = << >> /\ failure = None /\ total = 0 /\ payload = Undo
  /\ raw = << >> /\ pending = << >> /\ held = << >> /\ resolved = (AgentName = << >>)
  /\ out = << >> /\ stop = None /\ codes = {} /\ ran = {}
  /\ frame = IF mode = "run" THEN << >> ELSE <<"role">>

\* What the ghost records of a result.
Failing(result) == IF result.ok THEN {}
                   ELSE {IF result.code = "tool_timeout" THEN "tool_timeout" ELSE "failed"}

\* The answer is over; stream_chat_completion sends what belongs to the reason.
End(reason) ==
  /\ at' = "ended" /\ stop' = reason
  /\ frame' = IF mode = "run" THEN << >>
              ELSE IF reason \in {"answer", "tool_error", "timeout"}
              THEN frame \o <<"stop", "done">>
              ELSE IF reason = "disconnected" THEN frame
              ELSE frame \o <<"error", "done">>

\* Nothing received yet.  What the filters hold when a step turns out to call
\* tools is never shown: from then on its text is only part of the assistant
\* message.
NewText == raw' = << >> /\ pending' = << >> /\ held' = << >> /\ resolved' = (AgentName = << >>)

(* A new step asks the provider with the conversation so far and new filters. *)
Ask ==
  /\ at = "ask"
  /\ at' = "receive" /\ calls' = << >> /\ done' = 0 /\ payload' = Undo
  /\ fragments' = [i \in {} |-> None]
  /\ NewText
  /\ UNCHANGED <<mode, step, conversation, failure, total, out, stop, frame, codes, ran>>

\* Content is filtered and yielded, while the step has no tool call.
Content(chunk) ==
  LET d == DisplayFeed(pending, chunk)
      v == VocativeFeed(held, resolved, d.out)
  IN /\ raw' = raw \o chunk
     /\ pending' = d.pending
     /\ IF d.out = << >> THEN UNCHANGED <<held, resolved, out>>
        ELSE held' = v.held /\ resolved' = v.resolved /\ out' = out \o v.out
     /\ frame' = IF out' # out /\ Last(frame) # "content"
                 THEN Append(frame, "content") ELSE frame

ReceiveContent ==
  /\ at = "receive" /\ mode # "run" /\ calls = << >>
  /\ \E chunk \in BoundedSeq(Alphabet, 2) \ {<< >>} :
       /\ Len(raw) + Len(chunk) <= (IF step = 1 THEN MaxText ELSE MaxLaterText)
       /\ Content(chunk)
  /\ UNCHANGED <<mode, at, step, calls, fragments, done, conversation, failure,
                 total, payload, stop, codes, ran>>

\* The k-th call a model makes in a step.  A call over the limit, or in the last
\* step, is refused before it is looked at, so one stands for all.
Calls(k) ==
  IF k > MaxCalls \/ step = MaxSteps THEN {[tool |-> "write_item", limit |-> NoLimit]}
  ELSE [tool : ToolNames, limit : {NoLimit}]
       \cup [tool : {"calendar.list_events"}, limit : Limits]

(* A chunk with tool calls.  After text was shown it is an error.            *)
ReceiveCalls ==
  /\ at = "receive" /\ mode = "stream" /\ Len(calls) <= MaxCalls
  /\ IF out # << >> THEN End("stream_error") /\ UNCHANGED <<calls, text>>
     ELSE /\ \E call \in Calls(Len(calls) + 1) : calls' = Append(calls, call)
          /\ NewText /\ UNCHANGED <<at, stop, frame>>
  /\ UNCHANGED <<mode, step, fragments, done, conversation, failure, total, payload,
                 out, codes, ran>>

(* The OpenAI-compatible transport collects the fragments of a call by index  *)
(* and hands all calls over, in index order, when the stream ends.           *)
ReceiveFragment ==
  /\ at = "receive" /\ mode = "openai"
  /\ \E i \in (0..MaxCalls) \ DOMAIN fragments : \E call \in Calls(i + 1) :
       fragments' = [k \in DOMAIN fragments \cup {i} |->
                       IF k = i THEN call ELSE fragments[k]]
  /\ UNCHANGED <<mode, at, step, calls, done, conversation, failure, total, payload,
                 text, out, stop, frame, codes, ran>>

\* The k-th smallest index.
Nth(indices, k) == CHOOSE i \in indices : Cardinality({j \in indices : j < i}) = k - 1

Assembled ==
  [k \in 1..Cardinality(DOMAIN fragments) |-> fragments[Nth(DOMAIN fragments, k)]]

EndFragments ==
  /\ at = "receive" /\ mode = "openai" /\ DOMAIN fragments # {}
  /\ IF out # << >> THEN End("stream_error") /\ UNCHANGED <<calls, fragments, text>>
     ELSE /\ calls' = Assembled /\ fragments' = [i \in {} |-> None]
          /\ NewText /\ at' = "decide" /\ UNCHANGED <<stop, frame>>
  /\ UNCHANGED <<mode, step, done, conversation, failure, total, payload,
                 out, codes, ran>>

EndStream ==
  /\ at = "receive" /\ mode # "run" /\ DOMAIN fragments = {}
  /\ at' = "decide"
  /\ UNCHANGED <<mode, step, calls, fragments, done, conversation, failure, total,
                 payload, text, out, stop, frame, codes, ran>>

\* chat_with_tools: the whole response at once.
Respond ==
  /\ at = "receive" /\ mode = "run"
  /\ \E s \in BoundedSeq(Alphabet, 1) : raw' = s
  /\ calls' \in {s \in BoundedSeq(UNION {Calls(k) : k \in 1..MaxCalls}, MaxCalls + 1) :
                  \A k \in DOMAIN s : s[k] \in Calls(k)}
  /\ at' = "decide"
  /\ UNCHANGED <<mode, step, fragments, done, conversation, failure, total, payload,
                 pending, held, resolved, out, stop, frame, codes, ran>>

ProviderFails ==
  /\ at = "receive" /\ End("provider_error")
  /\ UNCHANGED <<mode, step, calls, fragments, done, conversation, failure, total,
                 payload, text, out, codes, ran>>

Disconnect ==
  /\ mode # "run" /\ at \notin {"ended", "decide"} /\ End("disconnected")
  /\ UNCHANGED <<mode, step, calls, fragments, done, conversation, failure, total,
                 payload, text, out, codes, ran>>

Assistant == [role |-> "assistant", tools |-> [k \in 1..Len(calls) |-> calls[k].tool]]

\* Mutant: what the display filter holds is dropped.
FlushVocativeOnly == IF mode = "run" THEN Repair(Render(raw)) ELSE held

\* No tool call: what the filters hold is flushed and the loop answers.
Flushed ==
  IF mode = "run" THEN Repair(Render(raw))
  ELSE LET d == DisplayFinish(pending)
           v == IF d = << >> THEN [out |-> << >>, held |-> held]
                ELSE VocativeFeed(held, resolved, d)
       IN v.out \o v.held

GiveAnswer ==
  /\ at = "decide" /\ calls = << >>
  /\ conversation' = Append(conversation, Assistant)
  /\ out' = out \o Flushed
  /\ End(IF failure = None THEN "answer" ELSE failure)
  /\ UNCHANGED <<mode, step, calls, fragments, done, failure, total, payload, text,
                 codes, ran>>

(* _check_tool_call_limits: too many calls, or calls in the last step.       *)
OverLimit == Len(calls) > MaxCalls \/ step = MaxSteps

\* Mutant: a refused step is asked again.
RefuseAndRetry ==
  /\ at = "decide" /\ calls # << >> /\ OverLimit /\ at' = "ask"
  /\ UNCHANGED <<mode, step, calls, fragments, done, conversation, failure, total,
                 payload, text, out, stop, frame, codes, ran>>

RefuseCalls ==
  /\ at = "decide" /\ calls # << >> /\ OverLimit
  /\ conversation' = Append(conversation, Assistant)
  /\ End("step_limit")
  /\ UNCHANGED <<mode, step, calls, fragments, done, failure, total, payload, text,
                 out, codes, ran>>

AcceptCalls ==
  /\ at = "decide" /\ calls # << >> /\ ~OverLimit
  /\ conversation' = Append(conversation, Assistant)
  /\ at' = "dispatch"
  /\ UNCHANGED <<mode, step, calls, fragments, done, failure, total, payload, text,
                 out, stop, frame, codes, ran>>

\* Mutant: a timed out call leaves no message in the conversation.
DispatchSkipping ==
  /\ at = "dispatch" /\ done < Len(calls)
  /\ LET call == calls[done + 1]
     IN \E d \in LoopDispatch(call.tool, BoundedArguments(call)) :
          /\ ran' = IF d.ran THEN ran \cup {call.tool} ELSE ran
          /\ failure' = ToolFailureReason(d.result, failure)
          /\ codes' = codes \cup Failing(d.result)
          /\ payload' = SerializeToolResult(call.tool, d.result)
          /\ conversation' = IF d.result.code = "tool_timeout" THEN conversation
                             ELSE Append(conversation,
                                    [role |-> "tool", tools |-> <<call.tool>>])
  /\ done' = done + 1
  /\ UNCHANGED <<mode, at, step, calls, fragments, total, text, out, stop, frame>>

(* _append_tool_results: one call, its result appended whatever it is.       *)
Dispatch ==
  /\ at = "dispatch" /\ done < Len(calls)
  /\ LET call == calls[done + 1]
     IN \E d \in LoopDispatch(call.tool, BoundedArguments(call)) :
          /\ ran' = IF d.ran THEN ran \cup {call.tool} ELSE ran
          /\ failure' = ToolFailureReason(d.result, failure)
          /\ codes' = codes \cup Failing(d.result)
          /\ payload' = SerializeToolResult(call.tool, d.result)
          /\ conversation' = Append(conversation,
                                    [role |-> "tool", tools |-> <<call.tool>>])
  /\ done' = done + 1
  /\ UNCHANGED <<mode, at, step, calls, fragments, total, text, out, stop, frame>>

NextStep ==
  /\ at = "dispatch" /\ done = Len(calls)
  /\ total' = total + Len(calls) /\ step' = step + 1 /\ at' = "ask"
  /\ payload' = Undo
  /\ UNCHANGED <<mode, calls, fragments, done, conversation, failure, text,
                 out, stop, frame, codes, ran>>

\* The answer is over.
Ended == at = "ended" /\ UNCHANGED loopVars

Loop == Ask \/ EndStream \/ EndFragments \/ Respond \/ GiveAnswer \/ RefuseCalls
        \/ AcceptCalls \/ Dispatch \/ NextStep
LoopNext == Loop \/ ReceiveContent \/ ReceiveCalls \/ ReceiveFragment \/ ProviderFails
        \/ Disconnect \/ Ended

LoopSpec == LoopInit /\ [][LoopNext]_loopVars /\ WF_loopVars(Loop)

----------------------------------------------------------------------------
Answered == stop \in {"answer", "tool_error", "timeout"}

(* Types of the loop's state. *)
TypeOK ==
  /\ mode \in {"stream", "openai", "run"}
  /\ at \in {"ask", "receive", "decide", "dispatch", "ended"}
  /\ step \in 1..MaxSteps /\ done \in 0..Len(calls) /\ total \in Nat
  /\ \A k \in DOMAIN calls : calls[k].tool \in ToolNames /\ calls[k].limit \in Limits
  /\ failure \in {None, "tool_error", "timeout"}
  /\ resolved \in BOOLEAN /\ ran \subseteq ToolNames

(* However the provider cuts its text into chunks, and whatever the two      *)
(* filters of ModelLoop.stream hold back between them, the text shown for a   *)
(* finished answer is the text ModelLoop.run would have returned for the     *)
(* whole content, white space aside; and while it streams, the reader has    *)
(* seen a beginning of it, so no piece of a known identifier is ever shown.  *)
StreamShowsTheAnswer ==
  /\ Answered => Words(out) = Words(Repair(Render(raw)))
  /\ mode # "run" /\ calls = << >> => IsPrefix(Words(out), Words(Repair(Render(raw))))

(* Whenever the provider is asked again, every assistant message with tool    *)
(* calls is followed by the results of exactly these calls, and the OpenAI-   *)
(* compatible transport, which pairs results with calls by position, sends    *)
(* each result under the id of its own call (_append_tool_results,            *)
(* _openai_messages): a missing result would shift all later ones.           *)
EveryCallAnswered ==
  at = "ask" =>
    \A i \in DOMAIN conversation : \A k \in 1..Len(conversation[i].tools) :
      conversation[i].role = "assistant" =>
        /\ i + k <= Len(conversation)
        /\ conversation[i + k] = [role |-> "tool", tools |-> <<conversation[i].tools[k]>>]
        /\ ToolCallId(conversation, i + k) = <<"call", k - 1>>

(* The reason an answer reports is what its tools did: "timeout" exactly if   *)
(* some tool timed out, "tool_error" if others failed and none timed out,     *)
(* "answer" only if all succeeded (_tool_failure_reason over all steps); and   *)
(* the reader's stream closes with one [DONE], after a "stop" frame exactly   *)
(* when there is an answer (stream_chat_completion).                         *)
StopReasonIsWhatHappened ==
  /\ Answered =>
       stop = (IF "tool_timeout" \in codes THEN "timeout"
               ELSE IF codes # {} THEN "tool_error" ELSE "answer")
  /\ at = "ended" /\ mode # "run" =>
       /\ ("stop" \in Range(frame)) = Answered
       /\ Cardinality({i \in DOMAIN frame : frame[i] = "done"}) =
            (IF stop = "disconnected" THEN 0 ELSE 1)

(* The loop's work is bounded and counted: the last step never dispatches,    *)
(* no step more than MaxCalls, and the reported number of calls is the       *)
(* number of results in the conversation (_check_tool_call_limits).          *)
BoundedWork ==
  LET results == Cardinality({i \in DOMAIN conversation : conversation[i].role = "tool"})
  IN /\ results <= Min({step, MaxSteps - 1}) * MaxCalls
     /\ Answered => total = results

(* Only tools the agent offers are ever started by a native call: not the     *)
(* graph operations, and not write_item even where the dispatcher allows it. *)
OnlyOfferedToolsRun == ran \subseteq Offered \ GraphOperations

(* A result never exceeds the byte limit, and one that reports fewer records  *)
(* than the tool found neither hides it nor claims to be complete            *)
(* (_serialize_tool_result, _with_truncated_items).                          *)
TruncationIsVisible ==
  /\ payload.bytes <= MaxBytes
  /\ payload.n <= MaxRecords
  /\ payload.n < payload.available => payload.truncated /\ ~payload.complete

(* What the model sees of its tools: every call answered in its place, by a   *)
(* tool it was offered, with a result that fits and does not pretend to be    *)
(* complete, and no more of them than the limits allow.                       *)
ToolsAreServed ==
  TypeOK /\ EveryCallAnswered /\ BoundedWork /\ OnlyOfferedToolsRun /\ TruncationIsVisible

(* Every answer ends: the loop cannot run forever whatever the model asks for *)
(* (max_steps and the tool timeout), if the provider ends its streams.       *)
AnswerEnds == <>(at = "ended")
=============================================================================
