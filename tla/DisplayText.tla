---------------------------- MODULE DisplayText ----------------------------
(* The two text filters between a model and the reader of its answer.        *)
(* DisplayTextStream (common/display.py) replaces record identifiers by      *)
(* display names and holds back a trailing piece that may still grow into an *)
(* identifier; _SelfVocativeStream (runtime/model_loop.py) holds back the    *)
(* beginning of an answer while it may still be the agent addressing the     *)
(* user by the agent's own name.  A text is a sequence of tokens.            *)
EXTENDS Naturals, Sequences, SequencesExt

CONSTANTS IdTokens,      \* tokens made of the characters an identifier may have
          DisplayName,   \* display name of every known record identifier
          AgentName,     \* the agent's localized name, << >> when it has none
          Punctuation,   \* what may follow a name used to address someone
          Space,         \* white space
          Address        \* how the speaker is addressed, punctuation included

----------------------------------------------------------------------------
(* DisplayNameResolver.resolve: an unknown identifier stays as it is.        *)
Resolve(run) == IF run \in DOMAIN DisplayName THEN DisplayName[run] ELSE run

\* The end of the maximal run of identifier characters that begins at i.
RunEnd(s, i) ==
  CHOOSE j \in i..Len(s) :
    /\ \A k \in i..j : s[k] \in IdTokens
    /\ j = Len(s) \/ s[j + 1] \notin IdTokens

(* DisplayNameResolver.render: every maximal run that is a known identifier  *)
(* is replaced by its display name.                                          *)
Render(s) ==
  FlattenSeq([i \in 1..Len(s) |->
    IF s[i] \notin IdTokens THEN <<s[i]>>
    ELSE IF i > 1 /\ s[i - 1] \in IdTokens THEN << >>
         ELSE Resolve(SubSeq(s, i, RunEnd(s, i)))])

\* Mutant: the trailing run is passed on as well.
HoldNothing(s) == Len(s)

\* Length of s without its trailing run of identifier characters.
Boundary(s) ==
  CHOOSE b \in 0..Len(s) :
    /\ b = 0 \/ s[b] \notin IdTokens
    /\ \A k \in (b + 1)..Len(s) : s[k] \in IdTokens

(* DisplayTextStream.feed and finish: what is passed on, and what is held.   *)
DisplayFeed(pending, text) ==
  LET combined == pending \o text
      b == Boundary(combined)
  IN [out |-> Render(SubSeq(combined, 1, b)),
      pending |-> SubSeq(combined, b + 1, Len(combined))]

DisplayFinish(pending) == Render(pending)

----------------------------------------------------------------------------
(* _self_vocative_prefixes *)
VocativePrefixes == IF AgentName = << >> THEN {}
            ELSE {Append(AgentName, p) : p \in Punctuation}

\* str.lstrip
StripLeft(s) ==
  LET n == CHOOSE n \in 0..Len(s) :
             /\ \A k \in 1..n : s[k] = Space
             /\ n = Len(s) \/ s[n + 1] # Space
  IN SubSeq(s, n + 1, Len(s))

(* _SelfVocativeStream.feed: nothing is passed on while the text so far may  *)
(* still become a prefix; a full prefix is replaced by the address.          *)
VocativeFeed(held, resolved, text) ==
  LET c == held \o text
      full == {p \in VocativePrefixes : IsPrefix(p, c)}
  IN IF resolved THEN [out |-> text, held |-> << >>, resolved |-> TRUE]
     ELSE IF full # {}
     THEN LET n == Len(CHOOSE p \in full : TRUE)
          IN [out |-> Address \o StripLeft(SubSeq(c, n + 1, Len(c))),
              held |-> << >>, resolved |-> TRUE]
     ELSE IF \E p \in VocativePrefixes : IsPrefix(c, p)
     THEN [out |-> << >>, held |-> c, resolved |-> FALSE]
     ELSE [out |-> c, held |-> << >>, resolved |-> TRUE]

(* _repair_self_vocative: the same filter applied to a whole answer.         *)
Repair(text) ==
  LET r == VocativeFeed(<< >>, AgentName = << >>, text)
  IN r.out \o r.held

\* An answer as it reads when white space is not compared.
Words(s) == SelectSeq(s, LAMBDA t : t # Space)
=============================================================================
