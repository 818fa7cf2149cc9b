----------------------------- MODULE EntityNames -----------------------------
(***************************************************************************)
(* Which entities a name denotes (persistence/schema_catalog.py).  An      *)
(* entity has names of its own, which anyone may use, and appellations,    *)
(* which only hold in a household or for certain speakers ("mum").  Texts  *)
(* are compared after normalisation: case, width, punctuation and spaces   *)
(* do not count, and a text of nothing else denotes nothing.               *)
(***************************************************************************)
EXTENDS Sequences, SequencesExt

CONSTANTS
  Names,       \* the stored name fields of each entity
  Normal,      \* the normal form of each text, "" if nothing is left of it
  FullName     \* the text of a first and a last name

(* The value a missing field reads as. *)
Unnamed == [name |-> {}, aliases |-> {}, display |-> "", first |-> "", last |-> "",
            appellations |-> {}]

Normalize(text) == Normal[text]

(* Names in any language or list, aliases, the display name, the first     *)
(* name, and the first with the last name.                                 *)
RecordAliases(r) ==
  (r.name \cup r.aliases \cup {r.display, r.first}
     \cup IF "" \in {r.first, r.last} THEN {} ELSE {FullName[<<r.first, r.last>>]}) \ {""}

(* An appellation without a scope is none. *)
RecordAppellations(r) ==
  {a \in r.appellations : a.value # "" /\ (a.household # "" \/ a.speakers # {})}

MatchesAlias(id, text) ==
  \E x \in RecordAliases(Names[id]) : Normalize(x) = Normalize(text)

MatchesScopedAppellation(id, text, speaker, household) ==
  \E a \in RecordAppellations(Names[id]) :
    /\ Normalize(a.value) = Normalize(text)
    /\ a.household \in {"", household}
    /\ a.speakers = {} \/ speaker \in a.speakers

(* Mutant: appellations are looked for beside the names. *)
MatchingNamedEntitiesBoth(ids, text, speaker, household, limit) ==
  LET matches == SelectSeq(ids, LAMBDA id :
                   \/ MatchesAlias(id, text)
                   \/ MatchesScopedAppellation(id, text, speaker, household))
  IN  IF Len(matches) > limit THEN SubSeq(matches, 1, limit) ELSE matches

(* ids are in storage order.  Names come first for all of them: only when  *)
(* no entity has the name itself are the appellations tried.               *)
MatchingNamedEntities(ids, text, speaker, household, limit) ==
  LET named == SelectSeq(ids, LAMBDA id : MatchesAlias(id, text))
      called == SelectSeq(ids, LAMBDA id :
                  MatchesScopedAppellation(id, text, speaker, household))
      matches == IF named = <<>> THEN called ELSE named
  IN  IF Len(matches) > limit THEN SubSeq(matches, 1, limit) ELSE matches
============================================================================
