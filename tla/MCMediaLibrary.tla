---- MODULE MCMediaLibrary ----
EXTENDS MediaLibrary

MCRoots == <<<<"a", "b", "link">>, <<"clip">>>>
MCKind == [a |-> "photo", b |-> "photo", link |-> "escaping", clip |-> "video"]
MCDated == [x \in {"a", "b", "link", "clip"} \X (1 .. 2) |->
              IF x = <<"b", 1>> THEN 3 ELSE IF x = <<"clip", 1>> THEN 1 ELSE 0]
MCStarts == {[MCKind EXCEPT !.a = 1, !.b = x, !.link = 1, !.clip = x] : x \in 0 .. 1}
MCBroken == {<<"a", 2>>}

Plan(changes, refreshes, faults, pages, serves) ==
  [changes |-> changes, refreshes |-> refreshes, faults |-> faults, pages |-> pages,
   serves |-> serves]
MCPlans == {Plan(1, 2, 1, FALSE, 0), Plan(1, 2, 0, TRUE, 0), Plan(1, 2, 0, FALSE, 2),
            Plan(0, 1, 1, FALSE, 3)}

RequestSymmetry == Permutations(Requests)
====
