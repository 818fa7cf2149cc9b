---- MODULE MCGraphSnapshots ----
EXTENDS GraphSnapshots

MCTables == <<"agent", "assigned_to", "contained_in", "embodiment", "item", "located_in",
              "location", "person", "space", "spouse_of">>
Schema(from, to, symmetric, temporal, unique) ==
  [from |-> from, to |-> to, symmetric |-> symmetric, temporal |-> temporal, unique |-> unique]
MCSchemas ==
  [assigned_to |-> Schema({"embodiment"}, {"agent"}, FALSE, FALSE, TRUE),
   located_in |-> Schema({"item"}, {"address", "space"}, FALSE, FALSE, TRUE),
   spouse_of |-> Schema({"person"}, {"person"}, TRUE, TRUE, FALSE)]
MCTableOf ==
  [a1 |-> "agent", a2 |-> "agent", b1 |-> "embodiment", i1 |-> "item", i2 |-> "item", i3 |-> "item",
   l1 |-> "location", p1 |-> "person", p2 |-> "person", s1 |-> "space", s2 |-> "space", s3 |-> "space",
   m1 |-> "spouse_of"]

N(id) == [id |-> id, fields |-> {"name"}, bad |-> {}]
E(from, to) == [id |-> Null, from |-> from, to |-> to, start |-> Absent, end |-> Absent]
Married == [E("p1", "p2") EXCEPT !.id = "m1", !.start = "date", !.end = Null]
Body == [id |-> "b1", fields |-> {"embodiment_type"}, bad |-> {}]

MCInstalled ==
  [nodes |-> [agent |-> <<N("a1")>>, embodiment |-> <<Body>>, item |-> <<N("i1"), N("i2")>>,
              person |-> <<N("p1"), N("p2")>>, space |-> <<N("s1"), N("s2")>>],
   edges |-> [assigned_to |-> <<E("b1", "a1")>>,
              located_in |-> <<E("i1", "s1"), E("i2", "s2")>>, spouse_of |-> <<Married>>]]
\* Without embodiments, another agent, another space for one that is removed, items moved.
Household ==
  [nodes |-> [agent |-> <<N("a2")>>, item |-> <<N("i1"), N("i2")>>,
              person |-> <<N("p1"), N("p2")>>, space |-> <<N("s1"), N("s3")>>],
   edges |-> [located_in |-> <<E("i1", "s3"), E("i2", "s1")>>, spouse_of |-> <<>>]]
\* No items, hence no file of locations.
People == [nodes |-> [person |-> <<N("p1"), N("p2")>>], edges |-> [spouse_of |-> <<Married>>]]

With(located) == [Household EXCEPT !.edges.located_in = located]
Refused ==
  {With(<<E("i1", "s1"), E("i1", "s3")>>), With(<<E("i1", "s2")>>), With(<<E("s1", "i1")>>),
   [Household EXCEPT !.edges.spouse_of = <<Married, E("p2", "p1")>>],
   [Household EXCEPT !.edges.spouse_of = <<[Married EXCEPT !.start = Null]>>],
   [Household EXCEPT !.nodes.person = <<N("p1"), N("p1"), N("p2")>>],
   [MCInstalled EXCEPT !.nodes.embodiment[1].fields = {"agent_id"}],
   [nodes |-> Household.nodes, edges |-> [spouse_of |-> <<>>]]}
MCSources == {Household, People} \cup Refused

Budget(i, w, x, f) == [ingestions |-> i, writes |-> w, exports |-> x, faults |-> f]
MCBudgets == {Budget(2, 1, 0, 1), Budget(1, 1, 1, 0), Budget(2, 0, 1, 1),
              Budget(0, 0, 2, 2)}

MCLeftovers ==
  [nodes |-> {[id |-> "l1", fields |-> {"name"}]},
   edges |-> {EdgeRow("contained_in", E("i1", "l1"))}]
====
