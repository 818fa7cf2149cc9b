---- MODULE MCFactReading ----
EXTENDS FactReading

MCTypeOf == [ann |-> "person", bob |-> "person", eve |-> "person", kid |-> "person",
             mum |-> "person", agent |-> "person", home |-> "address", away |-> "address",
             shelf |-> "space", bin |-> "space", loopA |-> "space", loopB |-> "space",
             cabinet |-> "item", milk1 |-> "item", milk2 |-> "item", tin |-> "item",
             cup |-> "item"]
MCOrder == <<"ann", "bob", "eve", "kid", "mum", "agent", "home", "away", "shelf", "bin",
             "loopA", "loopB", "cabinet", "milk1", "milk2", "tin", "cup">>
Called(name) == [Unnamed EXCEPT !.name = {name}]
Appellation(value, household, speakers) ==
  [value |-> value, household |-> household, speakers |-> speakers]
MCNames == [id \in DOMAIN MCTypeOf |->
  CASE id \in {"milk1", "milk2"} -> [Called("milk") EXCEPT !.aliases = {"oat milk"}]
    [] id = "shelf" -> Called("tin")
    [] id = "mum" -> [Called("mum") EXCEPT !.appellations = {Appellation("dear", "", {"bob"})}]
    [] id = "eve" -> [Unnamed EXCEPT !.first = "eve", !.last = "lee", !.display = "Eve L.",
                        !.appellations = {Appellation("mum", "home", {}),
                                          Appellation("boss", "away", {"ann"})}]
    [] id = "kid" -> [Called("kid") EXCEPT !.appellations = {Appellation("dear", "home", {"ann"}),
                                                             Appellation("tin", "", {})}]
    [] OTHER -> Called(id)]
MCNormal == [t \in {"milk", "oat milk", "tin", "eve", "Eve L.", "eve lee", "mum", "dear", "boss",
                    "Milk!", "..."} \cup DOMAIN MCTypeOf |->
               CASE t = "Milk!" -> "milk" [] t = "..." -> "" [] t = "Eve L." -> "eve l"
                 [] OTHER -> t]
MCFullName == [x \in {<<"eve", "lee">>} |-> "eve lee"]

Born(y) == IF y = 0 THEN NoValue ELSE DateValue(<<y, 2, 29>>)
Record(birth, gender, quantity) ==
  [birth_date |-> Born(birth), household_role |-> NoValue, start_date |-> NoValue,
   gender |-> IF gender = "" THEN NoValue ELSE TextValue(gender),
   quantity |-> IF quantity = 0 THEN NoValue ELSE IntValue(quantity)]
People == [ann |-> <<1988, "female">>, bob |-> <<1984, "male">>, eve |-> <<0, "female">>,
           kid |-> <<2008, "male">>, mum |-> <<1960, "female">>]
Quantities == [milk1 |-> 2, milk2 |-> 1, cup |-> 4]
MCRecords ==
  [id \in DOMAIN MCTypeOf |->
     LET p == IF id \in DOMAIN People THEN People[id] ELSE <<0, "">>
     IN  Record(p[1], p[2], IF id \in DOMAIN Quantities THEN Quantities[id] ELSE 0)]

Edge(edge, from, to, role, start, ended) ==
  [edge |-> edge, from |-> from, to |-> to, ended |-> ended,
   values |-> [p \in DOMAIN Contracts |->
                 CASE p = "household_role" /\ role # "" -> TextValue(role)
                   [] p = "start_date" /\ start # 0 -> DateValue(<<start, 6, 1>>)
                   [] OTHER -> NoValue]]
MCStaticEdges ==
  {Edge(e[1], e[2], e[3], e[4], e[5], e[6]) :
     e \in {<<"spouse_of", "ann", "bob", "", 2007, FALSE>>,
            <<"spouse_of", "eve", "bob", "", 2001, TRUE>>,
            <<"parent_of", "mum", "ann", "", 0, FALSE>>, <<"parent_of", "ann", "kid", "", 0, FALSE>>,
            <<"parent_of", "bob", "kid", "", 0, FALSE>>,
            <<"lives_in", "ann", "home", "owner", 2010, FALSE>>,
            <<"lives_in", "bob", "home", "", 0, FALSE>>,
            <<"lives_in", "kid", "home", "minor_dependent", 2012, FALSE>>,
            <<"lives_in", "eve", "home", "owner", 2000, TRUE>>,
            <<"hosted_by", "shelf", "cabinet", "", 0, FALSE>>,
            <<"hosted_by", "bin", "shelf", "", 0, FALSE>>,
            <<"hosted_by", "loopA", "loopB", "", 0, FALSE>>,
            <<"hosted_by", "loopB", "loopA", "", 0, FALSE>>}}

Where(m1, m2, t, c) == [cabinet |-> "home", milk1 |-> m1, milk2 |-> m2, tin |-> t, cup |-> c]
MCLayouts == {Where("shelf", "bin", "home", ""), Where("shelf", "away", "bin", "shelf")}
MCCrowded == {Where("bin", "bin", "bin", "bin")}
MCAllLayouts == MCLayouts \cup MCCrowded
MCMoves == {<<"milk1", "bin">>, <<"milk1", "shelf">>, <<"milk2", "away">>, <<"tin", "shelf">>}

Stored(values) == {p \in DOMAIN values : values[p] # NoValue}
MCNodeFiles ==
  {[table |-> t, shard |-> FALSE,
    records |-> {Stored(MCRecords[id]) : id \in {x \in DOMAIN MCTypeOf : MCTypeOf[x] = t}}] :
     t \in {"address", "space"}}
  \cup {[table |-> "person", shard |-> TRUE, records |-> {Stored(MCRecords[id])}] :
          id \in {"ann", "bob", "eve", "kid", "mum", "agent"}}
MCEdgeFiles == [t \in {"spouse_of", "parent_of", "lives_in", "located_in", "hosted_by"} |->
                  {Stored(e.values) : e \in {x \in MCStaticEdges : x.edge = t}}]

Filter(property, op, value, source, anchor, derived) ==
  [property |-> property, predicate |-> "", op |-> op, value |-> value,
   source |-> source, anchor |-> anchor, derived |-> derived]
Gender(g) == Filter("gender", "eq", TextValue(g), "entity", FALSE, FALSE)
Age(op, n) == Filter("age_years", op, IntValue(n), "entity", FALSE, FALSE)
Older == Filter("birth_date", "lt", NoValue, "entity", TRUE, FALSE)
Status(p) == [Filter("", "eq", NoValue, "entity", FALSE, FALSE) EXCEPT !.predicate = p]
Role(r) == Filter("household_role", "eq", TextValue(r), "relation", FALSE, FALSE)
AtLeast(n) == Filter("quantity", "gte", IntValue(n), "entity", FALSE, FALSE)
Step(relation, filters) == [relation |-> relation, filters |-> filters]

Ref(kind, value, type, path, offset, many) ==
  [kind |-> kind, value |-> value, type |-> type, path |-> path, offset |-> offset, many |-> many]
Self(path) == Ref("self", "", "person", path, 0, FALSE)
HomeRef(path) == Ref("current_household", "", "address", path, 0, FALSE)
NamedRef(name, type, path) == Ref("named_entity", name, type, path, 0, FALSE)
IdRef(id, path) == Ref("entity_id", id, "", path, 0, FALSE)
Earlier(n, type, path, many) == Ref("discourse", "", type, path, n, many)
Unclear == Ref("unresolved", "", "", <<>>, 0, FALSE)

NoParams == [x \in {} |-> 0]
Request(op, subject) ==
  [operation |-> op, subject |-> subject, other |-> <<>>, exclude |-> <<>>, property |-> "",
   edgeProperty |-> FALSE, filters |-> <<>>, each |-> FALSE, params |-> NoParams]
Of(r, property) == [r EXCEPT !.property = property]
EdgeOfRequest(r, property) == [r EXCEPT !.property = property, !.edgeProperty = TRUE]
With(r, filters) == [r EXCEPT !.filters = filters]
Each(r) == [r EXCEPT !.each = TRUE]
But(r, refs) == [r EXCEPT !.exclude = refs]
Versus(r, ref) == [r EXCEPT !.other = <<ref>>]
Mode(r, mode) == [r EXCEPT !.params = [mode |-> mode]]

Contents == <<Step("contents", <<>>)>>
Members == HomeRef(<<Step("member", <<>>)>>)
InCabinet == NamedRef("cabinet", "item", Contents)
Children == Self(<<Step("child", <<>>)>>)

ContentRequests ==
  {Request("count", InCabinet), Request("select", InCabinet),
   Request("select", NamedRef("tin", "space", Contents)),
   With(Request("select", NamedRef("tin", "space", Contents)), <<AtLeast(9)>>),
   With(Request("count", InCabinet), <<AtLeast(2)>>),
   But(Request("select", InCabinet), <<NamedRef("milk", "item", <<>>)>>),
   But(Request("count", InCabinet), <<Earlier(1, "item", <<>>, TRUE)>>),
   Of(Request("sum", InCabinet), "quantity"), Of(Request("argmax", InCabinet), "quantity"),
   Of(Request("average", InCabinet), "quantity"), Of(Request("min", InCabinet), "quantity"),
   Each(Of(Request("select", InCabinet), "quantity")),
   Each(With(Of(Request("select", InCabinet), "quantity"), <<AtLeast(2)>>)),
   Request("resolve_reference", NamedRef("Milk!", "item", <<Step("location", <<>>)>>)),
   Request("resolve_reference", NamedRef("tin", "", <<>>)),
   Of(Request("select", NamedRef("cup", "item", <<>>)), "quantity"),
   Versus(Request("same_entity", NamedRef("milk", "item", <<Step("location", <<>>)>>)),
          NamedRef("tin", "item", <<Step("location", <<>>)>>)),
   Request("select", NamedRef("milk", "item", <<Step("location", <<>>), Step("contents", <<>>)>>)),
   Request("select", HomeRef(<<Step("contents", <<>>), Step("contents", <<>>)>>)),
   Request("select", IdRef("loopA", Contents)),
   Request("count", Earlier(1, "item", <<Step("location", <<>>)>>, TRUE)),
   Request("resolve_reference", Earlier(1, "item", <<Step("location", <<>>)>>, FALSE))}

PeopleRequests ==
  {Request("count", Members), With(Request("count", Members), <<Status("adult")>>),
   With(Request("select", Members), <<Status("minor")>>),
   With(Request("select", Members), <<Status("minor"), Status("adult")>>),
   With(Request("select", Members), <<Age("gte", 18), Gender("male")>>),
   With(Request("count", Members), <<Role("owner")>>),
   Each(With(EdgeOfRequest(Request("select", Members), "start_date"), <<Role("owner")>>)),
   Each(EdgeOfRequest(Request("select", Members), "start_date")),
   Each(Mode(Of(Request("date_difference", Members), "birth_date"), "years")),
   EdgeOfRequest(Request("select", Self(<<Step("spouse", <<>>)>>)), "start_date"),
   EdgeOfRequest(Request("latest", Members), "start_date"),
   Of(Request("argmin", Members), "birth_date"), Of(Request("earliest", Members), "birth_date"),
   Of(Request("argmax", Members), "gender"), Request("first", Members),
   Of(Request("last", Members), "birth_date"),
   But(Request("select", Members), <<Self(<<>>), Self(<<Step("spouse", <<>>)>>)>>),
   Request("resolve_reference", Self(<<Step("spouse", <<Gender("male")>>)>>)),
   Request("resolve_reference", Self(<<Step("spouse", <<>>), Step("spouse", <<>>)>>)),
   Request("resolve_reference", Self(<<Step("parent", <<>>), Step("child", <<Older>>)>>)),
   Request("resolve_reference", Children), Request("inspect", Children),
   Request("resolve_reference", NamedRef("mum", "person", <<>>)),
   Request("resolve_reference", NamedRef("kid", "person", <<>>)),
   Request("resolve_reference", NamedRef("dear", "person", <<>>)),
   Request("resolve_reference", NamedRef("boss", "person", <<>>)),
   Request("resolve_reference", NamedRef("eve lee", "", <<>>)),
   Request("resolve_reference", NamedRef("...", "person", <<>>)),
   Versus(Of(Request("argmin", Self(<<>>)), "birth_date"), NamedRef("bob", "person", <<>>)),
   Versus(Request("same_entity", Self(<<Step("spouse", <<>>)>>)), NamedRef("bob", "person", <<>>)),
   Mode(Of(Request("annual_occurrence", Self(<<>>)), "birth_date"), "days"),
   Of(Request("select", Ref("assistant", "", "", <<>>, 0, FALSE)), "birth_date"),
   Of(Request("select", Self(<<>>)), "age_years"),
   Of(Request("unit_conversion", Self(<<>>)), "birth_date"),
   Of(Request("select", Self(<<>>)), "quantity"), Request("select", Self(<<>>)),
   Request("resolve_reference", Unclear),
   Request("count", Earlier(2, "person", <<>>, TRUE)),
   [Request("date_add", Self(<<>>)) EXCEPT !.property = "birth_date",
      !.params = [mode |-> "years", amount |-> 40]]}

MCRequests == ContentRequests \cup PeopleRequests

MCDiscourses == {<<>>, <<{"ann", "bob"}, {"milk1"}>>}
MCConcepts == <<[name |-> "mother", path |-> <<Step("parent", <<Gender("female")>>)>>],
               [name |-> "parent", path |-> <<Step("parent", <<>>)>>],
               [name |-> "child", path |-> <<Step("child", <<>>)>>],
               [name |-> "son", path |-> <<Step("child", <<Gender("male")>>)>>],
               [name |-> "stepson", path |-> <<Step("spouse", <<>>), Step("child", <<>>)>>]>>
MCNow == <<2024, 3, 1>>

(* Every request the resolver meets passed the request types. *)
ASSUME RequestsWellFormed ==
  \A r \in MCRequests :
    /\ \A f \in ToSet(r.filters) : FilterWellFormed(f)
    /\ \A ref \in References(r) : ReferenceWellFormed(ref)

----
(* The calendar arithmetic of the same operators: a behaviour either       *)
(* answers questions or walks through dates.                               *)
VARIABLES stored, offset, today

dates == <<stored, offset, today>>
NoDates == stored = <<>> /\ offset = 0 /\ today = <<>>

MCWindows == {<<<<2023, 12, 28>>, <<2024, 4, 2>>>>, <<<<1896, 2, 27>>, <<1896, 3, 2>>>>,
              <<<<9998, 12, 29>>, <<9999, 1, 2>>>>}
ASSUME WindowsAssumption ==
  \A w \in MCWindows : IsDate(w[1]) /\ IsDate(w[2]) /\ ~DateLess(w[2], w[1])

Dates == INSTANCE FactDates WITH Windows <- MCWindows, Offsets <- -14 .. 14,
                                 OccurrenceYears <- 1896 .. 1905

FactsInit ==
  \/ Init /\ NoDates
  \/ Dates!Init /\ Init /\ location \in MCCrowded

FactsNext ==
  \/ NoDates /\ Next /\ UNCHANGED dates
  \/ ~NoDates /\ Dates!Next /\ UNCHANGED vars

FactsSpec == FactsInit /\ [][FactsNext]_<<vars, dates>>

(* date_add and date_difference agree on every anniversary, short months   *)
(* and leap days included (FactDates).                                     *)
OffsetMeetsItsAnniversary == ~NoDates => Dates!OffsetMeetsItsAnniversary

(* annual_occurrence is the first day with that month and day from today   *)
(* on, over leap days and centuries without one (FactDates).               *)
OccurrenceIsNext == ~NoDates => Dates!OccurrenceIsNext
====
