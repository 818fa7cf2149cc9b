---------------------------- MODULE MCItemWriting ----------------------------
(* Callers, places and accepted values are interchangeable.  A behaviour     *)
(* either calls the item writer, await by await, or writes items by name.    *)
EXTENDS ItemWriting, NamedWriting, TLC

Symmetry == Permutations(Callers) \cup Permutations(Places) \cup Permutations(Declared)

MCCalled == [n \in {"bin", "rack", "nowhere", "cup", "den", ""} |->
               CASE n = "bin" -> {"bin"} [] n = "rack" -> {"rack", "rack2"}
                 [] n = "den" -> {"den"} [] OTHER -> {}]
Record(names, value, at) == [names |-> names, value |-> value, at |-> at]
Absent == Record({}, "", "")
MCStores ==
    {[a |-> x, b |-> y] :
        x \in {Absent, Record({"cup"}, "red", "bin"), Record({"cup"}, "red", "rack")},
        y \in {Absent, Record({"mug"}, "red", "away")}}

Ask(op, destination, value, key, names, mode) ==
    [op |-> op, item |-> "cup", place |-> destination, value |-> value, key |-> key,
     names |-> names, mode |-> mode]
MCRequests ==
    {Ask("create", "bin", v, k, {"cup"}, "commit") : v \in {"", "blue"}, k \in {"a", "b"}}
    \cup {Ask("create", "bin", "red", "a", {"cup"}, "preview"),
          Ask("create", "den", "", "b", {"cup"}, "commit"),
          Ask("create", "cup", "", "b", {"glass"}, "commit"),
          Ask("create", "rack", "", "b", {"cup"}, "commit"),
          Ask("create", "nowhere", "plaid", "b", {"cup"}, "commit"),
          Ask("create", "nowhere", "", "b", {"cup"}, "commit"),
          Ask("update_location", "bin", "", "", {}, "commit"),
          Ask("update_location", "den", "", "", {}, "commit"),
          Ask("update_attributes", "", "blue", "", {}, "commit"),
          Ask("update_attributes", "", "blue", "", {}, "preview"),
          Ask("delete", "", "", "", {}, "commit")}

MCKeys == {"a", "b"}
MCHome == {"bin", "rack"}
MCSuitable == {"bin", "rack", "rack2"}
MCWritable == {"red", "blue"}

\* Writes by key leave the state of those by name as it began, with no store.
ByKey == store = <<>>

Unused ==
    /\ store = <<>> /\ calls = 0
    /\ step = [c \in Clients |-> "idle"]
    /\ request = <<>> /\ resolved = <<>> /\ place = <<>>
    /\ reply = <<>> /\ wrote = <<>> /\ moments = <<>>

\* With names the tables of ItemWriting stay empty.
WritingInit ==
    \/ Init /\ Unused
    \/ Init /\ items = [i \in Items |-> NoItem] /\ spaces = {} /\ NamedInit

WritingNext ==
    \/ ByKey /\ Next /\ UNCHANGED named
    \/ ~ByKey /\ NamedNext /\ UNCHANGED vars
    \/ ~ByKey /\ Finished /\ UNCHANGED <<vars, named>>

WritingSpec == WritingInit /\ [][WritingNext]_<<vars, named>>
=============================================================================
