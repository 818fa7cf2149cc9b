---- MODULE MCCalendar ----
EXTENDS Calendar

MCCalendars == {"work", "home", "club"}
MCPerson == [work |-> "ann", home |-> "ann", club |-> "bob"]
MCReaders == [work |-> {}, home |-> {"bob"}, club |-> {}]
Entry(start, rank, busy, valid) == [start |-> start, rank |-> rank, busy |-> busy, valid |-> valid]
MCStored ==
  [work |-> <<Entry(1, 1, FALSE, TRUE), Entry(3, 2, TRUE, TRUE)>>,
   home |-> <<Entry(1, 3, FALSE, FALSE), Entry(2, 4, FALSE, TRUE),
              Entry(3, 5, FALSE, TRUE)>>,
   club |-> <<>>]

Request(caller, calendar, person, limit, check) ==
  [caller |-> caller, calendar |-> calendar, person |-> person, limit |-> limit, check |-> check]
MCRequests ==
  {Request("ann", Nobody, Nobody, 4, TRUE), Request("ann", Nobody, Nobody, 2, FALSE),
   Request("bob", Nobody, "ann", 4, TRUE), Request("bob", "home", Nobody, 1, FALSE),
   Request("bob", "work", Nobody, 4, FALSE), Request(Nobody, Nobody, Nobody, 4, FALSE)}
====
