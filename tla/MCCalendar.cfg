\* Three calendars; a tick is half a second.
CONSTANTS
  Calendars <- MCCalendars
  Person <- MCPerson
  Readers <- MCReaders
  Stored <- MCStored
  Requests <- MCRequests
  Nobody = "none"
  HttpTime = 3
  FetchBudget = 7
  BindingTime = 8
  MaxPages = 2
SPECIFICATION CalendarSpec
INVARIANTS ListingIsTruthful
PROPERTIES ReadEventsAreKept ListingEnds
CHECK_DEADLOCK FALSE
