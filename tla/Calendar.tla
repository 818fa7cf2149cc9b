------------------------------ MODULE Calendar ------------------------------
(***************************************************************************)
(* Reading household calendars (capabilities/calendar.py).                 *)
(*                                                                         *)
(* A listing fetches every calendar the caller may read at the same time.  *)
(* A fetch takes the access token, shared and refreshed under one lock,    *)
(* reads page after page, refreshes the token once for a page that is      *)
(* refused, and stops when its budget of time cannot hold another request. *)
(* What it has by then is listed as incomplete.  Time is counted in ticks; *)
(* a reply may come after any number of them, or never.                    *)
(***************************************************************************)
EXTENDS Integers, Sequences, FiniteSets

CONSTANTS
  Calendars,       \* calendar bindings of the configuration
  Person, Readers, \* the owner of each, and who else may read it
  Stored,          \* the events of each, by start: [start, rank, busy, valid]
  Requests,        \* [caller, calendar, person, limit, check]
  Nobody,          \* no caller, calendar, person or fetch
  HttpTime,        \* HTTP_TIMEOUT_SECONDS
  FetchBudget,     \* GOOGLE_FETCH_BUDGET_SECONDS
  BindingTime,     \* CALENDAR_BINDING_TIMEOUT_SECONDS
  MaxPages         \* pages after which the service sends no further token

\* An id is its calendar's and its own, so that no two events have the same; the
\* rank of an event is the place of its id in the order of ids.
ASSUME StoredAssumption ==
  /\ IsFiniteSet(Calendars) /\ Nobody \notin Calendars
  /\ \A b \in Calendars : Stored[b] \in Seq([start : Int, rank : Int, busy : BOOLEAN, valid : BOOLEAN])
  /\ \A a, b \in Calendars : \A i \in DOMAIN Stored[a], j \in DOMAIN Stored[b] :
       Stored[a][i].rank = Stored[b][j].rank => a = b /\ i = j
  /\ \A r \in Requests : r.limit \in Nat \ {0} /\ r.check \in BOOLEAN

ASSUME TimesAssumption ==
  /\ HttpTime \in Nat /\ FetchBudget \in Nat /\ BindingTime \in Nat
  /\ 0 < HttpTime /\ HttpTime < FetchBudget /\ FetchBudget < BindingTime

VARIABLES
  req,             \* the listing asked for, <<>> before
  now,             \* ticks since it was asked for
  lock,            \* the fetch that holds the token lock
  token,           \* whether a token is cached
  fetch,           \* the state of each calendar's fetch
  answer           \* the listing, <<>> before

calendarVars == <<req, now, lock, token, fetch, answer>>

\* events: the positions of the events read; count: the length of the list.
Idle == [pc |-> "idle", events |-> {}, count |-> 0, pos |-> 0, seen |-> {}, force |-> FALSE,
         retried |-> FALSE, failed |-> "", complete |-> FALSE]

CalendarInit ==
  /\ req = <<>> /\ now = 0 /\ lock = Nobody /\ token \in BOOLEAN
  /\ fetch = [b \in Calendars |-> Idle] /\ answer = <<>>

----------------------------------------------------------------------------
(* Which calendars are read. *)

ReadableBy(b, caller) == caller = Person[b] \/ caller \in Readers[b]

Authorized(r) ==
  {b \in Calendars : /\ r.caller # Nobody /\ ReadableBy(b, r.caller)
                     /\ r.calendar \in {Nobody, b}
                     /\ r.person \in {Nobody, Person[b]}}

NoListing == [refused |-> FALSE, events |-> {}, complete |-> FALSE, fetched |-> {},
              unavailable |-> {}, truncated |-> {}, checked |-> FALSE, available |-> FALSE]

AskCalendars(r) ==
  /\ req = <<>>
  /\ req' = <<r>>
  /\ IF Authorized(r) = {}
     THEN answer' = <<[NoListing EXCEPT !.refused = TRUE]>> /\ UNCHANGED fetch
     ELSE /\ fetch' = [b \in Calendars |->
                         IF b \in Authorized(r) THEN [Idle EXCEPT !.pc = "lock"] ELSE Idle]
          /\ UNCHANGED answer
  /\ UNCHANGED <<now, lock, token>>

----------------------------------------------------------------------------
(* The ends of a fetch. *)

Active(b) == fetch[b].pc \in {"lock", "post", "get"}

Unlocked(b) == IF lock = b THEN Nobody ELSE lock

Batch(b, events, count, complete) ==
  fetch' = [fetch EXCEPT ![b].pc = "done", ![b].events = events, ![b].count = count,
                         ![b].complete = complete]

Fails(b, why) ==
  fetch' = [fetch EXCEPT ![b].pc = "done", ![b].events = {}, ![b].count = 0, ![b].failed = why]

(* _CalendarDeadlineExceeded: what was read so far is returned. *)
Exceeded(b) == Batch(b, fetch[b].events, fetch[b].count, FALSE)

(* CalendarUnavailableError from the token or a page. *)
Unavailable(b) == IF fetch[b].events # {} THEN Exceeded(b) ELSE Fails(b, "unavailable")

Fits(time) == FetchBudget - now >= time

(* _get_events: a request that cannot fit the budget is not sent. *)
StartGet(b, retried) ==
  IF Fits(HttpTime)
  THEN fetch' = [fetch EXCEPT ![b].pc = "get", ![b].force = FALSE, ![b].retried = retried]
  ELSE Exceeded(b)

----------------------------------------------------------------------------
(* The token, under its lock. *)

(* The lock is obtained; a cached token needs no request. *)
TakeLock(b) ==
  /\ fetch[b].pc = "lock" /\ lock = Nobody /\ now < FetchBudget
  /\ IF token /\ ~fetch[b].force
     THEN StartGet(b, fetch[b].retried) /\ UNCHANGED lock
     ELSE IF Fits(HttpTime)
     THEN lock' = b /\ fetch' = [fetch EXCEPT ![b].pc = "post"]
     ELSE Exceeded(b) /\ UNCHANGED lock
  /\ UNCHANGED <<req, now, token, answer>>

(* Mutant: a refused refresh returns without releasing the lock. *)
TokenRefusedHolding(b) ==
  /\ fetch[b].pc = "post"
  /\ Unavailable(b)
  /\ UNCHANGED <<req, now, lock, token, answer>>

TokenRefused(b) ==
  /\ fetch[b].pc = "post"
  /\ lock' = Nobody
  /\ Unavailable(b)
  /\ UNCHANGED <<req, now, token, answer>>

TokenGranted(b) ==
  /\ fetch[b].pc = "post"
  /\ lock' = Nobody /\ token' = TRUE
  /\ StartGet(b, fetch[b].retried)
  /\ UNCHANGED <<req, now, answer>>

----------------------------------------------------------------------------
(* Pages. *)

(* normalize_google_event: cancelled events and ones without an id or a    *)
(* readable start and end are left out.                                    *)
Valid(b, first, last) == {i \in first .. last : Stored[b][i].valid}

NextPage(b, events, count, pos) ==
  fetch' = [fetch EXCEPT ![b].pc = "lock", ![b].events = events, ![b].count = count, ![b].pos = pos,
                         ![b].seen = @ \cup {Cardinality(@) + 1}, ![b].retried = FALSE]

(* Mutant: a page that fills the limit is taken for the last. *)
AfterPageFilled(b, events, count, pos, more, fresh) ==
  IF ~more \/ count >= req[1].limit THEN Batch(b, events, count, TRUE)
  ELSE IF ~fresh THEN Fails(b, "repeated")
  ELSE NextPage(b, events, count, pos)

(* A page with its token for the next: none, a new one, or a repeated one. *)
AfterPage(b, events, count, pos, more, fresh) ==
  IF ~more THEN Batch(b, events, count, TRUE)
  ELSE IF ~fresh THEN Fails(b, "repeated")
  ELSE IF count >= req[1].limit THEN Batch(b, events, count, FALSE)
  ELSE NextPage(b, events, count, pos)

(* The service returns at most as many events as were asked for, and a     *)
(* token for the next page while there are more.                           *)
Page(b, n, more, fresh) ==
  LET f == fetch[b]
      read == Valid(b, f.pos + 1, f.pos + n)
  IN  /\ f.pc = "get"
      /\ n <= req[1].limit - f.count
      /\ more \/ f.pos + n = Len(Stored[b])
      /\ more /\ fresh => Cardinality(f.seen) < MaxPages
      /\ more /\ ~fresh => f.seen # {}
      /\ AfterPage(b, f.events \cup read, f.count + Cardinality(read), f.pos + n, more, fresh)
      /\ UNCHANGED <<req, now, lock, token, answer>>

(* 401: the token is refreshed and the page asked for again, once. *)
Unauthorized(b) ==
  /\ fetch[b].pc = "get"
  /\ IF fetch[b].retried THEN Unavailable(b)
     ELSE IF ~Fits(2 * HttpTime) THEN Exceeded(b)
     ELSE fetch' = [fetch EXCEPT ![b].pc = "lock", ![b].force = TRUE, ![b].retried = TRUE]
  /\ UNCHANGED <<req, now, lock, token, answer>>

GetFails(b) ==
  /\ fetch[b].pc = "get"
  /\ Unavailable(b)
  /\ UNCHANGED <<req, now, lock, token, answer>>

----------------------------------------------------------------------------
(* Time. *)

(* Mutant: a request may take the time of a request, whatever is left.     *)
WaitsWithoutBudget == FetchBudget + HttpTime

(* The tick at which waiting for the lock or a reply is given up. *)
Waits == FetchBudget

(* asyncio.timeout around the provider's call: nothing is kept. *)
BindingTimedOut(b) == Fails(b, "timeout")

(* The deadline that comes first ends the fetch. *)
TimedOut(b) ==
  /\ Active(b)
  /\ now >= Waits \/ now >= BindingTime
  /\ lock' = Unlocked(b)
  /\ IF BindingTime < Waits THEN BindingTimedOut(b) ELSE Exceeded(b)
  /\ UNCHANGED <<req, now, token, answer>>

(* A timer that is due runs before time goes on. *)
Tick ==
  /\ req # <<>> /\ answer = <<>> /\ \E b \in Calendars : Active(b)
  /\ now < Waits /\ now < BindingTime
  /\ now' = now + 1
  /\ UNCHANGED <<req, lock, token, fetch, answer>>

----------------------------------------------------------------------------
(* The listing. *)

Selected == {b \in Calendars : fetch[b].pc # "idle"}

Event(e) == Stored[e[1]][e[2]]
Before(d, e) == \/ Event(d).start < Event(e).start
                \/ Event(d).start = Event(e).start /\ Event(d).rank < Event(e).rank

(* The first events of a sorted list. *)
First(limit, events) == {e \in events : Cardinality({d \in events : Before(d, e)}) < limit}

(* All events by start, the first of them listed. *)
Listing(limit, check) ==
  LET failed == {b \in Selected : fetch[b].failed # ""}
      cut == {b \in Selected \ failed : ~fetch[b].complete}
      all == UNION {{b} \X fetch[b].events : b \in Selected}
      shown == First(limit, all)
      complete == failed = {} /\ cut = {} /\ Cardinality(all) <= limit
  IN  [refused |-> FALSE, events |-> shown, complete |-> complete,
       fetched |-> Selected \ failed, unavailable |-> failed, truncated |-> cut,
       checked |-> check /\ complete,
       available |-> check /\ complete /\ ~\E e \in shown : Event(e).busy]

Finish ==
  /\ req # <<>> /\ answer = <<>>
  /\ \A b \in Selected : fetch[b].pc = "done"
  /\ answer' = <<Listing(req[1].limit, req[1].check)>>
  /\ UNCHANGED <<req, now, lock, token, fetch>>

Reply(b) ==
  \/ TakeLock(b) \/ TokenGranted(b) \/ TokenRefused(b) \/ Unauthorized(b) \/ GetFails(b)
  \/ \E n \in 0 .. Len(Stored[b]) - fetch[b].pos, more, fresh \in BOOLEAN :
       Page(b, n, more, fresh)

CalendarNext ==
  \/ \E r \in Requests : AskCalendars(r)
  \/ \E b \in Calendars : Reply(b) \/ TimedOut(b)
  \/ Tick \/ Finish

(* Time passes and timers fire; replies need not come. *)
CalendarFairness ==
  /\ WF_calendarVars(Tick) /\ WF_calendarVars(Finish)
  /\ \A b \in Calendars : WF_calendarVars(TimedOut(b))

CalendarSpec == CalendarInit /\ [][CalendarNext]_calendarVars /\ CalendarFairness

----------------------------------------------------------------------------
(* Properties. *)

Wanted(r) == UNION {{b} \X Valid(b, 1, Len(Stored[b])) : b \in Authorized(r)}

(* A listing that says it is complete holds every event of every calendar  *)
(* the caller asked for, so "available" means that nobody is busy; one     *)
(* that is not says why.  Whatever is listed is stored, the limit is kept, *)
(* and no event is read twice.                                             *)
ListingIsTruthful ==
  /\ answer # <<>> =>
       LET a == answer[1]
       IN  /\ a.events \subseteq Wanted(req[1]) /\ Cardinality(a.events) <= req[1].limit
           /\ a.complete => a.events = Wanted(req[1])
           /\ a.available => \A e \in Wanted(req[1]) : ~Event(e).busy
           /\ ~a.complete /\ ~a.refused =>
                \/ a.unavailable \cup a.truncated # {}
                \/ Cardinality(Wanted(req[1])) > req[1].limit
  /\ \A b \in Calendars : fetch[b].count = Cardinality(fetch[b].events)

(* Events that were read are listed: running out of time, or a later page  *)
(* that fails, never makes a calendar count as unavailable (only a page    *)
(* token that repeats does).                                               *)
ReadEventsAreKept ==
  [][ \A b \in Calendars : Active(b) /\ fetch'[b].pc = "done" =>
        \/ fetch'[b].failed = "repeated"
        \/ fetch'[b].failed # "" /\ fetch[b].events = {}
        \/ fetch'[b].failed = "" /\ fetch[b].events \subseteq fetch'[b].events ]_calendarVars

(* Every listing is answered, with the token lock free again. *)
ListingEnds == req # <<>> ~> (answer # <<>> /\ lock = Nobody)
============================================================================
