----------------------------- MODULE ModelWarmup -----------------------------
(***************************************************************************)
(* Keeping the local language models loaded (runtime/model_warmup.py).     *)
(*                                                                         *)
(* Every API worker runs one task per distinct configured model.  A task   *)
(* loads its model under a file lock that it shares with the same task of  *)
(* the other workers, calls the model warm only after the model server     *)
(* reported it loaded with the context that serving uses, and goes on      *)
(* asking from time to time.  The server answers a question some time      *)
(* before the answer is read, may unload a model at any time, and may load *)
(* it with another context for someone else.                               *)
(***************************************************************************)
EXTENDS Naturals, FiniteSets

CONSTANTS
  Workers,       \* the API worker processes
  Providers,     \* the configured providers
  KeyOf,         \* the class, address and model of each provider
  NoWorker,      \* no one holds a lock
  MaxEvictions,  \* how often the server unloads models in a behaviour
  MaxFaults,     \* how many calls fail or time out
  MaxStops       \* how often a worker is stopped or dies

Models == {KeyOf[p] : p \in Providers}
Tasks == Workers \X Models

ASSUME WarmupAssumption ==
  /\ NoWorker \notin Workers
  /\ {MaxEvictions, MaxFaults, MaxStops} \subseteq Nat

VARIABLES
  up,            \* the workers that are running
  pc, status,    \* where each task is, and the status it reports
  reply,         \* the answer to a task's last residency question
  asOf,          \* the evictions there had been when it was answered yes
  fileLock,      \* who holds the lock file of each model
  loaded,        \* what the server holds: "no", "serving", "other" context
  abandoned,     \* a load that its caller gave up and the server did not
  loads,         \* load calls made for each model
  evictions, faults, stops

vars == <<up, pc, status, reply, asOf, fileLock, loaded, abandoned, loads,
          evictions, faults, stops>>
server == <<loaded, abandoned, loads>>
budgets == <<evictions, faults, stops>>

Questions == {"recheck", "verify", "confirm"}

Init ==
  /\ up = {}
  /\ pc = [t \in Tasks |-> "off"]
  /\ status = [t \in Tasks |-> "not_started"]
  /\ reply = [t \in Tasks |-> "none"]
  /\ asOf = [t \in Tasks |-> 0]
  /\ fileLock = [m \in Models |-> NoWorker]
  /\ loaded = [m \in Models |-> "no"]
  /\ abandoned = [m \in Models |-> FALSE]
  /\ loads = [m \in Models |-> 0]
  /\ evictions = [m \in Models |-> 0]
  /\ faults = [m \in Models |-> 0]
  /\ stops = 0

TotalEvictions == Cardinality({c \in Models \X (1 .. MaxEvictions) : c[2] <= evictions[c[1]]})
TotalFaults == Cardinality({c \in Models \X (1 .. MaxFaults) : c[2] <= faults[c[1]]})

----------------------------------------------------------------------------
(* The worker's lifecycle.                                                 *)

Start(w) ==
  /\ w \notin up
  /\ up' = up \cup {w}
  /\ pc' = [t \in Tasks |-> IF t[1] = w THEN "begin" ELSE pc[t]]
  /\ status' = [t \in Tasks |-> IF t[1] = w THEN "not_started" ELSE status[t]]
  /\ UNCHANGED <<reply, asOf, fileLock, server, budgets>>

(* close() cancels every task, whatever it waits for; a process that dies  *)
(* loses its locks as well.  The server finishes a load or drops it.       *)
Stop(w) ==
  /\ w \in up /\ stops < MaxStops
  /\ up' = up \ {w}
  /\ pc' = [t \in Tasks |-> IF t[1] = w THEN "off" ELSE pc[t]]
  /\ reply' = [t \in Tasks |-> IF t[1] = w THEN "none" ELSE reply[t]]
  /\ fileLock' = [m \in Models |-> IF fileLock[m] = w THEN NoWorker ELSE fileLock[m]]
  /\ abandoned' = [m \in Models |-> abandoned[m] \/ pc[<<w, m>>] = "load"]
  /\ stops' = stops + 1
  /\ UNCHANGED <<status, asOf, loaded, loads, evictions, faults>>

----------------------------------------------------------------------------
(* The model server.                                                       *)

(* Mutant: any loaded context counts. *)
IsResidentAnyContext(m) == loaded[m] # "no"

(* is_resident: loaded, with the context that serving calls use. *)
IsResident(m) == loaded[m] = "serving"

Answer(t) ==
  /\ pc[t] \in Questions /\ reply[t] = "none"
  /\ reply' = [reply EXCEPT ![t] = IF IsResident(t[2]) THEN "yes" ELSE "no"]
  /\ asOf' = [asOf EXCEPT ![t] = IF IsResident(t[2]) THEN evictions[t[2]] ELSE @]
  /\ UNCHANGED <<up, pc, status, fileLock, server, budgets>>

Evict(m) ==
  /\ loaded[m] = "serving" /\ TotalEvictions < MaxEvictions
  /\ \E other \in {"no", "other"} : loaded' = [loaded EXCEPT ![m] = other]
  /\ evictions' = [evictions EXCEPT ![m] = @ + 1]
  /\ UNCHANGED <<up, pc, status, reply, asOf, fileLock, abandoned, loads, faults, stops>>

LateLoad(m) ==
  /\ abandoned[m]
  /\ abandoned' = [abandoned EXCEPT ![m] = FALSE]
  /\ \E done \in BOOLEAN :
       loaded' = [loaded EXCEPT ![m] = IF done THEN "serving" ELSE @]
  /\ UNCHANGED <<up, pc, status, reply, asOf, fileLock, loads, budgets>>

----------------------------------------------------------------------------
(* A task.                                                                 *)

Goto(t, where, report) ==
  /\ pc' = [pc EXCEPT ![t] = where]
  /\ status' = [status EXCEPT ![t] = report]
  /\ reply' = [reply EXCEPT ![t] = "none"]

Release(t) == fileLock' = [fileLock EXCEPT ![t[2]] = IF @ = t[1] THEN NoWorker ELSE @]

(* The top of the loop: a warm model is asked about after a while, any     *)
(* other is warmed, and a task comes back here from its backoff.           *)
Turn(t) ==
  /\ pc[t] \in {"begin", "sleep", "backoff"}
  /\ IF pc[t] = "sleep" THEN Goto(t, "recheck", "warm") ELSE Goto(t, "lock", "warming")
  /\ UNCHANGED <<up, asOf, fileLock, server, budgets>>

(* Mutant: a model that was warm once is taken to be warm for good. *)
RecheckIgnored(t) ==
  /\ pc[t] = "recheck" /\ reply[t] # "none"
  /\ Goto(t, "sleep", "warm")
  /\ UNCHANGED <<up, asOf, fileLock, server, budgets>>

Recheck(t) ==
  /\ pc[t] = "recheck" /\ reply[t] # "none"
  /\ IF reply[t] = "yes" THEN Goto(t, "sleep", "warm") ELSE Goto(t, "lock", "warming")
  /\ UNCHANGED <<up, asOf, fileLock, server, budgets>>

(* A recheck that fails is reported as failed for no longer than it takes  *)
(* to start warming: there is no await in between.                         *)
RecheckFails(t) ==
  /\ pc[t] = "recheck" /\ TotalFaults < MaxFaults
  /\ Goto(t, "lock", "warming")
  /\ faults' = [faults EXCEPT ![t[2]] = @ + 1]
  /\ UNCHANGED <<up, asOf, fileLock, server, evictions, stops>>

(* Mutant: the lock is shared instead of exclusive. *)
LockShared(t) ==
  /\ pc[t] = "lock"
  /\ fileLock' = [fileLock EXCEPT ![t[2]] = t[1]]
  /\ Goto(t, "verify", "warming")
  /\ UNCHANGED <<up, asOf, server, budgets>>

Lock(t) ==
  /\ pc[t] = "lock" /\ fileLock[t[2]] = NoWorker
  /\ fileLock' = [fileLock EXCEPT ![t[2]] = t[1]]
  /\ Goto(t, "verify", "warming")
  /\ UNCHANGED <<up, asOf, server, budgets>>

(* Loaded by another worker while this one waited for the lock, or to load. *)
Verify(t) ==
  /\ pc[t] = "verify" /\ reply[t] # "none"
  /\ IF reply[t] = "yes"
     THEN Goto(t, "sleep", "warm") /\ Release(t) /\ UNCHANGED loads
     ELSE /\ Goto(t, "load", "warming")
          /\ loads' = [loads EXCEPT ![t[2]] = @ + 1]
          /\ UNCHANGED fileLock
  /\ UNCHANGED <<up, asOf, loaded, abandoned, budgets>>

Load(t) ==
  /\ pc[t] = "load"
  /\ loaded' = [loaded EXCEPT ![t[2]] = "serving"]
  /\ Goto(t, "confirm", "warming")
  /\ UNCHANGED <<up, asOf, fileLock, abandoned, loads, budgets>>

(* An exception inside the lock: it is released, and the task backs off. *)
Fail(t) == Goto(t, "backoff", "failed") /\ Release(t)

(* The lock file cannot be opened, a question fails, the load fails, or it *)
(* takes longer than the timeout and the server goes on with it.           *)
Fault(t) ==
  /\ pc[t] \in {"lock", "verify", "load", "confirm"}
  /\ TotalFaults < MaxFaults
  /\ Fail(t)
  /\ faults' = [faults EXCEPT ![t[2]] = @ + 1]
  /\ \E goesOn \in IF pc[t] = "load" THEN BOOLEAN ELSE {FALSE} :
       abandoned' = [abandoned EXCEPT ![t[2]] = @ \/ goesOn]
  /\ UNCHANGED <<up, asOf, loaded, loads, evictions, stops>>

Confirm(t) ==
  /\ pc[t] = "confirm" /\ reply[t] # "none"
  /\ IF reply[t] = "yes" THEN Goto(t, "sleep", "warm") /\ Release(t) ELSE Fail(t)
  /\ UNCHANGED <<up, asOf, server, budgets>>

----------------------------------------------------------------------------

Step(t) ==
  \/ Turn(t) \/ Answer(t) \/ Recheck(t) \/ Lock(t) \/ Verify(t) \/ Load(t) \/ Confirm(t)

Next ==
  \/ \E w \in Workers : Start(w) \/ Stop(w)
  \/ \E m \in Models : Evict(m) \/ LateLoad(m)
  \/ \E t \in Tasks : Step(t) \/ RecheckFails(t) \/ Fault(t)

(* The event loop runs every task that can go on, and the server answers. *)
Fairness == \A t \in Tasks : WF_vars(Step(t))

Spec == Init /\ [][Next]_vars /\ Fairness

----------------------------------------------------------------------------

(* snapshot(): the readiness a worker reports for all its models. *)
Snapshot(w) ==
  LET reported == {status[<<w, m>>] : m \in Models}
  IN  IF Models = {} THEN "disabled"
      ELSE IF reported = {"warm"} THEN "warm"
      ELSE IF "failed" \in reported THEN "failed" ELSE "warming"

(* A running worker that reports its models warm asked for each of them    *)
(* and was told so: a model that has not been unloaded since then is       *)
(* loaded with the context of serving calls.                               *)
WarmWasVerified ==
  \A w \in up : Snapshot(w) = "warm" =>
    \A m \in Models : evictions[m] = asOf[<<w, m>>] => loaded[m] = "serving"

(* "Warm each local model once": the workers share one load, and load      *)
(* again only for an eviction, a failed call or a worker stopped midway.   *)
WarmedOnce == \A m \in Models : loads[m] <= 1 + evictions[m] + faults[m] + stops

(* Whatever was unloaded, failed or timed out on the way, once the server  *)
(* keeps its models every running worker ends up reporting them warm, and  *)
(* truthfully so.                                                          *)
StaysWarm ==
  <>[](\A w \in up : Snapshot(w) = "warm" /\ \A m \in Models : loaded[m] = "serving")
============================================================================
