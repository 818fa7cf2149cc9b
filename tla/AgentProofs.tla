----------------------------- MODULE AgentProofs -----------------------------
(***************************************************************************)
(* What the agent's runtime promises, and of the services it waits for.    *)
(* ModelWarmup: a worker that reports its models warm was told so, and the *)
(* workers load a model once and then only for a reason, for any number of *)
(* workers and models, whatever the server unloads and whoever fails,      *)
(* stops or dies.                                                          *)
(* Calendar: a listing is true, whatever the calendars hold, however many  *)
(* there are, and whichever replies are late, lost or refused.             *)
(* ModelLoop: an answer calls tools as it should and ends as it says,      *)
(* whatever the language model streams and however its tools fail.         *)
(***************************************************************************)
EXTENDS ModelWarmup, Calendar, ModelLoop, FiniteSetTheorems, WellFoundedInduction, TLAPS

----------------------------------------------------------------------------
(* Model warm-up. *)

Places == {"off", "begin", "sleep", "backoff", "recheck", "lock", "verify", "load", "confirm"}
Statuses == {"not_started", "warming", "warm", "failed"}

Types ==
  /\ up \in SUBSET Workers
  /\ pc \in [Tasks -> Places]
  /\ status \in [Tasks -> Statuses]
  /\ reply \in [Tasks -> {"none", "yes", "no"}]
  /\ asOf \in [Tasks -> Nat]
  /\ fileLock \in [Models -> Workers \cup {NoWorker}]
  /\ loaded \in [Models -> {"no", "serving", "other"}]
  /\ abandoned \in [Models -> BOOLEAN]
  /\ loads \in [Models -> Nat]
  /\ evictions \in [Models -> Nat]
  /\ faults \in [Models -> Nat]
  /\ stops \in Nat

(* A task in the middle of a warm-up holds the lock file of its model. *)
Inside(t) == pc[t] \in {"verify", "load", "confirm"}
LockHeld == \A t \in Tasks : Inside(t) => fileLock[t[2]] = t[1]

(* The tasks of a worker that is down do nothing. *)
DownIsOff == \A t \in Tasks : t[1] \notin up => pc[t] = "off"

(* A task that takes its model for warm was told so, and what it was told  *)
(* is true until the model is unloaded again.                              *)
Trusts(t) == pc[t] \in {"sleep", "recheck"} \/ status[t] = "warm" \/ reply[t] = "yes"
Told ==
  \A t \in Tasks :
    /\ asOf[t] <= evictions[t[2]]
    /\ Trusts(t) /\ asOf[t] = evictions[t[2]] => loaded[t[2]] = "serving"

(* A load is due: the model is not served and nobody is loading it, or a   *)
(* task was told so and has not loaded it yet.  The loads made so far and  *)
(* the one that is due are paid for by evictions, failures and stops.      *)
Due(m) ==
  \/ loaded[m] # "serving" /\ \A t \in Tasks : t[2] = m => pc[t] # "load"
  \/ \E t \in Tasks : t[2] = m /\ pc[t] = "verify" /\ reply[t] = "no"
Paid(m) ==
  /\ loads[m] <= 1 + evictions[m] + faults[m] + stops
  /\ Due(m) => loads[m] <= evictions[m] + faults[m] + stops

Inv == Types /\ LockHeld /\ DownIsOff /\ Told /\ \A m \in Models : Paid(m)

----------------------------------------------------------------------------

LEMMA TaskParts ==
    ASSUME NEW t \in Tasks
    PROVE  t[1] \in Workers /\ t[2] \in Models /\ t = <<t[1], t[2]>>
  BY DEF Tasks

LEMMA TaskOf ==
    ASSUME NEW w \in Workers, NEW m \in Models
    PROVE  <<w, m>> \in Tasks /\ <<w, m>>[1] = w /\ <<w, m>>[2] = m
  BY DEF Tasks

(* What a task's move does to the tasks. *)
LEMMA GotoTypes ==
    ASSUME Types, NEW t \in Tasks, NEW p \in Places, NEW s \in Statuses, Goto(t, p, s)
    PROVE  /\ pc' \in [Tasks -> Places] /\ status' \in [Tasks -> Statuses]
           /\ reply' \in [Tasks -> {"none", "yes", "no"}]
           /\ pc'[t] = p /\ status'[t] = s /\ reply'[t] = "none"
           /\ \A u \in Tasks \ {t} : pc'[u] = pc[u] /\ status'[u] = status[u] /\ reply'[u] = reply[u]
  BY DEF Types, Goto

LEMMA ReleaseTypes ==
    ASSUME Types, NEW t \in Tasks, Release(t)
    PROVE  /\ fileLock' \in [Models -> Workers \cup {NoWorker}]
           /\ \A u \in Tasks : fileLock[u[2]] = u[1] /\ fileLock'[u[2]] # u[1] => u = t
<1>1. t[2] \in Models /\ t = <<t[1], t[2]>>
  BY TaskParts
<1>2. fileLock' \in [Models -> Workers \cup {NoWorker}]
  BY <1>1 DEF Types, Release
<1>3. ASSUME NEW u \in Tasks, fileLock[u[2]] = u[1], fileLock'[u[2]] # u[1] PROVE u = t
  <2>1. u[2] \in Models /\ u = <<u[1], u[2]>>
    BY TaskParts
  <2>2. u[2] = t[2] /\ u[1] = t[1]
    BY <1>1, <1>3, <2>1 DEF Types, Release
  <2> QED
    BY <1>1, <2>1, <2>2
<1> QED
  BY <1>2, <1>3

LEMMA StepTypes == Types /\ [Next]_vars => Types'
<1> SUFFICES ASSUME Types, [Next]_vars PROVE Types'
  OBVIOUS
<1> USE DEF server, budgets
<1>1. ASSUME NEW w \in Workers, Start(w) PROVE Types'
  BY <1>1 DEF Types, Start, Places, Statuses
<1>2. ASSUME NEW w \in Workers, Stop(w) PROVE Types'
  BY <1>2 DEF Types, Stop, Places
<1>3. ASSUME NEW m \in Models, Evict(m) \/ LateLoad(m) PROVE Types'
  <2>1. CASE Evict(m)
    BY <2>1 DEF Types, Evict
  <2>2. CASE LateLoad(m)
    BY <2>2 DEF Types, LateLoad
  <2> QED
    BY <1>3, <2>1, <2>2
<1>4. ASSUME NEW t \in Tasks, Turn(t) PROVE Types'
  BY <1>4, GotoTypes DEF Types, Turn, Places, Statuses
<1>5. ASSUME NEW t \in Tasks, Answer(t) PROVE Types'
  BY <1>5, TaskParts DEF Types, Answer
<1>6. ASSUME NEW t \in Tasks, Recheck(t) PROVE Types'
  BY <1>6, GotoTypes DEF Types, Recheck, Places, Statuses
<1>7. ASSUME NEW t \in Tasks, RecheckFails(t) PROVE Types'
  BY <1>7, GotoTypes, TaskParts DEF Types, RecheckFails, Places, Statuses
<1>8. ASSUME NEW t \in Tasks, Lock(t) PROVE Types'
  BY <1>8, GotoTypes, TaskParts DEF Types, Lock, Places, Statuses
<1>9. ASSUME NEW t \in Tasks, Verify(t) PROVE Types'
  <2>1. CASE reply[t] = "yes"
    BY <1>9, <2>1, GotoTypes, ReleaseTypes DEF Types, Verify, Places, Statuses
  <2>2. CASE reply[t] # "yes"
    <3>1. /\ Goto(t, "load", "warming") /\ loads' = [loads EXCEPT ![t[2]] = @ + 1]
          /\ UNCHANGED <<fileLock, up, asOf, loaded, abandoned, evictions, faults, stops>>
      BY <1>9, <2>2 DEF Verify, budgets
    <3>2. loads' \in [Models -> Nat]
      BY <3>1, TaskParts DEF Types
    <3>3. /\ pc' \in [Tasks -> Places] /\ status' \in [Tasks -> Statuses]
          /\ reply' \in [Tasks -> {"none", "yes", "no"}]
      BY <3>1, GotoTypes DEF Types, Places, Statuses
    <3> QED
      BY <3>1, <3>2, <3>3 DEF Types
  <2> QED
    BY <2>1, <2>2
<1>10. ASSUME NEW t \in Tasks, Load(t) PROVE Types'
  BY <1>10, GotoTypes, TaskParts DEF Types, Load, Places, Statuses
<1>11. ASSUME NEW t \in Tasks, Confirm(t) PROVE Types'
  BY <1>11, GotoTypes, ReleaseTypes DEF Types, Confirm, Fail, Places, Statuses
<1>12. ASSUME NEW t \in Tasks, Fault(t) PROVE Types'
  <2>1. /\ Goto(t, "backoff", "failed") /\ Release(t)
        /\ faults' = [faults EXCEPT ![t[2]] = @ + 1]
        /\ UNCHANGED <<up, asOf, loaded, loads, evictions, stops>>
    BY <1>12 DEF Fault, Fail
  <2>2. abandoned' \in [Models -> BOOLEAN]
    <3>1. PICK goesOn \in BOOLEAN : abandoned' = [abandoned EXCEPT ![t[2]] = @ \/ goesOn]
      BY <1>12 DEF Fault
    <3>2. (abandoned[t[2]] \/ goesOn) \in BOOLEAN
      OBVIOUS
    <3> QED
      BY <3>1, <3>2 DEF Types
  <2> QED
    <3>1. /\ pc' \in [Tasks -> Places] /\ status' \in [Tasks -> Statuses]
          /\ reply' \in [Tasks -> {"none", "yes", "no"}]
          /\ fileLock' \in [Models -> Workers \cup {NoWorker}]
      BY <2>1, GotoTypes, ReleaseTypes DEF Places, Statuses
    <3>2. faults' \in [Models -> Nat]
      BY <2>1, TaskParts DEF Types
    <3> QED
      BY <2>1, <2>2, <3>1, <3>2 DEF Types
<1>13. CASE UNCHANGED vars
  BY <1>13 DEF Types, vars
<1> QED
  BY <1>1, <1>2, <1>3, <1>4, <1>5, <1>6, <1>7, <1>8, <1>9, <1>10, <1>11, <1>12, <1>13
  DEF Next, Step

(* Whoever takes, keeps or gives up the lock file, one task is inside. *)
LEMMA StepLock == Types /\ LockHeld /\ [Next]_vars => LockHeld'
<1> SUFFICES ASSUME Types, LockHeld, [Next]_vars PROVE LockHeld'
  OBVIOUS
<1> USE DEF server, budgets, LockHeld, Inside
<1>1. ASSUME NEW w \in Workers, Start(w) PROVE LockHeld'
  BY <1>1 DEF Types, Start
<1>2. ASSUME NEW w \in Workers, Stop(w) PROVE LockHeld'
  <2> SUFFICES ASSUME NEW t \in Tasks, Inside(t)' PROVE fileLock'[t[2]] = t[1]
    OBVIOUS
  <2>1. t[1] # w /\ Inside(t)
    BY <1>2 DEF Types, Stop
  <2> QED
    BY <1>2, <2>1, TaskParts DEF Types, Stop
<1>3. ASSUME NEW t \in Tasks, NEW p \in Places, NEW s \in Statuses, Goto(t, p, s),
             ~(p \in {"verify", "load", "confirm"}), fileLock' = fileLock \/ Release(t)
      PROVE  LockHeld'
  BY <1>3, GotoTypes, ReleaseTypes
<1>4. ASSUME NEW t \in Tasks, NEW p \in Places, NEW s \in Statuses, Goto(t, p, s),
             Inside(t), fileLock' = fileLock
      PROVE  LockHeld'
  BY <1>4, GotoTypes
<1>5. ASSUME NEW t \in Tasks, Turn(t) \/ Recheck(t) \/ RecheckFails(t) PROVE LockHeld'
  BY <1>3, <1>5 DEF Turn, Recheck, RecheckFails, Places, Statuses
<1>6. ASSUME NEW t \in Tasks, Lock(t) PROVE LockHeld'
  <2>1. /\ pc'[t] = "verify" /\ \A u \in Tasks \ {t} : pc'[u] = pc[u]
    BY <1>6, GotoTypes DEF Lock, Places, Statuses
  <2>2. fileLock[t[2]] = NoWorker /\ fileLock' = [fileLock EXCEPT ![t[2]] = t[1]] /\ t[2] \in Models
    BY <1>6, TaskParts DEF Lock
  <2>3. ASSUME NEW u \in Tasks, u # t, Inside(u) PROVE fileLock'[u[2]] = u[1]
    <3>1. u[2] # t[2]
      BY <2>2, <2>3, TaskParts, WarmupAssumption
    <3> QED
      BY <2>2, <2>3, <3>1, TaskParts DEF Types
  <2> QED
    BY <2>1, <2>2, <2>3 DEF Types
<1>7. ASSUME NEW t \in Tasks, Verify(t) PROVE LockHeld'
  <2>1. CASE reply[t] = "yes"
    BY <1>3, <1>7, <2>1 DEF Verify, Places, Statuses
  <2>2. CASE reply[t] # "yes"
    BY <1>4, <1>7, <2>2 DEF Verify, Places, Statuses
  <2> QED
    BY <2>1, <2>2
<1>8. ASSUME NEW t \in Tasks, Load(t) PROVE LockHeld'
  BY <1>4, <1>8 DEF Load, Places, Statuses
<1>9. ASSUME NEW t \in Tasks, Confirm(t) \/ Fault(t) PROVE LockHeld'
  BY <1>3, <1>9 DEF Confirm, Fault, Fail, Places, Statuses
<1>10. CASE UNCHANGED <<pc, fileLock>>
  BY <1>10
<1> QED
  BY <1>1, <1>2, <1>5, <1>6, <1>7, <1>8, <1>9, <1>10
  DEF Next, Step, Answer, Evict, LateLoad, vars

LEMMA StepDown == Types /\ DownIsOff /\ [Next]_vars => DownIsOff'
<1> SUFFICES ASSUME Types, DownIsOff, [Next]_vars PROVE DownIsOff'
  OBVIOUS
<1> USE DEF DownIsOff
<1>1. ASSUME NEW w \in Workers, Start(w) \/ Stop(w) PROVE DownIsOff'
  BY <1>1 DEF Types, Start, Stop
<1>2. ASSUME NEW t \in Tasks, NEW p \in Places, NEW s \in Statuses, Goto(t, p, s),
             pc[t] # "off", up' = up
      PROVE  DownIsOff'
  BY <1>2, GotoTypes
<1>3. ASSUME NEW t \in Tasks, Turn(t) \/ Recheck(t) \/ RecheckFails(t) \/ Lock(t) \/ Load(t)
      PROVE  DownIsOff'
  BY <1>2, <1>3 DEF Turn, Recheck, RecheckFails, Lock, Load, Places, Statuses
<1>4. ASSUME NEW t \in Tasks, Verify(t) \/ Confirm(t) \/ Fault(t) PROVE DownIsOff'
  BY <1>2, <1>4 DEF Verify, Confirm, Fault, Fail, Places, Statuses
<1>5. CASE UNCHANGED <<up, pc>>
  BY <1>5
<1> QED
  BY <1>1, <1>3, <1>4, <1>5 DEF Next, Step, Answer, Evict, LateLoad, vars

----------------------------------------------------------------------------

(* A task that goes on to trust its model had trusted it before. *)
LEMMA ToldFrame ==
    ASSUME Types, Told, asOf' = asOf, evictions' = evictions,
           \A m \in Models : loaded[m] = "serving" => loaded'[m] = "serving",
           \A t \in Tasks : Trusts(t)' => Trusts(t)
    PROVE  Told'
  BY TaskParts DEF Told, Types

LEMMA StepTold == Types /\ Told /\ [Next]_vars => Told'
<1> SUFFICES ASSUME Types, Told, [Next]_vars PROVE Told'
  OBVIOUS
<1> USE DEF server, budgets, Trusts
<1>1. ASSUME NEW w \in Workers, Start(w) PROVE Told'
  BY <1>1, ToldFrame DEF Types, Start
<1>2. ASSUME NEW w \in Workers, Stop(w) PROVE Told'
  BY <1>2, ToldFrame DEF Types, Stop
<1>3. ASSUME NEW m \in Models, Evict(m) PROVE Told'
  <2>1. /\ evictions' = [evictions EXCEPT ![m] = @ + 1]
        /\ \A n \in Models \ {m} : loaded'[n] = loaded[n]
        /\ UNCHANGED <<pc, status, reply, asOf>>
    BY <1>3 DEF Types, Evict
  <2> SUFFICES ASSUME NEW t \in Tasks
               PROVE  /\ asOf[t] <= evictions'[t[2]]
                      /\ Trusts(t) /\ asOf[t] = evictions'[t[2]] => loaded'[t[2]] = "serving"
    BY <2>1 DEF Told
  <2>2. t[2] \in Models /\ asOf[t] \in Nat /\ evictions[t[2]] \in Nat
    BY TaskParts DEF Types
  <2>3. /\ asOf[t] <= evictions[t[2]]
        /\ Trusts(t) /\ asOf[t] = evictions[t[2]] => loaded[t[2]] = "serving"
    BY DEF Told
  <2>4. CASE t[2] = m
    <3>1. evictions'[t[2]] = evictions[t[2]] + 1
      BY <2>1, <2>2, <2>4 DEF Types
    <3> QED
      BY <2>2, <2>3, <3>1
  <2>5. CASE t[2] # m
    <3>1. evictions'[t[2]] = evictions[t[2]]
      BY <2>1, <2>2, <2>5 DEF Types
    <3> QED
      BY <2>1, <2>2, <2>3, <2>5, <3>1
  <2> QED
    BY <2>4, <2>5
<1>4. ASSUME NEW m \in Models, LateLoad(m) PROVE Told'
  <2>1. \A n \in Models : loaded[n] = "serving" => loaded'[n] = "serving"
    BY <1>4 DEF Types, LateLoad
  <2> QED
    BY <1>4, <2>1, ToldFrame DEF LateLoad
<1>5. ASSUME NEW t \in Tasks, Answer(t) PROVE Told'
  <2>1. UNCHANGED <<pc, status, loaded, evictions>>
    BY <1>5 DEF Answer
  <2>2. t[2] \in Models /\ \A u \in Tasks \ {t} : asOf'[u] = asOf[u] /\ reply'[u] = reply[u]
    BY <1>5, TaskParts DEF Answer, Types
  <2>3. CASE loaded[t[2]] = "serving"
    <3>1. asOf'[t] = evictions[t[2]] /\ evictions[t[2]] \in Nat
      BY <1>5, <2>2, <2>3 DEF Answer, IsResident, Types
    <3> QED
      BY <2>1, <2>2, <2>3, <3>1 DEF Told
  <2>4. CASE loaded[t[2]] # "serving"
    <3>1. asOf'[t] = asOf[t] /\ reply'[t] = "no"
      BY <1>5, <2>4 DEF Answer, IsResident, Types
    <3> QED
      BY <2>1, <2>2, <3>1 DEF Told
  <2> QED
    BY <2>3, <2>4
<1>6. ASSUME NEW t \in Tasks, NEW p \in Places, NEW s \in Statuses, Goto(t, p, s),
             (p \in {"sleep", "recheck"} \/ s = "warm") => Trusts(t),
             UNCHANGED <<asOf, evictions>>,
             \A m \in Models : loaded[m] = "serving" => loaded'[m] = "serving"
      PROVE  Told'
  <2>1. \A u \in Tasks : Trusts(u)' => Trusts(u)
    BY <1>6, GotoTypes
  <2> QED
    BY <1>6, <2>1, ToldFrame
<1>7. ASSUME NEW t \in Tasks, Turn(t) \/ Recheck(t) \/ RecheckFails(t) PROVE Told'
  BY <1>6, <1>7 DEF Turn, Recheck, RecheckFails, Places, Statuses
<1>8. ASSUME NEW t \in Tasks, Lock(t) \/ Verify(t) \/ Confirm(t) \/ Fault(t) PROVE Told'
  BY <1>6, <1>8 DEF Lock, Verify, Confirm, Fault, Fail, Places, Statuses
<1>9. ASSUME NEW t \in Tasks, Load(t) PROVE Told'
  <2>1. \A m \in Models : loaded[m] = "serving" => loaded'[m] = "serving"
    BY <1>9, TaskParts DEF Load, Types
  <2> QED
    BY <1>6, <1>9, <2>1 DEF Load, Places, Statuses
<1>10. CASE UNCHANGED vars
  BY <1>10, ToldFrame DEF vars
<1> QED
  BY <1>1, <1>2, <1>3, <1>4, <1>5, <1>7, <1>8, <1>9, <1>10 DEF Next, Step

----------------------------------------------------------------------------

(* One model has one task inside at a time. *)
LEMMA OneInside ==
    ASSUME LockHeld, NEW t \in Tasks, NEW u \in Tasks, Inside(t), Inside(u), t[2] = u[2]
    PROVE  t = u
  BY TaskParts DEF LockHeld

(* A step that makes no load, and makes one due only at a price. *)
LEMMA PaidFrame ==
    ASSUME Types, Types', NEW m \in Models, Paid(m), loads'[m] = loads[m],
           evictions[m] <= evictions'[m], faults[m] <= faults'[m], stops <= stops',
           \/ Due(m)' => Due(m)
           \/ evictions[m] + faults[m] + stops < evictions'[m] + faults'[m] + stops'
    PROVE  Paid(m)'
<1>1. /\ loads[m] \in Nat /\ evictions[m] \in Nat /\ faults[m] \in Nat /\ stops \in Nat
      /\ evictions'[m] \in Nat /\ faults'[m] \in Nat /\ stops' \in Nat
  BY DEF Types
<1>2. CASE Due(m)' => Due(m)
  BY <1>1, <1>2 DEF Paid
<1>3. CASE evictions[m] + faults[m] + stops < evictions'[m] + faults'[m] + stops'
  BY <1>1, <1>3 DEF Paid
<1> QED
  BY <1>2, <1>3

(* A task that moves, and is not loading, makes nothing due. *)
LEMMA NotDue ==
    ASSUME Types, NEW t \in Tasks, NEW p \in Places, NEW s \in Statuses, Goto(t, p, s),
           pc[t] # "load",
           \A m \in Models : loaded[m] = "serving" => loaded'[m] = "serving",
           NEW m \in Models, Due(m)'
    PROVE  Due(m)
<1>1. /\ pc'[t] = p /\ reply'[t] = "none"
      /\ \A u \in Tasks \ {t} : pc'[u] = pc[u] /\ reply'[u] = reply[u]
  BY GotoTypes
<1> QED
  BY <1>1 DEF Due

LEMMA StepPaid ==
    ASSUME Inv, [Next]_vars, Types', NEW m \in Models
    PROVE  Paid(m)'
<1> USE DEF server, budgets
<1>0. /\ Types /\ LockHeld /\ Paid(m)
      /\ evictions[m] \in Nat /\ faults[m] \in Nat /\ stops \in Nat /\ loads[m] \in Nat
  BY DEF Inv, Types
<1>1. ASSUME NEW w \in Workers, Start(w) PROVE Paid(m)'
  <2>1. ASSUME Due(m)' PROVE Due(m)
    <3>1. \A t \in Tasks : pc'[t] = pc[t] \/ (pc[t] = "off" /\ pc'[t] = "begin")
      BY <1>0, <1>1 DEF Start, Types, Inv, DownIsOff
    <3> QED
      BY <1>1, <2>1, <3>1 DEF Due, Start
  <2> QED
    BY <1>0, <1>1, <2>1, PaidFrame DEF Start
<1>2. ASSUME NEW w \in Workers, Stop(w) PROVE Paid(m)'
  <2>1. stops' = stops + 1 /\ loads' = loads /\ evictions' = evictions /\ faults' = faults
    BY <1>2 DEF Stop
  <2> QED
    BY <1>0, <2>1, PaidFrame
<1>3. ASSUME NEW n \in Models, Evict(n) PROVE Paid(m)'
  <2>1. /\ loads' = loads /\ faults' = faults /\ stops' = stops
        /\ UNCHANGED <<pc, reply>>
    BY <1>3 DEF Evict
  <2>2. CASE n = m
    <3>1. evictions'[m] = evictions[m] + 1
      BY <1>0, <1>3, <2>2 DEF Evict, Types
    <3> QED
      BY <1>0, <2>1, <3>1, PaidFrame
  <2>3. CASE n # m
    <3>1. evictions'[m] = evictions[m] /\ loaded'[m] = loaded[m]
      BY <1>0, <1>3, <2>3 DEF Evict, Types
    <3>2. Due(m)' => Due(m)
      BY <2>1, <3>1 DEF Due
    <3> QED
      BY <1>0, <2>1, <3>1, <3>2, PaidFrame
  <2> QED
    BY <2>2, <2>3
<1>4. ASSUME NEW n \in Models, LateLoad(n) PROVE Paid(m)'
  <2>1. loaded'[m] = loaded[m] \/ loaded'[m] = "serving"
    BY <1>0, <1>4 DEF LateLoad, Types
  <2>2. Due(m)' => Due(m)
    BY <1>4, <2>1 DEF Due, LateLoad
  <2> QED
    BY <1>0, <1>4, <2>2, PaidFrame DEF LateLoad
<1>5. ASSUME NEW t \in Tasks, Answer(t) PROVE Paid(m)'
  <2>1. /\ UNCHANGED <<pc, loaded, loads, evictions, faults, stops>>
        /\ \A u \in Tasks \ {t} : reply'[u] = reply[u]
        /\ reply'[t] = "no" => loaded[t[2]] # "serving"
    BY <1>0, <1>5 DEF Answer, IsResident, Types
  <2>2. ASSUME Due(m)' PROVE Due(m)
    <3>1. CASE t[2] = m /\ pc[t] = "verify" /\ reply'[t] = "no"
      <4>1. \A u \in Tasks : u[2] = m => pc[u] # "load"
        BY <1>0, <3>1, OneInside DEF Inside
      <4> QED
        BY <2>1, <3>1, <4>1 DEF Due
    <3>2. CASE ~(t[2] = m /\ pc[t] = "verify" /\ reply'[t] = "no")
      BY <2>1, <2>2, <3>2 DEF Due
    <3> QED
      BY <3>1, <3>2
  <2> QED
    BY <1>0, <2>1, <2>2, PaidFrame
<1>6. ASSUME NEW t \in Tasks, NEW p \in Places, NEW s \in Statuses, Goto(t, p, s),
             pc[t] # "load", loaded' = loaded, loads' = loads, evictions' = evictions,
             faults[m] <= faults'[m], stops' = stops
      PROVE  Paid(m)'
  BY <1>0, <1>6, NotDue, PaidFrame
<1>7. ASSUME NEW t \in Tasks, Turn(t) \/ Recheck(t) \/ Lock(t) \/ Confirm(t) PROVE Paid(m)'
  <2>1. UNCHANGED <<loaded, loads, evictions, faults, stops>> /\ pc[t] # "load"
    BY <1>7 DEF Turn, Recheck, Lock, Confirm
  <2> QED
    BY <1>0, <1>6, <1>7, <2>1 DEF Turn, Recheck, Lock, Confirm, Fail, Places, Statuses
<1>8. ASSUME NEW t \in Tasks, faults' = [faults EXCEPT ![t[2]] = @ + 1]
      PROVE  faults'[m] = IF t[2] = m THEN faults[m] + 1 ELSE faults[m]
  BY <1>0, <1>8, TaskParts DEF Types
<1>9. ASSUME NEW t \in Tasks, RecheckFails(t) PROVE Paid(m)'
  <2>1. faults[m] <= faults'[m]
    BY <1>0, <1>8, <1>9 DEF RecheckFails
  <2> QED
    BY <1>6, <1>9, <2>1 DEF RecheckFails, Places, Statuses
<1>10. ASSUME NEW t \in Tasks, Fault(t) PROVE Paid(m)'
  <2>1. /\ Goto(t, "backoff", "failed") /\ UNCHANGED <<loaded, loads, evictions, stops>>
        /\ faults'[m] = IF t[2] = m THEN faults[m] + 1 ELSE faults[m]
    BY <1>8, <1>10 DEF Fault, Fail
  <2>2. CASE t[2] = m
    BY <1>0, <2>1, <2>2, PaidFrame
  <2>3. CASE t[2] # m
    <3>1. \A u \in Tasks : u[2] = m => pc'[u] = pc[u] /\ reply'[u] = reply[u]
      BY <1>0, <2>1, <2>3, GotoTypes DEF Places, Statuses
    <3>2. Due(m)' => Due(m)
      BY <2>1, <3>1 DEF Due
    <3> QED
      BY <1>0, <2>1, <2>3, <3>2, PaidFrame
  <2> QED
    BY <2>2, <2>3
<1>11. ASSUME NEW t \in Tasks, Verify(t) PROVE Paid(m)'
  <2>1. pc[t] = "verify" /\ UNCHANGED <<loaded, evictions, faults, stops>>
    BY <1>11 DEF Verify
  <2>2. CASE reply[t] = "yes"
    BY <1>0, <1>6, <1>11, <2>1, <2>2 DEF Verify, Places, Statuses
  <2>3. CASE reply[t] # "yes" /\ t[2] = m
    <3>1. Due(m)
      BY <1>0, <1>11, <2>3 DEF Due, Verify, Types
    <3>2. loads'[m] = loads[m] + 1
      BY <1>0, <1>11, <2>3 DEF Verify, Types
    <3>3. pc'[t] = "load" /\ \A u \in Tasks \ {t} : pc'[u] = pc[u]
      BY <1>0, <1>11, <2>3, GotoTypes DEF Verify, Places, Statuses
    <3>4. ~Due(m)'
      <4>1. \A u \in Tasks : u[2] = m /\ pc'[u] = "verify" => FALSE
        BY <1>0, <2>1, <2>3, <3>3, OneInside DEF Inside
      <4> QED
        BY <2>3, <3>3, <4>1 DEF Due
    <3> QED
      BY <1>0, <2>1, <3>1, <3>2, <3>4 DEF Paid
  <2>4. CASE reply[t] # "yes" /\ t[2] # m
    <3>1. loads'[m] = loads[m]
      BY <1>0, <1>11, <2>4 DEF Verify, Types
    <3>2. Goto(t, "load", "warming")
      BY <1>11, <2>4 DEF Verify
    <3>3. Due(m)' => Due(m)
      BY <1>0, <2>1, <3>2, NotDue DEF Places, Statuses
    <3> QED
      BY <1>0, <2>1, <3>1, <3>3, PaidFrame
  <2> QED
    BY <2>2, <2>3, <2>4
<1>12. ASSUME NEW t \in Tasks, Load(t) PROVE Paid(m)'
  <2>1. /\ pc[t] = "load" /\ Goto(t, "confirm", "warming")
        /\ UNCHANGED <<loads, evictions, faults, stops>>
    BY <1>12 DEF Load
  <2>2. /\ pc'[t] = "confirm" /\ reply'[t] = "none"
        /\ \A u \in Tasks \ {t} : pc'[u] = pc[u] /\ reply'[u] = reply[u]
    BY <1>0, <2>1, GotoTypes DEF Places, Statuses
  <2>3. loaded'[m] = IF t[2] = m THEN "serving" ELSE loaded[m]
    BY <1>0, <1>12, TaskParts DEF Load, Types
  <2>4. Due(m)' => Due(m)
    BY <2>2, <2>3 DEF Due
  <2> QED
    BY <1>0, <2>1, <2>4, PaidFrame
<1>13. CASE UNCHANGED vars
  <2>1. Due(m)' => Due(m)
    BY <1>13 DEF Due, vars
  <2> QED
    BY <1>0, <1>13, <2>1, PaidFrame DEF vars
<1> QED
  BY <1>1, <1>2, <1>3, <1>4, <1>5, <1>7, <1>9, <1>10, <1>11, <1>12, <1>13 DEF Next, Step

LEMMA Invariance == Spec => []Inv
<1>1. Init => Inv
  <2>1. Init => Types
    BY DEF Init, Types, Places, Statuses
  <2>2. Init => LockHeld /\ DownIsOff /\ Told
    BY TaskParts DEF Init, LockHeld, Inside, DownIsOff, Told, Trusts
  <2>3. Init => \A m \in Models : Paid(m)
    BY DEF Init, Paid
  <2> QED
    BY <2>1, <2>2, <2>3 DEF Inv
<1>2. Inv /\ [Next]_vars => Inv'
  BY StepTypes, StepLock, StepDown, StepTold, StepPaid DEF Inv
<1> QED
  BY <1>1, <1>2, PTL DEF Spec

(* A running worker that reports its models warm was told so of each, and  *)
(* each is loaded for serving unless it was unloaded since.                *)
THEOREM WarmIsVerified == Spec => []WarmWasVerified
<1>1. Inv => WarmWasVerified
  <2> SUFFICES ASSUME Inv, NEW w \in up, Snapshot(w) = "warm", NEW m \in Models,
                      evictions[m] = asOf[<<w, m>>]
               PROVE  loaded[m] = "serving"
    BY DEF WarmWasVerified
  <2>1. {status[<<w, n>>] : n \in Models} = {"warm"}
    BY DEF Snapshot
  <2>2. status[<<w, m>>] = "warm"
    BY <2>1
  <2>3. <<w, m>> \in Tasks /\ <<w, m>>[2] = m
    BY TaskOf DEF Inv, Types
  <2> QED
    BY <2>2, <2>3 DEF Inv, Told, Trusts
<1> QED
  BY <1>1, Invariance, PTL

(* The workers share one load of a model, and load it again only for an    *)
(* eviction, a failed call or a stop.                                      *)
THEOREM LoadsAreShared == Spec => []WarmedOnce
<1>1. Inv => WarmedOnce
  BY DEF Inv, Paid, WarmedOnce
<1> QED
  BY <1>1, Invariance, PTL


----------------------------------------------------------------------------
(* The calendar tool. *)

(* Lists *)

Entries == [start : Int, rank : Int, busy : BOOLEAN, valid : BOOLEAN]

LEMMA StoredTyped ==
    ASSUME NEW b \in Calendars
    PROVE  /\ Stored[b] \in Seq(Entries) /\ Len(Stored[b]) \in Nat
           /\ DOMAIN Stored[b] = 1 .. Len(Stored[b])
           /\ \A i \in 1 .. Len(Stored[b]) : Stored[b][i] \in Entries
<1>1. Stored[b] \in Seq(Entries)
  BY StoredAssumption DEF Entries
<1>2. Len(Stored[b]) \in Nat /\ DOMAIN Stored[b] = 1 .. Len(Stored[b])
  BY <1>1
<1>3. ASSUME NEW i \in 1 .. Len(Stored[b])
      PROVE  Stored[b][i] \in Entries
  BY <1>1, <1>2
<1> QED
  BY <1>1, <1>2, <1>3

LEMMA ValidFinite ==
    ASSUME NEW b, NEW first \in Int, NEW last \in Int
    PROVE  IsFiniteSet(Valid(b, first, last)) /\ Valid(b, first, last) \subseteq first .. last
<1>1. IsFiniteSet(first .. last)
  BY FS_Interval
<1> QED
  BY <1>1, FS_Subset DEF Valid

(* What can be listed at all. *)
Readable == UNION {{b} \X Valid(b, 1, Len(Stored[b])) : b \in Calendars}

LEMMA ReadableFinite == IsFiniteSet(Readable)
<1> DEFINE F == [b \in Calendars |-> {b} \X Valid(b, 1, Len(Stored[b]))]
           T == {{b} \X Valid(b, 1, Len(Stored[b])) : b \in Calendars}
<1>1. F \in Surjection(Calendars, T)
  BY DEF Surjection
<1>2. IsFiniteSet(Calendars)
  BY StoredAssumption
<1>3. IsFiniteSet(T)
  <2> HIDE DEF F, T
  <2> QED
    BY <1>1, <1>2, FS_Surjection
<1>4. ASSUME NEW b \in Calendars
      PROVE  IsFiniteSet({b} \X Valid(b, 1, Len(Stored[b])))
  <2>1. IsFiniteSet({b}) /\ IsFiniteSet(Valid(b, 1, Len(Stored[b])))
    <3>1. Len(Stored[b]) \in Int
      BY StoredTyped
    <3>2. IsFiniteSet(Valid(b, 1, Len(Stored[b])))
      BY <3>1, ValidFinite
    <3> QED
      BY <3>2, FS_Singleton
  <2> QED
    BY <2>1, FS_Product
<1>5. \A U \in T : IsFiniteSet(U)
  BY <1>4
<1> QED
  <2> HIDE DEF T
  <2>1. IsFiniteSet(UNION T)
    BY <1>3, <1>5, FS_UNION
  <2> QED
    BY <2>1 DEF Readable, T

LEMMA EventTyped ==
    ASSUME NEW e \in Readable
    PROVE  /\ e[1] \in Calendars /\ e[2] \in 1 .. Len(Stored[e[1]]) /\ e = <<e[1], e[2]>>
           /\ Event(e) \in Entries
<1>1. PICK b \in Calendars : e \in {b} \X Valid(b, 1, Len(Stored[b]))
  BY DEF Readable
<1>2. e[1] = b /\ e[2] \in Valid(b, 1, Len(Stored[b])) /\ e = <<e[1], e[2]>>
  BY <1>1
<1>3. e[2] \in 1 .. Len(Stored[b])
  BY <1>2, StoredTyped DEF Valid
<1> QED
  BY <1>2, <1>3, StoredTyped DEF Event

(* The order of a listing is strict and total. *)
LEMMA BeforeOrders ==
    ASSUME NEW c \in Readable, NEW d \in Readable, NEW e \in Readable
    PROVE  /\ ~Before(d, d)
           /\ d # e => Before(d, e) \/ Before(e, d)
           /\ Before(c, d) /\ Before(d, e) => Before(c, e)
<1>1. Event(c) \in Entries /\ Event(d) \in Entries /\ Event(e) \in Entries
  BY EventTyped
<1>2. Event(d).rank = Event(e).rank => d = e
  <2>1. /\ d[1] \in Calendars /\ d[2] \in 1 .. Len(Stored[d[1]]) /\ d = <<d[1], d[2]>>
        /\ e[1] \in Calendars /\ e[2] \in 1 .. Len(Stored[e[1]]) /\ e = <<e[1], e[2]>>
    BY EventTyped
  <2>2. Stored[d[1]][d[2]].rank = Stored[e[1]][e[2]].rank => d[1] = e[1] /\ d[2] = e[2]
    <3>1. d[2] \in DOMAIN Stored[d[1]] /\ e[2] \in DOMAIN Stored[e[1]]
      BY <2>1, StoredTyped
    <3>2. \A i \in DOMAIN Stored[d[1]], j \in DOMAIN Stored[e[1]] :
            Stored[d[1]][i].rank = Stored[e[1]][j].rank => d[1] = e[1] /\ i = j
      BY <2>1, StoredAssumption
    <3> QED
      BY <3>1, <3>2
  <2> QED
    BY <2>1, <2>2 DEF Event
<1> QED
  BY <1>1, <1>2 DEF Before, Entries

(* The first `limit` of a list are at most as many, and all of a list that *)
(* fits.                                                                   *)
LEMMA FirstBounds ==
    ASSUME NEW events \in SUBSET Readable, NEW limit \in Nat
    PROVE  /\ IsFiniteSet(events) /\ IsFiniteSet(First(limit, events))
           /\ First(limit, events) \subseteq events
           /\ Cardinality(First(limit, events)) <= limit
           /\ Cardinality(events) <= limit => First(limit, events) = events
<1> DEFINE below(e) == {d \in events : Before(d, e)}
           S == First(limit, events)
<1>1. IsFiniteSet(events) /\ S \subseteq events /\ IsFiniteSet(S)
  BY ReadableFinite, FS_Subset DEF First
<1>2. ASSUME NEW e \in events
      PROVE  /\ IsFiniteSet(below(e)) /\ Cardinality(below(e)) \in Nat
             /\ Cardinality(below(e)) < Cardinality(events)
  <2>1. below(e) \in SUBSET (events \ {e})
    BY BeforeOrders
  <2>2. IsFiniteSet(events \ {e}) /\ Cardinality(events \ {e}) = Cardinality(events) - 1
    BY <1>1, FS_RemoveElement
  <2>3. IsFiniteSet(below(e)) /\ Cardinality(below(e)) <= Cardinality(events \ {e})
    <3> HIDE DEF below
    <3> QED
      BY <2>1, <2>2, FS_Subset
  <2> QED
    <3> HIDE DEF below
    <3>1. Cardinality(below(e)) \in Nat /\ Cardinality(events) \in Nat
      BY <1>1, <2>3, FS_CardinalityType
    <3> QED
      BY <2>2, <2>3, <3>1
<1>3. ASSUME NEW d \in events, NEW e \in events, Before(d, e)
      PROVE  Cardinality(below(d)) < Cardinality(below(e))
  <2>1. below(d) \in SUBSET below(e) /\ d \in below(e) /\ d \notin below(d)
    BY <1>3, BeforeOrders
  <2> HIDE DEF below
  <2>2. Cardinality(below(d)) <= Cardinality(below(e)) /\ Cardinality(below(d)) # Cardinality(below(e))
    BY <1>2, <2>1, FS_Subset
  <2> QED
    BY <1>2, <2>2
<1>4. Cardinality(S) <= limit
  <2>1. SUFFICES ASSUME Cardinality(S) > limit PROVE FALSE
    BY <1>1, FS_CardinalityType
  <2> DEFINE f == [e \in S |-> Cardinality(below(e))]
             T == 0 .. limit - 1
  <2>2. f \in [S -> T]
    <3>1. ASSUME NEW e \in S
          PROVE  Cardinality(below(e)) \in 0 .. limit - 1
      <4>1. e \in events /\ Cardinality(below(e)) < limit
        BY <3>1 DEF First
      <4> HIDE DEF below
      <4> QED
        BY <1>2, <4>1
    <3> QED
      BY <3>1
  <2>3. IsFiniteSet(T) /\ Cardinality(T) = limit
    BY FS_Interval
  <2>4. PICK d \in S, e \in S : d # e /\ f[d] = f[e]
    <3> HIDE DEF f, T, S
    <3> QED
      BY <1>1, <2>1, <2>2, <2>3, FS_PigeonHole
  <2>5. Before(d, e) \/ Before(e, d)
    BY <1>1, <2>4, BeforeOrders
  <2>6. d \in events /\ e \in events /\ Cardinality(below(d)) = Cardinality(below(e))
    BY <1>1, <2>4
  <2> HIDE DEF below, f, S
  <2> QED
    BY <1>2, <1>3, <2>5, <2>6
<1>5. ASSUME Cardinality(events) <= limit
      PROVE  S = events
  <2>1. Cardinality(events) \in Nat
    BY <1>1, FS_CardinalityType
  <2>2. ASSUME NEW e \in events
        PROVE  Cardinality(below(e)) < limit
    <3> HIDE DEF below
    <3> QED
      BY <1>2, <1>5, <2>1
  <2> QED
    BY <2>2 DEF First
<1> QED
  BY <1>1, <1>4, <1>5

----------------------------------------------------------------------------
(* A fetch has read a prefix of its calendar, each event once; one that is *)
(* complete has read all of it, and one that failed has nothing.           *)

FetchState ==
  [pc : {"idle", "lock", "post", "get", "done"}, events : SUBSET Nat, count : Nat, pos : Nat,
   seen : SUBSET Nat, force : BOOLEAN, retried : BOOLEAN,
   failed : {"", "unavailable", "repeated", "timeout"}, complete : BOOLEAN]

All(b) == Valid(b, 1, Len(Stored[b]))

Reading(b, f) ==
  /\ IsFiniteSet(f.seen) /\ f.pos <= Len(Stored[b])
  /\ f.count = Cardinality(f.events) /\ f.events \subseteq All(b)
  /\ f.pc \in {"lock", "post", "get"} =>
       f.events = Valid(b, 1, f.pos) /\ f.failed = "" /\ ~f.complete
  /\ f.pc = "done" /\ f.failed = "" /\ f.complete => f.events = All(b)
  /\ f.failed # "" => f.events = {}
  /\ f.pc = "idle" => f = Idle

ListingGood(r, a) ==
  /\ a.events \subseteq Wanted(r) /\ Cardinality(a.events) <= r.limit
  /\ a.complete => a.events = Wanted(r)
  /\ a.available => \A e \in Wanted(r) : ~Event(e).busy
  /\ ~a.complete /\ ~a.refused =>
       a.unavailable \cup a.truncated # {} \/ Cardinality(Wanted(r)) > r.limit

CalendarInv ==
  /\ req = <<>> \/ \E r \in Requests : req = <<r>>
  /\ now \in Nat
  /\ fetch \in [Calendars -> FetchState]
  /\ \A b \in Calendars : Reading(b, fetch[b])
  /\ req = <<>> => answer = <<>> /\ \A b \in Calendars : fetch[b].pc = "idle"
  /\ req # <<>> =>
       \/ \A b \in Calendars : fetch[b].pc # "idle" <=> b \in Authorized(req[1])
       \/ answer # <<>> /\ \A b \in Calendars : fetch[b].pc = "idle"
  /\ answer # <<>> => ListingGood(req[1], answer[1])

LEMMA IdleReads ==
    ASSUME NEW b \in Calendars
    PROVE  Idle \in FetchState /\ Reading(b, Idle)
  BY FS_EmptySet, StoredTyped DEF Idle, FetchState, Reading

LEMMA CalendarInvInit == CalendarInit => CalendarInv
<1>1. SUFFICES ASSUME CalendarInit PROVE CalendarInv
  OBVIOUS
<1>2. \A b \in Calendars : fetch[b] = Idle /\ fetch[b].pc = "idle" /\ Reading(b, fetch[b])
  BY <1>1, IdleReads DEF CalendarInit, Idle
<1>3. fetch \in [Calendars -> FetchState]
  BY <1>1, IdleReads DEF CalendarInit
<1> QED
  BY <1>1, <1>2, <1>3 DEF CalendarInit, CalendarInv

(* A step of one fetch. *)
Fetched(b, f) ==
  /\ fetch' = [fetch EXCEPT ![b] = f]
  /\ UNCHANGED <<req, now, answer>>

LEMMA FetchKeeps ==
    ASSUME CalendarInv, NEW b \in Calendars, Active(b), NEW f \in FetchState, Reading(b, f),
           f.pc # "idle", Fetched(b, f)
    PROVE  CalendarInv'
<1>1. fetch' \in [Calendars -> FetchState] /\ fetch'[b] = f
      /\ \A c \in Calendars : c # b => fetch'[c] = fetch[c]
  BY DEF Fetched, CalendarInv
<1>2. \A c \in Calendars : fetch'[c].pc = "idle" <=> fetch[c].pc = "idle"
  BY <1>1 DEF Active
<1>3. \A c \in Calendars : Reading(c, fetch'[c])
  BY <1>1 DEF CalendarInv
<1>4. fetch[b].pc # "idle"
  BY DEF Active
<1>5. req' = req /\ answer' = answer /\ now' = now
  BY DEF Fetched
<1>6. req # <<>> =>
       \/ \A c \in Calendars : fetch'[c].pc # "idle" <=> c \in Authorized(req[1])
       \/ answer # <<>> /\ \A c \in Calendars : fetch'[c].pc = "idle"
  BY <1>2 DEF CalendarInv
<1> QED
  BY <1>1, <1>2, <1>3, <1>4, <1>5, <1>6 DEF CalendarInv

(* What an active fetch holds. *)
LEMMA ActiveReads ==
    ASSUME CalendarInv, NEW b \in Calendars, Active(b)
    PROVE  /\ fetch[b] \in FetchState /\ Reading(b, fetch[b])
           /\ fetch[b].failed = "" /\ ~fetch[b].complete /\ fetch[b].events = Valid(b, 1, fetch[b].pos)
           /\ \E r \in Requests : req = <<r>>
<1>1. fetch[b] \in FetchState /\ Reading(b, fetch[b])
  BY DEF CalendarInv
<1>2. req # <<>>
  BY DEF CalendarInv, Active
<1> QED
  BY <1>1, <1>2 DEF Active, Reading, CalendarInv

(* The ends of a fetch: none of them loses what was read, except a page    *)
(* token that repeats.                                                     *)
Kept(b) ==
  fetch'[b].pc = "done" =>
    \/ fetch'[b].failed = "repeated"
    \/ fetch'[b].failed # "" /\ fetch[b].events = {}
    \/ fetch'[b].failed = "" /\ fetch[b].events \subseteq fetch'[b].events

LEMMA ExceededKeeps ==
    ASSUME CalendarInv, NEW b \in Calendars, Active(b), Exceeded(b), UNCHANGED <<req, now, answer>>
    PROVE  CalendarInv' /\ Kept(b)
<1> DEFINE f == [fetch[b] EXCEPT !.pc = "done", !.complete = FALSE]
<1>1. /\ fetch[b] \in FetchState /\ Reading(b, fetch[b]) /\ fetch[b].failed = ""
      /\ fetch \in [Calendars -> FetchState]
  BY ActiveReads DEF CalendarInv
<1>2. fetch' = [fetch EXCEPT ![b] = f]
  BY <1>1 DEF Exceeded, Batch, FetchState
<1>3. f \in FetchState /\ f.pc = "done" /\ f.failed = "" /\ f.events = fetch[b].events
  BY <1>1 DEF FetchState
<1>4. Reading(b, f)
  BY <1>1 DEF FetchState, Reading
<1>5. CalendarInv'
  <2> HIDE DEF f
  <2> QED
    BY <1>2, <1>3, <1>4, FetchKeeps DEF Fetched
<1>6. fetch'[b] = f
  BY <1>1, <1>2
<1> QED
  <2> HIDE DEF f
  <2> QED
    BY <1>3, <1>5, <1>6 DEF Kept

LEMMA FailsKeeps ==
    ASSUME CalendarInv, NEW b \in Calendars, Active(b), NEW why \in {"unavailable", "repeated"},
           Fails(b, why), why = "repeated" \/ fetch[b].events = {}, UNCHANGED <<req, now, answer>>
    PROVE  CalendarInv' /\ Kept(b)
<1> DEFINE f == [fetch[b] EXCEPT !.pc = "done", !.events = {}, !.count = 0, !.failed = why]
<1>1. /\ fetch[b] \in FetchState /\ Reading(b, fetch[b]) /\ ~fetch[b].complete
      /\ fetch \in [Calendars -> FetchState]
  BY ActiveReads DEF CalendarInv
<1>2. fetch' = [fetch EXCEPT ![b] = f]
  BY <1>1 DEF Fails, FetchState
<1>3. f \in FetchState /\ f.pc = "done" /\ f.failed = why /\ f.events = {} /\ f.count = 0
      /\ f.seen = fetch[b].seen /\ f.pos = fetch[b].pos
  BY <1>1 DEF FetchState
<1>4. Reading(b, f)
  <2> HIDE DEF f
  <2> QED
    BY <1>1, <1>3, FS_EmptySet DEF Reading
<1>5. fetch'[b] = f
  BY <1>1, <1>2
<1> HIDE DEF f
<1>6. CalendarInv'
  BY <1>2, <1>3, <1>4, FetchKeeps DEF Fetched
<1> QED
  BY <1>3, <1>5, <1>6 DEF Kept

LEMMA UnavailableKeeps ==
    ASSUME CalendarInv, NEW b \in Calendars, Active(b), Unavailable(b), UNCHANGED <<req, now, answer>>
    PROVE  CalendarInv' /\ Kept(b)
  BY ExceededKeeps, FailsKeeps DEF Unavailable

(* A fetch that goes on with what it has. *)
LEMMA GoesOn ==
    ASSUME CalendarInv, NEW b \in Calendars, Active(b), NEW f, UNCHANGED <<req, now, answer>>,
           fetch' = [fetch EXCEPT ![b] = f],
           f \in FetchState, f.pc \in {"lock", "post", "get"},
           f.events = fetch[b].events, f.count = fetch[b].count, f.pos = fetch[b].pos,
           f.seen = fetch[b].seen, f.failed = fetch[b].failed, f.complete = fetch[b].complete
    PROVE  CalendarInv' /\ Kept(b)
<1>1. /\ fetch[b] \in FetchState /\ Reading(b, fetch[b])
      /\ fetch \in [Calendars -> FetchState]
      /\ fetch[b].failed = "" /\ ~fetch[b].complete /\ fetch[b].events = Valid(b, 1, fetch[b].pos)
  BY ActiveReads DEF CalendarInv
<1>2. Reading(b, f)
  BY <1>1 DEF Reading
<1>3. fetch'[b] = f
  BY <1>1
<1> QED
  BY <1>2, <1>3, FetchKeeps DEF Fetched, Kept

----------------------------------------------------------------------------
(* The actions *)

LEMMA AskKeeps ==
    ASSUME CalendarInv, NEW r \in Requests, AskCalendars(r)
    PROVE  CalendarInv'
<1>1. req = <<>> /\ req' = <<r>> /\ now' = now /\ r \in Requests
  BY DEF AskCalendars
<1>2. /\ \A b \in Calendars : fetch[b] = Idle
      /\ now \in Nat /\ fetch \in [Calendars -> FetchState] /\ answer = <<>>
  BY <1>1 DEF CalendarInv, Reading
<1>3. req' # <<>> /\ req'[1] = r
  BY <1>1
<1>4. CASE Authorized(r) = {}
  <2>1. answer' = <<[NoListing EXCEPT !.refused = TRUE]>> /\ fetch' = fetch
    BY <1>4 DEF AskCalendars
  <2>2. Wanted(r) = {}
    BY <1>4 DEF Wanted
  <2>3. ListingGood(r, [NoListing EXCEPT !.refused = TRUE])
    <3>1. r.limit \in Nat
      BY StoredAssumption
    <3> QED
      BY <2>2, <3>1, FS_EmptySet DEF ListingGood, NoListing
  <2>4. answer' # <<>> /\ answer'[1] = [NoListing EXCEPT !.refused = TRUE]
    BY <2>1
  <2>5. \A b \in Calendars : fetch'[b].pc = "idle" /\ Reading(b, fetch'[b])
    <3>1. Idle.pc = "idle"
      BY DEF Idle
    <3> QED
      BY <1>2, <2>1, <3>1, IdleReads
  <2> QED
    BY <1>1, <1>2, <1>3, <2>1, <2>3, <2>4, <2>5 DEF CalendarInv
<1>5. CASE Authorized(r) # {}
  <2> DEFINE started == [Idle EXCEPT !.pc = "lock"]
  <2>1. /\ fetch' = [b \in Calendars |-> IF b \in Authorized(r) THEN started ELSE Idle]
        /\ answer' = <<>>
    BY <1>2, <1>5 DEF AskCalendars
  <2>2. started \in FetchState /\ started.pc = "lock"
    BY DEF Idle, FetchState
  <2>3. ASSUME NEW b \in Calendars
        PROVE  Reading(b, started)
    <3>1. Valid(b, 1, 0) = {}
      BY DEF Valid
    <3> QED
      BY <3>1, FS_EmptySet, StoredTyped DEF Idle, Reading
  <2> HIDE DEF started
  <2>4. \A b \in Calendars : fetch'[b].pc # "idle" <=> b \in Authorized(r)
    BY <2>1, <2>2 DEF Idle
  <2>5. \A b \in Calendars : Reading(b, fetch'[b])
    BY <2>1, <2>3, IdleReads
  <2>6. fetch' \in [Calendars -> FetchState]
    <3>1. ASSUME NEW b \in Calendars
          PROVE  (IF b \in Authorized(r) THEN started ELSE Idle) \in FetchState
      BY <2>2, IdleReads
    <3> QED
      BY <2>1, <3>1
  <2> QED
    BY <1>1, <1>2, <1>3, <2>1, <2>4, <2>5, <2>6 DEF CalendarInv
<1> QED
  BY <1>4, <1>5

LEMMA StartGetKeeps ==
    ASSUME CalendarInv, NEW b \in Calendars, Active(b), NEW retried \in BOOLEAN,
           StartGet(b, retried), UNCHANGED <<req, now, answer>>
    PROVE  CalendarInv' /\ Kept(b)
<1>1. CASE ~Fits(HttpTime)
  BY <1>1, ExceededKeeps DEF StartGet
<1>2. CASE Fits(HttpTime)
  <2> DEFINE f == [fetch[b] EXCEPT !.pc = "get", !.force = FALSE, !.retried = retried]
  <2>1. fetch[b] \in FetchState
    BY ActiveReads
  <2>2. fetch' = [fetch EXCEPT ![b] = f]
    BY <1>2, <2>1 DEF StartGet, FetchState
  <2>3. /\ f \in FetchState /\ f.pc = "get" /\ f.events = fetch[b].events /\ f.count = fetch[b].count
        /\ f.pos = fetch[b].pos /\ f.seen = fetch[b].seen /\ f.failed = fetch[b].failed
        /\ f.complete = fetch[b].complete
    BY <2>1 DEF FetchState
  <2> HIDE DEF f
  <2> QED
    BY <2>2, <2>3, GoesOn
<1> QED
  BY <1>1, <1>2

LEMMA TakeLockKeeps ==
    ASSUME CalendarInv, NEW b \in Calendars, TakeLock(b)
    PROVE  Active(b) /\ CalendarInv' /\ Kept(b)
<1>1. Active(b) /\ UNCHANGED <<req, now, answer>>
  BY DEF TakeLock, Active
<1>2. fetch[b] \in FetchState /\ fetch[b].retried \in BOOLEAN
  BY <1>1, ActiveReads DEF FetchState
<1>3. CASE StartGet(b, fetch[b].retried)
  BY <1>1, <1>2, <1>3, StartGetKeeps
<1>4. CASE Exceeded(b)
  BY <1>1, <1>4, ExceededKeeps
<1>5. CASE fetch' = [fetch EXCEPT ![b].pc = "post"]
  <2> DEFINE f == [fetch[b] EXCEPT !.pc = "post"]
  <2>1. fetch' = [fetch EXCEPT ![b] = f]
    BY <1>2, <1>5 DEF FetchState
  <2>2. /\ f \in FetchState /\ f.pc = "post" /\ f.events = fetch[b].events /\ f.count = fetch[b].count
        /\ f.pos = fetch[b].pos /\ f.seen = fetch[b].seen /\ f.failed = fetch[b].failed
        /\ f.complete = fetch[b].complete
    BY <1>2 DEF FetchState
  <2> HIDE DEF f
  <2> QED
    BY <1>1, <2>1, <2>2, GoesOn
<1> QED
  BY <1>1, <1>3, <1>4, <1>5 DEF TakeLock

LEMMA TokenKeeps ==
    ASSUME CalendarInv, NEW b \in Calendars, TokenGranted(b) \/ TokenRefused(b)
    PROVE  Active(b) /\ CalendarInv' /\ Kept(b)
<1>1. Active(b) /\ UNCHANGED <<req, now, answer>>
  BY DEF TokenGranted, TokenRefused, Active
<1>2. fetch[b].retried \in BOOLEAN
  BY <1>1, ActiveReads DEF FetchState
<1> QED
  BY <1>1, <1>2, StartGetKeeps, UnavailableKeeps DEF TokenGranted, TokenRefused

LEMMA PageFailsKeeps ==
    ASSUME CalendarInv, NEW b \in Calendars, Unauthorized(b) \/ GetFails(b)
    PROVE  Active(b) /\ CalendarInv' /\ Kept(b)
<1>1. Active(b) /\ UNCHANGED <<req, now, answer>>
  BY DEF Unauthorized, GetFails, Active
<1>2. CASE Unavailable(b)
  BY <1>1, <1>2, UnavailableKeeps
<1>3. CASE Exceeded(b)
  BY <1>1, <1>3, ExceededKeeps
<1>4. CASE fetch' = [fetch EXCEPT ![b].pc = "lock", ![b].force = TRUE, ![b].retried = TRUE]
  <2> DEFINE f == [fetch[b] EXCEPT !.pc = "lock", !.force = TRUE, !.retried = TRUE]
  <2>1. fetch[b] \in FetchState
    BY <1>1, ActiveReads
  <2>2. fetch' = [fetch EXCEPT ![b] = f]
    BY <1>4, <2>1 DEF FetchState
  <2>3. /\ f \in FetchState /\ f.pc = "lock" /\ f.events = fetch[b].events /\ f.count = fetch[b].count
        /\ f.pos = fetch[b].pos /\ f.seen = fetch[b].seen /\ f.failed = fetch[b].failed
        /\ f.complete = fetch[b].complete
    BY <2>1 DEF FetchState
  <2> HIDE DEF f
  <2> QED
    BY <1>1, <2>2, <2>3, GoesOn
<1> QED
  BY <1>1, <1>2, <1>3, <1>4 DEF Unauthorized, GetFails

(* The events of a page are new, and with it the next part of the calendar *)
(* has been read.                                                          *)
LEMMA PageKeeps ==
    ASSUME CalendarInv, NEW b \in Calendars,
           NEW n \in 0 .. Len(Stored[b]) - fetch[b].pos, NEW more \in BOOLEAN, NEW fresh \in BOOLEAN,
           Page(b, n, more, fresh)
    PROVE  Active(b) /\ CalendarInv' /\ Kept(b)
<1> DEFINE old == fetch[b]
           pos == old.pos + n
           read == Valid(b, old.pos + 1, pos)
           events == old.events \cup read
           count == old.count + Cardinality(read)
<1>1. Active(b) /\ UNCHANGED <<req, now, answer>> /\ old.pc = "get"
  BY DEF Page, Active
<1>2. /\ old \in FetchState /\ Reading(b, old) /\ old.failed = "" /\ ~old.complete
      /\ old.events = Valid(b, 1, old.pos) /\ \E r \in Requests : req = <<r>>
      /\ fetch \in [Calendars -> FetchState]
  BY <1>1, ActiveReads DEF CalendarInv
<1>3. old.pos \in Nat /\ Len(Stored[b]) \in Nat /\ n \in Nat /\ pos \in Nat /\ pos <= Len(Stored[b])
  <2>1. old.pos \in Nat /\ Len(Stored[b]) \in Nat
    BY <1>2, StoredTyped DEF FetchState
  <2> HIDE DEF old
  <2> QED
    BY <2>1 DEF old
<1>4. events = Valid(b, 1, pos)
  <2>1. old.events = Valid(b, 1, old.pos) /\ old.pos \in Nat /\ n \in Nat
    BY <1>2, <1>3
  <2> HIDE DEF old
  <2> QED
    BY <2>1 DEF Valid
<1>5. events \subseteq All(b) /\ events \in SUBSET Nat
  BY <1>3, <1>4 DEF Valid, All
<1>6. count = Cardinality(events) /\ count \in Nat
  <2>1. IsFiniteSet(old.events) /\ IsFiniteSet(read)
    <3>1. old.pos + 1 \in Int /\ pos \in Int /\ 1 \in Int
      BY <1>3
    <3>2. old.events = Valid(b, 1, old.pos)
      BY <1>2
    <3>4. old.pos \in Int
      BY <1>3
    <3> HIDE DEF old, pos
    <3>5. IsFiniteSet(Valid(b, 1, old.pos)) /\ IsFiniteSet(Valid(b, old.pos + 1, pos))
      BY <3>1, <3>4, ValidFinite
    <3>3. IsFiniteSet(old.events)
      BY <3>2, <3>5
    <3> QED
      BY <3>3, <3>5
  <2>2. old.events \cap read = {}
    <3>1. old.events = Valid(b, 1, old.pos) /\ old.pos \in Nat /\ n \in Nat
      BY <1>2, <1>3
    <3> HIDE DEF old
    <3> QED
      BY <3>1 DEF Valid
  <2>3. Cardinality(events) = Cardinality(old.events) + Cardinality(read) - Cardinality({})
    <3> HIDE DEF read
    <3> QED
      BY <2>1, <2>2, FS_Union
  <2>4. Cardinality(old.events) \in Nat /\ Cardinality(read) \in Nat /\ Cardinality({}) = 0
    BY <2>1, FS_CardinalityType, FS_EmptySet
  <2>5. old.count = Cardinality(old.events)
    BY <1>2 DEF Reading
  <2> HIDE DEF read, old, events
  <2> QED
    BY <2>3, <2>4, <2>5
<1>7. AfterPage(b, events, count, pos, more, fresh)
  BY DEF Page
<1>8. ~more => events = All(b)
  BY <1>3, <1>4 DEF Page, All
<1>9. old.events \subseteq events
  OBVIOUS
<1> HIDE DEF pos, read, events, count
<1>10. ASSUME NEW complete \in BOOLEAN, Batch(b, events, count, complete), complete => events = All(b)
       PROVE  CalendarInv' /\ Kept(b)
  <2> DEFINE f == [old EXCEPT !.pc = "done", !.events = events, !.count = count, !.complete = complete]
  <2>1. fetch' = [fetch EXCEPT ![b] = f]
    BY <1>2, <1>10 DEF Batch, FetchState
  <2>2. /\ f \in FetchState /\ f.pc = "done" /\ f.failed = "" /\ f.events = events /\ f.count = count
        /\ f.complete = complete /\ f.seen = old.seen /\ f.pos = old.pos
    BY <1>2, <1>5, <1>6 DEF FetchState
  <2> HIDE DEF f
  <2>3. Reading(b, f)
    BY <1>2, <1>5, <1>6, <1>10, <2>2 DEF Reading
  <2>4. fetch'[b] = f
    BY <1>2, <2>1
  <2> QED
    BY <1>1, <1>9, <2>1, <2>2, <2>3, <2>4, FetchKeeps DEF Fetched, Kept
<1>11. CASE NextPage(b, events, count, pos)
  <2> DEFINE seen == old.seen \cup {Cardinality(old.seen) + 1}
             f == [old EXCEPT !.pc = "lock", !.events = events, !.count = count, !.pos = pos,
                              !.seen = seen, !.retried = FALSE]
  <2>1. IsFiniteSet(seen) /\ seen \in SUBSET Nat
    <3>1. IsFiniteSet(old.seen) /\ old.seen \in SUBSET Nat
      BY <1>2 DEF Reading, FetchState
    <3> HIDE DEF old
    <3>2. Cardinality(old.seen) \in Nat
      BY <3>1, FS_CardinalityType
    <3>3. IsFiniteSet(seen)
      BY <3>1, FS_AddElement
    <3>4. seen \in SUBSET Nat
      BY <3>1, <3>2
    <3> QED
      BY <3>3, <3>4
  <2>2. fetch' = [fetch EXCEPT ![b] = f]
    BY <1>2, <1>11 DEF NextPage, FetchState
  <2> HIDE DEF seen
  <2>3. /\ f \in FetchState /\ f.pc = "lock" /\ f.failed = "" /\ f.events = events /\ f.count = count
        /\ ~f.complete /\ f.seen = seen /\ f.pos = pos
    BY <1>2, <1>3, <1>5, <1>6, <2>1 DEF FetchState
  <2> HIDE DEF f
  <2>4. Reading(b, f)
    BY <1>3, <1>4, <1>5, <1>6, <2>1, <2>3 DEF Reading
  <2>5. fetch'[b] = f
    BY <1>2, <2>2
  <2> QED
    BY <1>1, <2>2, <2>3, <2>4, <2>5, FetchKeeps DEF Fetched, Kept
<1>12. CASE Fails(b, "repeated")
  BY <1>1, <1>12, FailsKeeps
<1> QED
  BY <1>1, <1>7, <1>8, <1>10, <1>11, <1>12 DEF AfterPage

LEMMA TimedOutKeeps ==
    ASSUME CalendarInv, NEW b \in Calendars, TimedOut(b)
    PROVE  Active(b) /\ CalendarInv' /\ Kept(b)
<1>1. Active(b) /\ UNCHANGED <<req, now, answer>> /\ Exceeded(b)
  BY TimesAssumption DEF TimedOut, Waits
<1> QED
  BY <1>1, ExceededKeeps

LEMMA FinishKeeps ==
    ASSUME CalendarInv, Finish
    PROVE  CalendarInv'
<1>1. /\ req # <<>> /\ answer = <<>> /\ UNCHANGED <<req, now, fetch>>
      /\ answer' = <<Listing(req[1].limit, req[1].check)>>
      /\ \A b \in Selected : fetch[b].pc = "done"
  BY DEF Finish
<1> DEFINE r == req[1]
           all == UNION {{b} \X fetch[b].events : b \in Selected}
           a == Listing(r.limit, r.check)
<1>2. r \in Requests /\ r.limit \in Nat /\ r.check \in BOOLEAN
  BY <1>1, StoredAssumption DEF CalendarInv
<1>3. Selected = Authorized(r)
  BY <1>1 DEF CalendarInv, Selected, Authorized
<1>4. ASSUME NEW b \in Selected
      PROVE  /\ b \in Calendars /\ fetch[b].events \subseteq All(b)
             /\ fetch[b].failed = "" /\ fetch[b].complete => fetch[b].events = All(b)
  BY <1>1 DEF CalendarInv, Reading, Selected
<1>5. all \subseteq Wanted(r) /\ Wanted(r) \subseteq Readable
  <2>1. ASSUME NEW e \in all
        PROVE  e \in Wanted(r)
    <3>1. PICK b \in Selected : e \in {b} \X fetch[b].events
      OBVIOUS
    <3>2. b \in Authorized(r) /\ e \in {b} \X All(b)
      <4>1. fetch[b].events \subseteq All(b) /\ b \in Authorized(r)
        BY <1>3, <1>4
      <4> QED
        BY <3>1, <4>1
    <3> QED
      BY <3>2 DEF Wanted, All
  <2>2. Authorized(r) \subseteq Calendars
    BY DEF Authorized
  <2>3. ASSUME NEW e \in Wanted(r)
        PROVE  e \in Readable
    BY <2>2 DEF Wanted, Readable
  <2> QED
    BY <2>1, <2>3
<1>6. IsFiniteSet(Wanted(r)) /\ Cardinality(all) <= Cardinality(Wanted(r))
      /\ Cardinality(all) \in Nat /\ Cardinality(Wanted(r)) \in Nat
  <2> HIDE DEF all
  <2>1. IsFiniteSet(Wanted(r))
    BY <1>5, ReadableFinite, FS_Subset
  <2>2. IsFiniteSet(all) /\ Cardinality(all) <= Cardinality(Wanted(r))
    BY <1>5, <2>1, FS_Subset
  <2> QED
    BY <2>1, <2>2, FS_CardinalityType
<1>7. /\ First(r.limit, all) \subseteq all /\ Cardinality(First(r.limit, all)) <= r.limit
      /\ Cardinality(all) <= r.limit => First(r.limit, all) = all
  <2> HIDE DEF all
  <2> QED
    <3>1. all \in SUBSET Readable
      BY <1>5
    <3> QED
      BY <1>2, <3>1, FirstBounds
<1>8. /\ a.events = First(r.limit, all) /\ a.refused = FALSE
      /\ a.unavailable = {b \in Selected : fetch[b].failed # ""}
      /\ a.truncated = {b \in Selected \ a.unavailable : ~fetch[b].complete}
      /\ a.complete <=> a.unavailable = {} /\ a.truncated = {} /\ Cardinality(all) <= r.limit
      /\ a.available <=> r.check /\ a.complete /\ ~\E e \in a.events : Event(e).busy
  BY DEF Listing
<1> HIDE DEF a
<1>9. a.complete => a.events = Wanted(r)
  <2>1. SUFFICES ASSUME a.complete PROVE all = Wanted(r)
    BY <1>7, <1>8
  <2>2. \A b \in Selected : fetch[b].events = All(b)
    <3>1. a.unavailable = {} /\ a.truncated = {}
      BY <1>8, <2>1
    <3>2. ASSUME NEW b \in Selected
          PROVE  fetch[b].events = All(b)
      <4>1. fetch[b].failed = "" /\ fetch[b].complete
        BY <1>8, <3>1
      <4> QED
        BY <1>4, <4>1
    <3> QED
      BY <3>2
  <2> QED
    BY <1>3, <2>2 DEF Wanted, All
<1>10. a.events \subseteq Wanted(r) /\ Cardinality(a.events) <= r.limit
  BY <1>5, <1>7, <1>8
<1>11. a.available => \A e \in Wanted(r) : ~Event(e).busy
  BY <1>8, <1>9
<1>12. ~a.complete => a.unavailable \cup a.truncated # {} \/ Cardinality(Wanted(r)) > r.limit
  <2>1. SUFFICES ASSUME ~a.complete, a.unavailable = {}, a.truncated = {}
                 PROVE  Cardinality(Wanted(r)) > r.limit
    OBVIOUS
  <2> HIDE DEF all
  <2>2. ~(Cardinality(all) <= r.limit)
    BY <1>8, <2>1
  <2> QED
    BY <1>2, <1>6, <2>2
<1>13. ListingGood(r, a)
  BY <1>9, <1>10, <1>11, <1>12 DEF ListingGood
<1>14. answer' # <<>> /\ answer'[1] = a
  BY <1>1 DEF a
<1>15. \A b \in Calendars : fetch'[b].pc # "idle" <=> b \in Authorized(r)
  BY <1>1, <1>3 DEF Selected
<1> QED
  BY <1>1, <1>13, <1>14, <1>15 DEF CalendarInv

LEMMA ReplyKeeps ==
    ASSUME CalendarInv, NEW b \in Calendars, Reply(b) \/ TimedOut(b)
    PROVE  Active(b) /\ CalendarInv' /\ Kept(b)
  BY TakeLockKeeps, TokenKeeps, PageFailsKeeps, PageKeeps, TimedOutKeeps DEF Reply

LEMMA CalendarStep == CalendarInv /\ [CalendarNext]_calendarVars => CalendarInv'
<1>1. SUFFICES ASSUME CalendarInv, [CalendarNext]_calendarVars PROVE CalendarInv'
  OBVIOUS
<1>2. CASE UNCHANGED calendarVars
  <2>1. UNCHANGED <<req, now, fetch, answer>>
    BY <1>2 DEF calendarVars
  <2> QED
    BY <1>1, <2>1 DEF CalendarInv
<1>3. CASE Tick
  <2>1. req # <<>> /\ now' = now + 1 /\ UNCHANGED <<req, fetch, answer>>
    BY <1>3 DEF Tick
  <2> QED
    BY <1>1, <2>1 DEF CalendarInv
<1>4. CASE CalendarNext /\ ~Tick
  BY <1>1, <1>4, AskKeeps, ReplyKeeps, FinishKeeps DEF CalendarNext
<1> QED
  BY <1>1, <1>2, <1>3, <1>4

LEMMA CalendarInvariance == CalendarSpec => []CalendarInv
  BY CalendarInvInit, CalendarStep, PTL DEF CalendarSpec

(* No step of a fetch touches another. *)
LEMMA FetchesApart ==
    ASSUME fetch \in [Calendars -> FetchState], NEW c \in Calendars, Reply(c) \/ TimedOut(c)
    PROVE  \A b \in Calendars \ {c} : fetch'[b] = fetch[b]
<1> DEFINE Apart == \A b \in Calendars \ {c} : fetch'[b] = fetch[b]
<1>1. /\ \A events, count, complete : Batch(c, events, count, complete) => Apart
      /\ \A why : Fails(c, why) => Apart
      /\ \A events, count, pos : NextPage(c, events, count, pos) => Apart
  <2>1. ASSUME NEW events, NEW count, NEW complete, Batch(c, events, count, complete)
        PROVE  Apart
    BY <2>1 DEF Batch
  <2>2. ASSUME NEW why, Fails(c, why) PROVE Apart
    BY <2>2 DEF Fails
  <2>3. ASSUME NEW events, NEW count, NEW pos, NextPage(c, events, count, pos) PROVE Apart
    BY <2>3 DEF NextPage
  <2> HIDE DEF Apart
  <2> QED
    BY <2>1, <2>2, <2>3
<1> HIDE DEF Apart
<1>2. (Exceeded(c) => Apart) /\ (Unavailable(c) => Apart)
  BY <1>1 DEF Exceeded, Unavailable
<1>3. ASSUME NEW retried, StartGet(c, retried)
      PROVE  Apart
  BY <1>2, <1>3 DEF StartGet, Apart
<1>4. ASSUME TakeLock(c) PROVE Apart
  BY <1>2, <1>3, <1>4 DEF TakeLock, Apart
<1>5. ASSUME Unauthorized(c) PROVE Apart
  BY <1>2, <1>5 DEF Unauthorized, Apart
<1>6. ASSUME NEW n, NEW more, NEW fresh, Page(c, n, more, fresh) PROVE Apart
  BY <1>1, <1>6 DEF Page, AfterPage
<1>7. TokenGranted(c) \/ TokenRefused(c) \/ GetFails(c) \/ TimedOut(c) => Apart
  BY <1>1, <1>2, <1>3 DEF TokenGranted, TokenRefused, GetFails, TimedOut, BindingTimedOut
<1> QED
  BY <1>4, <1>5, <1>6, <1>7 DEF Reply, Apart

(* What CalendarService lists is stored and was asked for; "complete"      *)
(* means all of it, and so "available" means nobody is busy; otherwise the *)
(* listing names the calendars it misses, or there are too many events.    *)
THEOREM ListingsAreTruthful == CalendarSpec => []ListingIsTruthful
<1>1. CalendarInv => ListingIsTruthful
  BY DEF CalendarInv, ListingGood, ListingIsTruthful, Reading
<1> QED
  BY <1>1, CalendarInvariance, PTL

(* GoogleCalendarProvider.list_events never drops what it has read because *)
(* a later page fails or time runs out; only a repeated page token does.   *)
THEOREM EventsAreKept == CalendarSpec => ReadEventsAreKept
<1> DEFINE A == \A b \in Calendars : Active(b) /\ fetch'[b].pc = "done" =>
        \/ fetch'[b].failed = "repeated"
        \/ fetch'[b].failed # "" /\ fetch[b].events = {}
        \/ fetch'[b].failed = "" /\ fetch[b].events \subseteq fetch'[b].events
<1>1. CalendarInv /\ [CalendarNext]_calendarVars => [A]_calendarVars
  <2>1. SUFFICES ASSUME CalendarInv, CalendarNext, NEW b \in Calendars, Active(b)
                 PROVE  Kept(b)
    BY DEF Kept
  <2>2. req # <<>> /\ fetch[b].pc # "done"
    BY <2>1 DEF CalendarInv, Active
  <2>3. CASE Tick \/ Finish
    BY <2>2, <2>3 DEF Tick, Finish, Kept
  <2>4. ASSUME NEW c \in Calendars, Reply(c) \/ TimedOut(c)
        PROVE  Kept(b)
    <3>1. CASE c = b
      BY <2>1, <2>4, <3>1, ReplyKeeps
    <3>2. CASE c # b
      <4>1. fetch'[b] = fetch[b]
        BY <2>1, <2>4, <3>2, FetchesApart DEF CalendarInv
      <4> QED
        BY <2>2, <4>1 DEF Kept
    <3> QED
      BY <3>1, <3>2
  <2> QED
    BY <2>1, <2>2, <2>3, <2>4 DEF CalendarNext, AskCalendars
<1> QED
  BY <1>1, CalendarInvariance, PTL DEF CalendarSpec, ReadEventsAreKept

----------------------------------------------------------------------------
(* The model loop. *)

CallRecord == [tool : ToolNames, limit : Limits]
MessageRecord == [role : {"assistant", "tool"}, tools : Seq(ToolNames)]

LoopTypes ==
  /\ mode \in {"stream", "openai", "run"}
  /\ at \in {"ask", "receive", "decide", "dispatch", "ended"}
  /\ step \in 1..MaxSteps /\ total \in Nat
  /\ resolved \in BOOLEAN
  /\ calls \in Seq(CallRecord) /\ done \in 0..Len(calls)
  /\ DOMAIN fragments \subseteq 0..MaxCalls
  /\ \A i \in DOMAIN fragments : fragments[i] \in CallRecord
  /\ conversation \in Seq(MessageRecord)
  /\ at \in {"receive", "decide"} => done = 0
  /\ at = "dispatch" => Len(calls) <= MaxCalls /\ step < MaxSteps

(* The reason remembered for the answer is what the tools did. *)
Reason == IF "tool_timeout" \in codes THEN "timeout"
          ELSE IF codes # {} THEN "tool_error" ELSE None
Reasons ==
  /\ failure = Reason
  /\ at # "ended" => stop = None
  /\ Answered => stop = (IF codes = {} THEN "answer" ELSE Reason)

(* The stream is opened once and closed at the end of the answer.          *)
Closed ==
  /\ "stop" \in Range(frame) <=> Answered
  /\ Cardinality({i \in DOMAIN frame : frame[i] = "done"}) = IF stop = "disconnected" THEN 0 ELSE 1
Frames ==
  mode # "run" => IF at = "ended" THEN Closed
                  ELSE frame \in Seq({"role", "content"})

(* Assistant messages are followed by their results; only the last may     *)
(* still wait for some, and it has the first "done" of them.               *)
ToolMessage(tool) == [role |-> "tool", tools |-> <<tool>>]
ServedAt(messages, i) ==
  messages[i].role = "assistant" =>
    \A k \in 1..Len(messages[i].tools) :
      i + k <= Len(messages) /\ messages[i + k] = ToolMessage(messages[i].tools[k])
Waiting == Len(conversation) - done
Blocks ==
  /\ at \in {"ask", "receive", "decide"} =>
       \A i \in 1..Len(conversation) : ServedAt(conversation, i)
  /\ at = "dispatch" =>
       /\ Waiting \in 1..Len(conversation) /\ conversation[Waiting] = Assistant
       /\ \A k \in 1..done : conversation[Waiting + k] = ToolMessage(calls[k].tool)
       /\ \A i \in 1..Len(conversation) : i # Waiting => ServedAt(conversation, i)

(* Every step before this one added at most MaxCalls results.              *)
Results(messages) == {i \in 1..Len(messages) : messages[i].role = "tool"}
Counts ==
  /\ at \in {"ask", "receive", "decide"} =>
       total = Cardinality(Results(conversation)) /\ total <= (step - 1) * MaxCalls
  /\ at = "dispatch" =>
       total + done = Cardinality(Results(conversation)) /\ total <= (step - 1) * MaxCalls
  /\ at = "ended" =>
       /\ \/ Cardinality(Results(conversation)) <= (step - 1) * MaxCalls
          \/ step < MaxSteps /\ Cardinality(Results(conversation)) <= step * MaxCalls
       /\ Answered => total = Cardinality(Results(conversation))

LoopInv == LoopTypes /\ Reasons /\ Frames /\ Blocks /\ Counts /\ OnlyOfferedToolsRun
           /\ TruncationIsVisible

----------------------------------------------------------------------------
(* The kinds of steps. *)

\* A step that receives, or stops receiving.
Receives ==
  /\ at \in {"ask", "receive"} /\ at' \in {"receive", "decide"}
  /\ mode' = mode /\ step' = step /\ conversation' = conversation /\ failure' = failure
  /\ total' = total /\ codes' = codes /\ ran' = ran /\ stop' = stop
  /\ payload' = payload \/ payload' = Undo
  /\ done' = done \/ done' = 0

\* The answer fails outside the loop.
BreaksOff ==
  /\ at # "ended" /\ mode' = mode /\ step' = step /\ conversation' = conversation
  /\ failure' = failure /\ total' = total /\ codes' = codes /\ ran' = ran /\ payload' = payload
  /\ calls' = calls /\ fragments' = fragments /\ done' = done /\ resolved' = resolved
  /\ End("stream_error") \/ End("provider_error") \/ (at # "decide" /\ mode # "run" /\ End("disconnected"))

Receiving == Ask \/ EndStream \/ EndFragments \/ Respond \/ ReceiveContent \/ ReceiveCalls
           \/ ReceiveFragment

LEMMA ReceivingKinds == LoopTypes /\ Receiving => Receives \/ BreaksOff
<1> SUFFICES ASSUME LoopTypes, Receiving PROVE Receives \/ BreaksOff
  OBVIOUS
<1>1. CASE Ask
  BY <1>1 DEF Ask, NewText, Receives
<1>2. CASE EndStream
  BY <1>2 DEF EndStream, Receives
<1>3. CASE EndFragments
  BY <1>3 DEF EndFragments, Receives, BreaksOff, End, text
<1>4. CASE Respond
  BY <1>4 DEF Respond, Receives
<1>5. CASE ReceiveContent
  BY <1>5 DEF ReceiveContent, Receives
<1>6. CASE ReceiveCalls
  BY <1>6 DEF ReceiveCalls, Receives, BreaksOff, End, text
<1>7. CASE ReceiveFragment
  BY <1>7 DEF ReceiveFragment, Receives
<1> QED
  BY <1>1, <1>2, <1>3, <1>4, <1>5, <1>6, <1>7 DEF Receiving

LEMMA Kinds ==
    ASSUME LoopTypes, [LoopNext]_loopVars
    PROVE  \/ Receives \/ BreaksOff \/ GiveAnswer \/ RefuseCalls \/ AcceptCalls \/ Dispatch
           \/ NextStep \/ UNCHANGED loopVars
<1>1. CASE Receiving
  BY <1>1, ReceivingKinds
<1>2. CASE ProviderFails
  BY <1>2 DEF ProviderFails, BreaksOff, End, text
<1>3. CASE Disconnect
  BY <1>3 DEF Disconnect, BreaksOff, End, text
<1> QED
  BY <1>1, <1>2, <1>3 DEF LoopNext, Loop, Receiving, Ended

----------------------------------------------------------------------------
(* Types. *)

LEMMA Rank ==
    ASSUME NEW S, S \subseteq Int, IsFiniteSet(S), NEW k \in 1..Cardinality(S)
    PROVE  Nth(S, k) \in S
<1> DEFINE below(e) == {j \in S : j < e}
           n == Cardinality(S)
           f == [e \in S |-> Cardinality(below(e)) + 1]
<1>1. n \in Nat
  BY FS_CardinalityType
<1>2. ASSUME NEW e \in S
      PROVE  /\ IsFiniteSet(below(e)) /\ Cardinality(below(e)) \in Nat
             /\ Cardinality(below(e)) + 1 \in 1..n
  <2>1. below(e) \in SUBSET (S \ {e})
    OBVIOUS
  <2>2. IsFiniteSet(S \ {e}) /\ Cardinality(S \ {e}) = n - 1
    BY FS_RemoveElement
  <2> HIDE DEF below
  <2>3. IsFiniteSet(below(e)) /\ Cardinality(below(e)) <= Cardinality(S \ {e})
    BY <2>1, <2>2, FS_Subset
  <2>4. Cardinality(below(e)) \in Nat
    BY <2>3, FS_CardinalityType
  <2> QED
    <3> HIDE DEF n
    <3> QED
      BY <1>1, <2>2, <2>3, <2>4
<1>3. ASSUME NEW d \in S, NEW e \in S, d < e
      PROVE  Cardinality(below(d)) # Cardinality(below(e))
  <2>1. \A j \in S : j < d => j < e
    BY <1>3
  <2>2. ~(d < d)
    BY <1>3
  <2>3. below(d) \in SUBSET below(e) /\ d \in below(e) /\ d \notin below(d)
    BY <1>3, <2>1, <2>2, Zenon
  <2> HIDE DEF below
  <2> QED
    BY <1>2, <2>3, FS_Subset
<1>4. f \in Injection(S, 1..n)
  <2>1. ASSUME NEW d \in S, NEW e \in S, d # e
        PROVE  f[d] # f[e]
    <3>1. d < e \/ e < d
      BY <2>1
    <3>2. f[d] = Cardinality(below(d)) + 1 /\ f[e] = Cardinality(below(e)) + 1
      OBVIOUS
    <3> HIDE DEF below, f
    <3> QED
      BY <1>2, <1>3, <3>1, <3>2
  <2>2. f \in [S -> 1..n]
    <3> HIDE DEF below, n
    <3> QED
      BY <1>2
  <2> HIDE DEF f, n
  <2> QED
    BY <2>1, <2>2 DEF Injection, IsInjective
<1>5. f \in Surjection(S, 1..n)
  <2>1. IsFiniteSet(1..n) /\ Cardinality(1..n) = n
    BY <1>1, FS_Interval
  <2> HIDE DEF f
  <2> QED
    BY <1>4, <2>1, FS_Injection
<1>6. PICK e \in S : f[e] = k
  <2> HIDE DEF f
  <2> QED
    BY <1>5 DEF Surjection
<1>7. Cardinality(below(e)) = k - 1
  <2>1. f[e] = Cardinality(below(e)) + 1
    OBVIOUS
  <2> HIDE DEF below, f
  <2> QED
    BY <1>2, <1>6, <2>1
<1> QED
  BY <1>7 DEF Nth

LEMMA CallsTyped == ASSUME NEW k PROVE Calls(k) \subseteq CallRecord
  BY LoopAssumption DEF Calls, CallRecord

LEMMA ResolvedTyped ==
    ASSUME NEW h, NEW r \in BOOLEAN, NEW s
    PROVE  VocativeFeed(h, r, s).resolved \in BOOLEAN
  BY DEF VocativeFeed

LEMMA ReceivingTypes ==
    ASSUME LoopTypes, Receiving
    PROVE  LoopTypes'
<1>1. /\ <<>> \in Seq(CallRecord) /\ Len(<<>>) = 0 /\ 0 \in 0..0
      /\ (AgentName = << >>) \in BOOLEAN
  OBVIOUS
<1>2. CASE Ask
  BY <1>1, <1>2 DEF LoopTypes, Ask, NewText
<1>3. CASE EndStream
  BY <1>3 DEF LoopTypes, EndStream, text
<1>4. CASE EndFragments
  <2>1. CASE out # << >>
    BY <1>4, <2>1 DEF LoopTypes, EndFragments, End, text
  <2>2. CASE out = << >>
    <3> DEFINE S == DOMAIN fragments
    <3>1. IsFiniteSet(S) /\ S \subseteq Int
      <4>1. S \in SUBSET (0..MaxCalls)
        BY DEF LoopTypes
      <4>2. MaxCalls \in Int
        BY LoopAssumption
      <4>3. IsFiniteSet(0..MaxCalls) /\ 0..MaxCalls \subseteq Int
        BY <4>2, FS_Interval
      <4> HIDE DEF S
      <4> QED
        BY <4>1, <4>3, FS_Subset
    <3>2. Cardinality(S) \in Nat
      BY <3>1, FS_CardinalityType
    <3>3. \A k \in 1..Cardinality(S) : fragments[Nth(S, k)] \in CallRecord
      BY <3>1, Rank DEF LoopTypes
    <3>4. Assembled \in Seq(CallRecord)
      BY <3>2, <3>3 DEF Assembled
    <3>5. /\ calls' = Assembled /\ fragments' = [i \in {} |-> None] /\ NewText /\ at' = "decide"
          /\ mode' = mode /\ step' = step /\ done' = done /\ conversation' = conversation
          /\ total' = total /\ at = "receive"
      BY <1>4, <2>2 DEF EndFragments
    <3>6. done' = 0 /\ Len(calls') \in Nat /\ 0 \in 0..Len(calls')
      BY <3>4, <3>5 DEF LoopTypes
    <3> QED
      BY <3>4, <3>5, <3>6, <1>1 DEF LoopTypes, NewText
  <2> QED
    BY <2>1, <2>2
<1>5. CASE Respond
  <2>1. /\ at = "receive" /\ at' = "decide"
        /\ mode' = mode /\ step' = step /\ done' = done /\ conversation' = conversation
        /\ total' = total /\ fragments' = fragments /\ resolved' = resolved
        /\ calls' \in BoundedSeq(UNION {Calls(k) : k \in 1..MaxCalls}, MaxCalls + 1)
        /\ \A k \in DOMAIN calls' : calls'[k] \in Calls(k)
    BY <1>5 DEF Respond
  <2>2. PICK m \in 0..(MaxCalls + 1) : calls' \in [1..m -> UNION {Calls(k) : k \in 1..MaxCalls}]
    BY <2>1 DEF BoundedSeq, SeqOf
  <2>3. m \in Nat /\ DOMAIN calls' = 1..m /\ \A k \in 1..m : calls'[k] \in CallRecord
    BY <2>1, <2>2, CallsTyped, LoopAssumption
  <2>4. calls' = [k \in 1..m |-> calls'[k]]
    BY <2>2
  <2>5. calls' \in Seq(CallRecord)
    BY <2>3, <2>4
  <2> QED
    BY <2>1, <2>5 DEF LoopTypes
<1>6. CASE ReceiveContent
  <2>1. resolved' \in BOOLEAN
    BY <1>6, ResolvedTyped DEF ReceiveContent, Content, LoopTypes
  <2> QED
    BY <1>6, <2>1 DEF LoopTypes, ReceiveContent
<1>7. CASE ReceiveCalls
  <2>1. CASE out # << >>
    BY <1>7, <2>1 DEF LoopTypes, ReceiveCalls, End, text
  <2>2. CASE out = << >>
    <3>1. PICK call \in CallRecord : calls' = Append(calls, call)
      BY <1>7, <2>2, CallsTyped DEF ReceiveCalls
    <3>2. calls' \in Seq(CallRecord) /\ Len(calls') = Len(calls) + 1
      BY <3>1 DEF LoopTypes
    <3>3. resolved' \in BOOLEAN
      BY <1>7, <2>2 DEF ReceiveCalls, NewText
    <3> QED
      BY <1>7, <2>2, <3>2, <3>3 DEF LoopTypes, ReceiveCalls
  <2> QED
    BY <2>1, <2>2
<1>8. CASE ReceiveFragment
  <2>1. PICK i \in (0..MaxCalls) \ DOMAIN fragments : \E call \in Calls(i + 1) :
           fragments' = [k \in DOMAIN fragments \cup {i} |-> IF k = i THEN call ELSE fragments[k]]
    BY <1>8 DEF ReceiveFragment
  <2>2. PICK call \in CallRecord :
           fragments' = [k \in DOMAIN fragments \cup {i} |-> IF k = i THEN call ELSE fragments[k]]
    BY <2>1, CallsTyped
  <2>3. /\ DOMAIN fragments' \subseteq 0..MaxCalls
        /\ \A k \in DOMAIN fragments' : fragments'[k] \in CallRecord
    BY <2>1, <2>2 DEF LoopTypes
  <2> QED
    BY <1>8, <2>3 DEF LoopTypes, ReceiveFragment, text
<1> QED
  BY <1>2, <1>3, <1>4, <1>5, <1>6, <1>7, <1>8 DEF Receiving

LEMMA CallTyped ==
    ASSUME LoopTypes, NEW k \in 1..Len(calls)
    PROVE  calls[k].tool \in ToolNames /\ calls[k].limit \in Limits
<1>1. calls[k] \in CallRecord
  BY DEF LoopTypes
<1> QED
  BY <1>1 DEF CallRecord

LEMMA AssistantTyped == LoopTypes => Assistant \in MessageRecord
<1> SUFFICES ASSUME LoopTypes PROVE Assistant \in MessageRecord
  OBVIOUS
<1>1. \A k \in 1..Len(calls) : calls[k].tool \in ToolNames
  BY CallTyped
<1>2. Len(calls) \in Nat
  BY DEF LoopTypes
<1>3. [k \in 1..Len(calls) |-> calls[k].tool] \in Seq(ToolNames)
  BY <1>1, <1>2
<1> QED
  BY <1>3 DEF Assistant, MessageRecord

LEMMA TypesStep ==
    ASSUME LoopTypes, [LoopNext]_loopVars
    PROVE  LoopTypes'
<1>1. CASE Receiving
  BY <1>1, ReceivingTypes
<1>2. CASE BreaksOff
  BY <1>2 DEF LoopTypes, BreaksOff, End
<1>3. CASE GiveAnswer
  BY <1>3, AssistantTyped DEF LoopTypes, GiveAnswer, End, text
<1>4. CASE RefuseCalls
  BY <1>4, AssistantTyped DEF LoopTypes, RefuseCalls, End, text
<1>5. CASE AcceptCalls
  BY <1>5, AssistantTyped, LoopAssumption DEF LoopTypes, AcceptCalls, OverLimit, text
<1>6. CASE Dispatch
  <2>1. /\ done' = done + 1 /\ done < Len(calls) /\ at = "dispatch"
        /\ conversation' = Append(conversation, ToolMessage(calls[done + 1].tool))
        /\ mode' = mode /\ at' = at /\ step' = step /\ calls' = calls /\ fragments' = fragments
        /\ total' = total /\ resolved' = resolved
    BY <1>6 DEF Dispatch, text, ToolMessage
  <2>2. done + 1 \in 1..Len(calls)
    BY <2>1 DEF LoopTypes
  <2>3. ToolMessage(calls[done + 1].tool) \in MessageRecord
    BY <2>2, CallTyped DEF ToolMessage, MessageRecord
  <2> QED
    BY <2>1, <2>2, <2>3 DEF LoopTypes
<1>7. CASE NextStep
  BY <1>7, LoopAssumption DEF LoopTypes, NextStep, text
<1>8. CASE UNCHANGED loopVars
  BY <1>8 DEF LoopTypes, loopVars
<1>9. CASE ProviderFails \/ Disconnect
  BY <1>9 DEF LoopTypes, ProviderFails, Disconnect, End, text
<1> QED
  BY <1>1, <1>2, <1>3, <1>4, <1>5, <1>6, <1>7, <1>8, <1>9 DEF LoopNext, Loop, Receiving, Ended

----------------------------------------------------------------------------
(* Reasons and frames. *)

(* Whatever a handler answers. *)
LEMMA ResultTyped ==
    ASSUME NEW tool \in ToolNames, NEW limit \in Int, NEW d \in LoopDispatch(tool, limit)
    PROVE  /\ d.result.ok \in BOOLEAN /\ d.result.listed \in BOOLEAN
           /\ d.result.items \in Nat /\ d.result.weight \in Nat
           /\ d.result.complete \in BOOLEAN
           /\ d.ran \in BOOLEAN /\ (d.ran => tool \in Offered \ GraphOperations)
<1> DEFINE Shape(r) == /\ r.ok \in BOOLEAN /\ r.listed \in BOOLEAN /\ r.items \in Nat
                       /\ r.weight \in Nat /\ r.complete \in BOOLEAN
<1>1. ASSUME NEW code PROVE Shape(Error(code))
  BY DEF Error
<1>2. Shape(Scalar)
  BY DEF Scalar
<1>3. ASSUME NEW n \in 0..(IF limit = NoLimit THEN MaxItems ELSE Min({limit, MaxItems})),
             NEW w \in ItemBytes, NEW c \in BOOLEAN
      PROVE  Shape(Found(n, w, c))
  <2>1. n \in Nat /\ w \in Nat
    BY LoopAssumption
  <2> QED
    BY <2>1 DEF Found
<1>4. ASSUME NEW r \in HandlerResults(tool, limit) PROVE Shape(r)
  <2> HIDE DEF Shape
  <2> QED
    BY <1>1, <1>2, <1>3 DEF HandlerResults
<1>5. ASSUME NEW e \in DispatchResults(tool, limit)
      PROVE  Shape(e.result) /\ e.ran \in BOOLEAN /\ (e.ran => tool \in Public \ GraphOperations)
  <2> HIDE DEF Shape
  <2>1. CASE tool \notin Public \ GraphOperations
    <3>1. e = [ran |-> FALSE, result |-> Error("unknown_tool")]
      BY <2>1 DEF DispatchResults
    <3> QED
      BY <1>1, <3>1
  <2>2. CASE tool \in Public \ GraphOperations /\ ~ValidArguments(tool, limit)
    <3>1. e = [ran |-> FALSE, result |-> Error("invalid_arguments")]
      BY <2>2 DEF DispatchResults
    <3> QED
      BY <1>1, <3>1
  <2>3. CASE tool \in Public \ GraphOperations /\ ValidArguments(tool, limit)
    <3>1. PICK r \in HandlerResults(tool, limit) : e = [ran |-> TRUE, result |-> r]
      BY <2>3 DEF DispatchResults
    <3> QED
      BY <1>4, <2>3, <3>1
  <2> QED
    BY <2>1, <2>2, <2>3
<1> HIDE DEF Shape
<1>6. /\ Shape(d.result)
      /\ d.ran \in BOOLEAN /\ (d.ran => tool \in Offered \ GraphOperations)
  <2>1. CASE tool = "write_item"
    <3>1. d = [ran |-> FALSE, result |-> Error("unknown_tool")]
      BY <2>1 DEF LoopDispatch
    <3> QED
      BY <1>1, <3>1
  <2>2. CASE tool # "write_item" /\ d \in DispatchResults(tool, limit)
    BY <1>5, <2>2 DEF Offered
  <2>3. CASE tool # "write_item" /\ d \notin DispatchResults(tool, limit)
    <3>1. PICK e \in DispatchResults(tool, limit) :
             e.ran /\ d = [ran |-> TRUE, result |-> Error("tool_timeout")]
      BY <2>3 DEF LoopDispatch
    <3> QED
      BY <1>1, <1>5, <2>3, <3>1 DEF Offered
  <2> QED
    BY <2>1, <2>2, <2>3 DEF LoopDispatch
<1> QED
  BY <1>6 DEF Shape

(* The tool call that a dispatch answers, and what its handler answers.    *)
LEMMA Dispatched ==
    ASSUME LoopTypes, Dispatch
    PROVE  /\ done + 1 \in 1..Len(calls) /\ calls[done + 1].tool \in ToolNames
           /\ \E limit \in Int : \E d \in LoopDispatch(calls[done + 1].tool, limit) :
                /\ ran' = IF d.ran THEN ran \cup {calls[done + 1].tool} ELSE ran
                /\ failure' = ToolFailureReason(d.result, failure)
                /\ codes' = codes \cup Failing(d.result)
                /\ payload' = SerializeToolResult(calls[done + 1].tool, d.result)
<1> DEFINE call == calls[done + 1]
<1>1. done + 1 \in 1..Len(calls)
  BY DEF LoopTypes, Dispatch
<1>2. call.tool \in ToolNames /\ call.limit \in Int
  BY <1>1, CallTyped, LoopAssumption
<1>3. BoundedArguments(call) \in Int
  <2>1. ASSUME NEW a \in Int, NEW b \in Int PROVE Min({a, b}) \in Int
    <3>1. Min({a, b}) = a \/ Min({a, b}) = b
      BY DEF Min
    <3> QED
      BY <3>1
  <2> HIDE DEF call
  <2> QED
    BY <1>2, <2>1, LoopAssumption DEF BoundedArguments
<1> QED
  BY <1>1, <1>2, <1>3 DEF Dispatch

LEMMA ReasonsStep ==
    ASSUME LoopTypes, Reasons, [LoopNext]_loopVars
    PROVE  Reasons'
<1> USE DEF Reasons, Reason, None
<1>1. CASE Receives
  BY <1>1 DEF Receives, Answered
<1>2. CASE BreaksOff
  BY <1>2 DEF BreaksOff, End, Answered
<1>3. CASE GiveAnswer
  BY <1>3 DEF GiveAnswer, End, Answered
<1>4. CASE RefuseCalls
  BY <1>4 DEF RefuseCalls, End, Answered
<1>5. CASE AcceptCalls
  BY <1>5 DEF AcceptCalls, Answered
<1>6. CASE Dispatch
  <2>1. PICK limit \in Int : \E d \in LoopDispatch(calls[done + 1].tool, limit) :
              /\ failure' = ToolFailureReason(d.result, failure)
              /\ codes' = codes \cup Failing(d.result)
    BY <1>6, Dispatched
  <2>2. PICK d \in LoopDispatch(calls[done + 1].tool, limit) :
              /\ failure' = ToolFailureReason(d.result, failure)
              /\ codes' = codes \cup Failing(d.result)
    BY <2>1
  <2>3. stop' = stop /\ at' = at /\ at # "ended"
    BY <1>6 DEF Dispatch
  <2>4. failure' = Reason'
    BY <2>2 DEF ToolFailureReason, Failing
  <2> QED
    BY <2>3, <2>4 DEF Answered
<1>7. CASE NextStep
  BY <1>7 DEF NextStep, Answered
<1>8. CASE UNCHANGED loopVars
  BY <1>8 DEF loopVars, Answered
<1> QED
  BY <1>1, <1>2, <1>3, <1>4, <1>5, <1>6, <1>7, <1>8, Kinds

(* However the answer ends, the stream is closed once.                     *)
LEMMA Appended ==
    ASSUME NEW S, NEW T, NEW s \in Seq(S), NEW b \in T, NEW c \in T
    PROVE  /\ DOMAIN (s \o <<b, c>>) = 1..(Len(s) + 2) /\ Len(s) \in Nat
           /\ \A i \in 1..Len(s) : (s \o <<b, c>>)[i] = s[i] /\ s[i] \in S
           /\ (s \o <<b, c>>)[Len(s) + 1] = b /\ (s \o <<b, c>>)[Len(s) + 2] = c
<1>1. s \in Seq(S \cup T) /\ <<b, c>> \in Seq(S \cup T) /\ Len(<<b, c>>) = 2
  OBVIOUS
<1> QED
  BY <1>1

LEMMA EndCloses ==
    ASSUME NEW reason, mode # "run", frame \in Seq({"role", "content"}), End(reason)
    PROVE  Closed'
<1> DEFINE D == {i \in DOMAIN frame' : frame'[i] = "done"}
           n == Len(frame)
<1>1. stop' = reason
  BY DEF End
<1>2. CASE reason = "disconnected"
  <2>1. frame' = frame /\ \A i \in DOMAIN frame : frame[i] \in {"role", "content"}
    BY <1>2 DEF End
  <2>2. D = {} /\ "stop" \notin Range(frame')
    BY <2>1 DEF Range
  <2> QED
    BY <1>1, <1>2, <2>2, FS_EmptySet DEF Closed, Answered
<1>3. ASSUME NEW x \in {"stop", "error"}, frame' = frame \o <<x, "done">>
      PROVE  Cardinality(D) = 1 /\ ("stop" \in Range(frame') <=> x = "stop")
  <2>1. /\ DOMAIN frame' = 1..(n + 2) /\ n \in Nat
        /\ \A i \in 1..n : frame'[i] \in {"role", "content"}
        /\ frame'[n + 1] = x /\ frame'[n + 2] = "done"
    <3> DEFINE T == {"stop", "error", "done"}
    <3>1. x \in T /\ "done" \in T
      OBVIOUS
    <3> HIDE DEF T
    <3> QED
      BY <1>3, <3>1, Appended
  <2>2. \A i \in 1..(n + 2) : i \in 1..n \/ i = n + 1 \/ i = n + 2
    BY <2>1
  <2>3. D = {n + 2}
    <3>1. n + 2 \in 1..(n + 2)
      BY <2>1
    <3> QED
      BY <2>1, <2>2, <3>1
  <2>4. "stop" \in Range(frame') <=> x = "stop"
    <3>1. n + 1 \in 1..(n + 2)
      BY <2>1
    <3> QED
      BY <2>1, <2>2, <3>1 DEF Range
  <2> QED
    BY <2>3, <2>4, FS_Singleton
<1>4. CASE reason \in {"answer", "tool_error", "timeout"}
  <2>1. frame' = frame \o <<"stop", "done">> /\ Answered' /\ stop' # "disconnected"
    BY <1>1, <1>4 DEF End, Answered
  <2> QED
    BY <1>3, <2>1 DEF Closed
<1>5. CASE reason \notin {"disconnected", "answer", "tool_error", "timeout"}
  <2>1. frame' = frame \o <<"error", "done">> /\ ~Answered' /\ stop' # "disconnected"
    BY <1>1, <1>5 DEF End, Answered
  <2> QED
    BY <1>3, <2>1 DEF Closed
<1> QED
  BY <1>2, <1>4, <1>5

LEMMA FramesStep ==
    ASSUME LoopTypes, Frames, [LoopNext]_loopVars
    PROVE  Frames'
<1> SUFFICES ASSUME mode' # "run" PROVE Frames'
  BY DEF Frames
<1>1. CASE ReceiveContent
  <2>1. frame \in Seq({"role", "content"}) /\ at' # "ended"
    BY <1>1 DEF ReceiveContent, Frames
  <2>2. frame' = frame \/ (frame' = Append(frame, "content") /\ Last(frame) # "content")
    BY <1>1 DEF ReceiveContent, Content
  <2>3. frame' \in Seq({"role", "content"})
    BY <2>1, <2>2
  <2> QED
    BY <2>1, <2>3 DEF Frames
<1>2. CASE at' = "ended" /\ at # "ended"
  <2>1. PICK reason : End(reason) /\ mode' = mode
    BY <1>2 DEF LoopNext, Loop, Ask, EndStream, EndFragments, Respond, GiveAnswer, RefuseCalls,
       AcceptCalls, Dispatch, NextStep, ReceiveContent, ReceiveCalls, ReceiveFragment,
       ProviderFails, Disconnect, Ended, loopVars
  <2>2. mode # "run" /\ frame \in Seq({"role", "content"})
    BY <1>2, <2>1 DEF Frames
  <2>3. Closed'
    BY <2>1, <2>2, EndCloses
  <2> QED
    BY <1>2, <2>3 DEF Frames
<1>3. CASE at' # "ended" /\ ~ReceiveContent
  <2>1. frame' = frame /\ mode' = mode /\ at # "ended"
    BY <1>3 DEF LoopNext, Loop, Ask, EndStream, EndFragments, Respond, GiveAnswer, RefuseCalls,
       AcceptCalls, Dispatch, NextStep, ReceiveCalls, ReceiveFragment,
       ProviderFails, Disconnect, Ended, End, loopVars
  <2> QED
    BY <1>3, <2>1 DEF Frames
<1>4. CASE at = "ended"
  <2>1. UNCHANGED loopVars
    BY <1>4 DEF LoopNext, Loop, Ask, EndStream, EndFragments, Respond, GiveAnswer, RefuseCalls,
       AcceptCalls, Dispatch, NextStep, ReceiveContent, ReceiveCalls, ReceiveFragment,
       ProviderFails, Disconnect, Ended
  <2> QED
    BY <2>1 DEF Frames, Closed, Answered, loopVars
<1> QED
  BY <1>1, <1>2, <1>3, <1>4

----------------------------------------------------------------------------
(* Results. *)

LEMMA LargestFits ==
    ASSUME NEW m \in Int, NEW S, S \subseteq 0..m, S # {}
    PROVE  Max(S) \in S
<1>1. m \in Nat /\ \A n \in S : n \in Int /\ n <= m
  <2>1. PICK n \in S : n \in 0..m
    OBVIOUS
  <2> QED
    BY <2>1
<1> DEFINE T == {m - n : n \in S}
<1>2. T \subseteq Nat /\ T # {}
  <2>1. ASSUME NEW n \in S PROVE m - n \in Nat
    BY <1>1
  <2> QED
    BY <2>1
<1>3. PICK t \in T : \A u \in T : ~(u < t)
  <2>1. PICK t \in T : \A u \in T : ~(<<u, t>> \in OpToRel(<, Nat))
    <3> HIDE DEF T
    <3> QED
      BY <1>2, NatLessThanWellFounded, WFMin
  <2> QED
    BY <1>2, <2>1 DEF OpToRel
<1>4. PICK x \in S : t = m - x
  OBVIOUS
<1>5. ASSUME NEW y \in S PROVE x >= y
  <2>1. m - y \in T
    OBVIOUS
  <2>2. ~(m - y < m - x)
    BY <1>3, <1>4, <2>1
  <2> QED
    BY <1>1, <2>2
<1> QED
  BY <1>5 DEF Max

LEMMA SerializedFits ==
    ASSUME NEW tool \in ToolNames, NEW result,
           result.items \in Nat, result.weight \in Nat, result.complete \in BOOLEAN
    PROVE  LET p == SerializeToolResult(tool, result)
           IN  /\ p.bytes <= MaxBytes /\ p.n <= MaxRecords
               /\ p.n < p.available => p.truncated /\ ~p.complete
<1> DEFINE kept == IF result.listed THEN Min({result.items, MaxRecords}) ELSE 0
           first == Message(tool, result, kept)
           smaller == {n \in 0..(first.n - 1) :
                         result.listed /\ Message(tool, result, n).bytes <= MaxBytes}
           p == SerializeToolResult(tool, result)
           Good(q) == /\ q.bytes <= MaxBytes /\ q.n <= MaxRecords
                      /\ q.n < q.available => q.truncated /\ ~q.complete
<1>1. kept \in Nat /\ kept <= MaxRecords /\ first.n = kept
  BY LoopAssumption DEF Min, Message
<1>2. ASSUME NEW n \in Nat, n <= MaxRecords, Message(tool, result, n).bytes <= MaxBytes
      PROVE  Good(Message(tool, result, n))
  <2> DEFINE q == Message(tool, result, n)
  <2>1. /\ q.n = n /\ q.available = result.items /\ q.truncated = (n < result.items)
        /\ q.complete = (result.complete /\ n = result.items)
    BY DEF Message
  <2>2. n < result.items => q.truncated /\ ~q.complete
    <3> HIDE DEF q
    <3>1. n < result.items => n # result.items
      OBVIOUS
    <3> QED
      BY <2>1, <3>1
  <2> HIDE DEF q
  <2> QED
    BY <1>2, <2>1, <2>2 DEF q
<1>6. p = IF first.bytes <= MaxBytes THEN first
          ELSE IF smaller # {} THEN Message(tool, result, Max(smaller))
          ELSE IF 1 + NameBytes[tool] <= MaxBytes THEN TooLarge(tool, 1 + NameBytes[tool])
          ELSE TooLarge(tool, 1)
  BY DEF SerializeToolResult
<1>3. CASE first.bytes <= MaxBytes
  <2>1. p = first
    BY <1>3, <1>6
  <2> QED
    BY <1>1, <1>2, <1>3, <2>1
<1>4. CASE ~(first.bytes <= MaxBytes) /\ smaller # {}
  <2>1. p = Message(tool, result, Max(smaller))
    <3> HIDE DEF p, first, smaller
    <3> QED
      BY <1>4, <1>6
  <2>2. smaller \subseteq 0..(kept - 1)
    BY <1>1
  <2>3. Max(smaller) \in smaller
    <3> HIDE DEF smaller, kept, first
    <3>1. kept - 1 \in Int
      BY <1>1
    <3> QED
      BY <1>4, <2>2, <3>1, LargestFits
  <2>4. Max(smaller) \in Nat /\ Max(smaller) <= MaxRecords
    BY <1>1, <2>2, <2>3, LoopAssumption
  <2>5. Message(tool, result, Max(smaller)).bytes <= MaxBytes
    BY <2>3
  <2> HIDE DEF p, smaller, Good
  <2>6. Good(Message(tool, result, Max(smaller)))
    BY <1>2, <2>4, <2>5
  <2> QED
    BY <2>1, <2>6 DEF Good, p
<1>5. CASE ~(first.bytes <= MaxBytes) /\ smaller = {}
  <2>1. PICK b \in Nat : p = TooLarge(tool, b) /\ b <= MaxBytes
    <3>1. NameBytes[tool] \in Nat
      BY LoopAssumption
    <3>2. CASE 1 + NameBytes[tool] <= MaxBytes
      <4>1. p = TooLarge(tool, 1 + NameBytes[tool])
        <5> HIDE DEF p, first, smaller
        <5> QED
          BY <1>5, <1>6, <3>2
      <4> HIDE DEF p
      <4> QED
        BY <3>1, <3>2, <4>1
    <3>3. CASE ~(1 + NameBytes[tool] <= MaxBytes)
      <4>1. p = TooLarge(tool, 1)
        <5> HIDE DEF p, first, smaller
        <5> QED
          BY <1>5, <1>6, <3>3
      <4> QED
        BY <4>1, LoopAssumption
    <3> QED
      BY <3>2, <3>3
  <2> HIDE DEF p
  <2>2. Good(TooLarge(tool, b))
    BY <2>1, LoopAssumption DEF TooLarge, Undo
  <2> QED
    BY <2>1, <2>2 DEF p
<1> QED
  BY <1>3, <1>4, <1>5

LEMMA ServiceStep ==
    ASSUME LoopTypes, OnlyOfferedToolsRun, TruncationIsVisible, [LoopNext]_loopVars
    PROVE  OnlyOfferedToolsRun' /\ TruncationIsVisible'
<1>1. ASSUME ran' = ran, payload' = payload \/ payload' = Undo
      PROVE  OnlyOfferedToolsRun' /\ TruncationIsVisible'
  BY <1>1, LoopAssumption DEF OnlyOfferedToolsRun, TruncationIsVisible, Undo
<1>2. CASE Dispatch
  <2> DEFINE tool == calls[done + 1].tool
  <2>1. PICK limit \in Int : \E d \in LoopDispatch(tool, limit) :
              /\ ran' = IF d.ran THEN ran \cup {tool} ELSE ran
              /\ payload' = SerializeToolResult(tool, d.result)
    BY <1>2, Dispatched
  <2>2. PICK d \in LoopDispatch(tool, limit) :
              /\ ran' = IF d.ran THEN ran \cup {tool} ELSE ran
              /\ payload' = SerializeToolResult(tool, d.result)
    BY <2>1
  <2>3. tool \in ToolNames
    BY <1>2, Dispatched
  <2> HIDE DEF tool
  <2>4. /\ d.result.items \in Nat /\ d.result.weight \in Nat /\ d.result.complete \in BOOLEAN
        /\ d.ran => tool \in Offered \ GraphOperations
    BY <2>3, ResultTyped
  <2>5. TruncationIsVisible'
    BY <2>2, <2>3, <2>4, SerializedFits DEF TruncationIsVisible
  <2> QED
    BY <2>2, <2>4, <2>5 DEF OnlyOfferedToolsRun
<1> QED
  BY <1>1, <1>2, Kinds DEF Receives, BreaksOff, GiveAnswer, RefuseCalls, AcceptCalls, NextStep,
     loopVars

----------------------------------------------------------------------------
(* The conversation. *)

\* A message is appended.
LEMMA AppendFacts ==
    ASSUME NEW s \in Seq(MessageRecord), NEW m \in MessageRecord
    PROVE  /\ Len(s) \in Nat /\ Append(s, m) \in Seq(MessageRecord)
           /\ Len(Append(s, m)) = Len(s) + 1
           /\ \A i \in 1..Len(s) : Append(s, m)[i] = s[i]
           /\ Append(s, m)[Len(s) + 1] = m
           /\ \A i \in 1..(Len(s) + 1) : i \in 1..Len(s) \/ i = Len(s) + 1
  OBVIOUS

LEMMA StillServed ==
    ASSUME NEW s \in Seq(MessageRecord), NEW m \in MessageRecord, NEW i \in 1..Len(s),
           ServedAt(s, i)
    PROVE  ServedAt(Append(s, m), i)
<1> DEFINE t == Append(s, m)
<1>1. /\ Len(s) \in Nat /\ Len(t) = Len(s) + 1 /\ \A j \in 1..Len(s) : t[j] = s[j]
  BY AppendFacts
<1> HIDE DEF t
<1>2. SUFFICES ASSUME t[i].role = "assistant", NEW k \in 1..Len(t[i].tools)
               PROVE  i + k <= Len(t) /\ t[i + k] = ToolMessage(t[i].tools[k])
  BY DEF ServedAt, t
<1>3. t[i] = s[i] /\ i + k <= Len(s) /\ s[i + k] = ToolMessage(s[i].tools[k])
  BY <1>1, <1>2 DEF ServedAt
<1>4. i + k \in 1..Len(s)
  <2>1. Len(t[i].tools) \in Nat
    <3>1. s[i] \in MessageRecord
      OBVIOUS
    <3> QED
      BY <1>3, <3>1 DEF MessageRecord
  <2> QED
    BY <1>1, <1>3, <2>1
<1> QED
  BY <1>1, <1>3, <1>4

LEMMA ResultsOf ==
    ASSUME NEW s \in Seq(MessageRecord)
    PROVE  /\ IsFiniteSet(Results(s)) /\ Cardinality(Results(s)) \in Nat
           /\ \A m \in MessageRecord :
                Cardinality(Results(Append(s, m))) =
                  Cardinality(Results(s)) + (IF m.role = "tool" THEN 1 ELSE 0)
<1>1. Results(s) \subseteq 1..Len(s) /\ Len(s) \in Nat
  BY DEF Results
<1>2. IsFiniteSet(Results(s)) /\ Cardinality(Results(s)) \in Nat
  <2>1. IsFiniteSet(1..Len(s))
    BY <1>1, FS_Interval
  <2> QED
    BY <1>1, <2>1, FS_Subset, FS_CardinalityType
<1>3. ASSUME NEW m \in MessageRecord
      PROVE  Cardinality(Results(Append(s, m))) =
               Cardinality(Results(s)) + (IF m.role = "tool" THEN 1 ELSE 0)
  <2> DEFINE t == Append(s, m)
  <2>1. /\ Len(s) \in Nat /\ Len(t) = Len(s) + 1 /\ \A j \in 1..Len(s) : t[j] = s[j]
        /\ t[Len(s) + 1] = m /\ \A i \in 1..(Len(s) + 1) : i \in 1..Len(s) \/ i = Len(s) + 1
    BY AppendFacts
  <2> HIDE DEF t
  <2>2. CASE m.role = "tool"
    <3>1. Results(t) = Results(s) \cup {Len(s) + 1} /\ Len(s) + 1 \notin Results(s)
      BY <2>1, <2>2 DEF Results
    <3> QED
      BY <1>2, <2>2, <3>1, FS_AddElement DEF t
  <2>3. CASE m.role # "tool"
    <3>1. Results(t) = Results(s)
      BY <2>1, <2>3 DEF Results
    <3> QED
      BY <1>2, <2>3, <3>1 DEF t
  <2> QED
    BY <2>2, <2>3
<1> QED
  BY <1>2, <1>3

\* What a dispatch does to the conversation.
LEMMA DispatchAppends ==
    ASSUME LoopTypes, Dispatch
    PROVE  /\ at = "dispatch" /\ at' = "dispatch" /\ calls' = calls /\ done' = done + 1
           /\ total' = total /\ step' = step /\ done + 1 \in 1..Len(calls)
           /\ conversation' = Append(conversation, ToolMessage(calls[done + 1].tool))
           /\ ToolMessage(calls[done + 1].tool) \in MessageRecord
<1>1. done + 1 \in 1..Len(calls) /\ calls[done + 1].tool \in ToolNames
  BY Dispatched
<1>2. ToolMessage(calls[done + 1].tool) \in MessageRecord
  BY <1>1 DEF ToolMessage, MessageRecord
<1> QED
  BY <1>1, <1>2 DEF Dispatch, ToolMessage

LEMMA BlocksStep ==
    ASSUME LoopTypes, Blocks, [LoopNext]_loopVars
    PROVE  Blocks'
<1>0. conversation \in Seq(MessageRecord) /\ Len(conversation) \in Nat
  BY DEF LoopTypes
<1>1. CASE Receives
  BY <1>1 DEF Receives, Blocks
<1>2. CASE at' = "ended"
  BY <1>2 DEF Blocks
<1>3. CASE AcceptCalls
  <2>1. /\ conversation' = Append(conversation, Assistant) /\ at' = "dispatch" /\ at = "decide"
        /\ calls' = calls /\ done' = 0
    BY <1>3 DEF AcceptCalls, LoopTypes
  <2>2. Assistant \in MessageRecord
    BY AssistantTyped
  <2>3. /\ Len(conversation') = Len(conversation) + 1 /\ Waiting' = Len(conversation) + 1
        /\ conversation'[Len(conversation) + 1] = Assistant /\ Assistant' = Assistant
    BY <1>0, <2>1, <2>2, AppendFacts DEF Waiting, Assistant
  <2>4. ASSUME NEW i \in 1..Len(conversation'), i # Waiting'
        PROVE  ServedAt(conversation', i)
    <3>1. i \in 1..Len(conversation)
      BY <1>0, <2>3, <2>4
    <3> QED
      BY <1>0, <2>1, <2>2, <3>1, StillServed DEF Blocks
  <2>5. Waiting' \in 1..Len(conversation')
    BY <1>0, <2>3
  <2> QED
    BY <2>1, <2>3, <2>4, <2>5 DEF Blocks
<1>4. CASE Dispatch
  <2> DEFINE m == ToolMessage(calls[done + 1].tool)
  <2>1. /\ at = "dispatch" /\ at' = "dispatch" /\ calls' = calls /\ done' = done + 1
        /\ conversation' = Append(conversation, m) /\ m \in MessageRecord /\ done \in Nat
    BY <1>4, DispatchAppends DEF LoopTypes
  <2> HIDE DEF m
  <2>2. /\ Len(conversation') = Len(conversation) + 1 /\ Waiting' = Waiting
        /\ \A i \in 1..Len(conversation) : conversation'[i] = conversation[i]
        /\ conversation'[Len(conversation) + 1] = m /\ Assistant' = Assistant
    BY <1>0, <2>1, AppendFacts DEF Waiting, Assistant
  <2>3. Waiting \in 1..Len(conversation) /\ conversation[Waiting] = Assistant
    BY <2>1 DEF Blocks
  <2>4. ASSUME NEW k \in 1..done'
        PROVE  conversation'[Waiting + k] = ToolMessage(calls[k].tool)
    <3>1. CASE k = done + 1
      <4>1. Waiting + k = Len(conversation) + 1
        BY <1>0, <2>1, <3>1 DEF Waiting
      <4> QED
        BY <2>2, <3>1, <4>1 DEF m
    <3>2. CASE k # done + 1
      <4>1. k \in 1..done /\ Waiting + k \in 1..Len(conversation)
        BY <1>0, <2>1, <2>3, <3>2 DEF Waiting
      <4> QED
        BY <2>1, <2>2, <4>1 DEF Blocks
    <3> QED
      BY <3>1, <3>2
  <2>5. ASSUME NEW i \in 1..Len(conversation'), i # Waiting
        PROVE  ServedAt(conversation', i)
    <3>1. CASE i \in 1..Len(conversation)
      BY <1>0, <2>1, <2>5, <3>1, StillServed DEF Blocks
    <3>2. CASE i = Len(conversation) + 1
      BY <2>2, <3>2 DEF ServedAt, m, ToolMessage
    <3> QED
      BY <1>0, <2>2, <3>1, <3>2
  <2>6. Waiting' \in 1..Len(conversation') /\ conversation'[Waiting'] = Assistant'
    BY <1>0, <2>2, <2>3
  <2> QED
    BY <2>1, <2>2, <2>4, <2>5, <2>6 DEF Blocks
<1>5. CASE NextStep
  <2>1. /\ at = "dispatch" /\ at' = "ask" /\ done = Len(calls) /\ conversation' = conversation
        /\ done \in Nat
    BY <1>5 DEF NextStep, LoopTypes
  <2>2. ASSUME NEW i \in 1..Len(conversation) PROVE ServedAt(conversation, i)
    <3>1. CASE i # Waiting
      BY <2>1, <3>1 DEF Blocks
    <3>2. CASE i = Waiting
      <4>1. conversation[i] = Assistant /\ Waiting + done = Len(conversation)
        BY <1>0, <2>1, <3>2 DEF Blocks, Waiting
      <4>2. Len(Assistant.tools) = done /\ \A k \in 1..done : Assistant.tools[k] = calls[k].tool
        BY <2>1 DEF Assistant
      <4>3. \A k \in 1..done : conversation[i + k] = ToolMessage(calls[k].tool)
        BY <2>1, <3>2 DEF Blocks
      <4>4. \A k \in 1..done : i + k <= Len(conversation)
        BY <1>0, <2>1, <3>2, <4>1
      <4> QED
        BY <4>1, <4>2, <4>3, <4>4 DEF ServedAt
    <3> QED
      BY <3>1, <3>2
  <2> QED
    BY <2>1, <2>2 DEF Blocks
<1>6. CASE UNCHANGED loopVars
  BY <1>6 DEF Blocks, Waiting, Assistant, loopVars
<1> QED
  BY <1>1, <1>2, <1>3, <1>4, <1>5, <1>6, Kinds DEF BreaksOff, GiveAnswer, RefuseCalls, End

\* s steps of at most m calls each.
LEMMA Products ==
    ASSUME NEW a \in Nat, NEW b \in Nat, NEW m \in Nat
    PROVE  /\ a * m \in Nat /\ (a + 1) * m = a * m + m
           /\ a <= b => a * m <= b * m
  BY SMT

LEMMA CountsStep ==
    ASSUME LoopTypes, Counts, [LoopNext]_loopVars
    PROVE  Counts'
<1> DEFINE R == Cardinality(Results(conversation))
           before == (step - 1) * MaxCalls
<1>0. /\ conversation \in Seq(MessageRecord) /\ R \in Nat /\ total \in Nat
      /\ step - 1 \in Nat /\ before \in Nat /\ step * MaxCalls = before + MaxCalls
      /\ MaxCalls \in Nat /\ done \in Nat /\ Len(calls) \in Nat /\ step \in Nat
      /\ step <= MaxSteps
  <2>1. /\ step - 1 \in Nat /\ MaxCalls \in Nat /\ (step - 1) + 1 = step
        /\ done \in Nat /\ Len(calls) \in Nat /\ step \in Nat /\ step <= MaxSteps
    BY LoopAssumption DEF LoopTypes
  <2>2. before \in Nat /\ ((step - 1) + 1) * MaxCalls = before + MaxCalls
    BY <2>1, Products
  <2>3. conversation \in Seq(MessageRecord) /\ R \in Nat /\ total \in Nat
    BY ResultsOf DEF LoopTypes
  <2> QED
    BY <2>1, <2>2, <2>3
<1>1. CASE Receives
  BY <1>1 DEF Receives, Counts
<1>2. CASE BreaksOff
  <2>1. /\ step' = step /\ conversation' = conversation /\ at' = "ended" /\ ~Answered'
        /\ at \in {"ask", "receive", "decide", "dispatch"}
    BY <1>2 DEF BreaksOff, End, Answered, LoopTypes
  <2>2. R <= before \/ (step < MaxSteps /\ R <= step * MaxCalls)
    <3> HIDE DEF R, before
    <3>1. CASE at = "dispatch"
      <4>1. total + done = R /\ total <= before /\ done <= Len(calls)
            /\ Len(calls) <= MaxCalls /\ step < MaxSteps
        BY <3>1 DEF Counts, LoopTypes, R, before
      <4> QED
        BY <1>0, <4>1
    <3>2. CASE at \in {"ask", "receive", "decide"}
      <4>1. total = R /\ total <= before
        BY <3>2 DEF Counts, R, before
      <4> QED
        BY <4>1
    <3> QED
      BY <2>1, <3>1, <3>2
  <2> QED
    BY <2>1, <2>2 DEF Counts
<1>3. CASE GiveAnswer \/ RefuseCalls \/ AcceptCalls
  <2>1. /\ conversation' = Append(conversation, Assistant) /\ at = "decide" /\ step' = step
        /\ total' = total /\ at' \in {"ended", "dispatch"}
        /\ at' = "dispatch" => done' = 0
    BY <1>3 DEF GiveAnswer, RefuseCalls, AcceptCalls, End, LoopTypes
  <2>2. Cardinality(Results(conversation')) = R /\ total = R /\ R <= before
    <3>1. Assistant \in MessageRecord /\ Assistant.role # "tool"
      BY AssistantTyped DEF Assistant
    <3>2. Cardinality(Results(conversation')) = R + 0
      BY <1>0, <2>1, <3>1, ResultsOf
    <3>3. total = R /\ R <= before
      BY <2>1 DEF Counts
    <3> HIDE DEF R
    <3> QED
      BY <1>0, <3>2, <3>3
  <2>3. /\ Cardinality(Results(conversation')) = total' /\ total' <= (step' - 1) * MaxCalls
        /\ total' \in Nat
    BY <1>0, <2>1, <2>2
  <2>4. at' = "dispatch" => total' + done' = total'
    BY <2>1, <2>3
  <2> QED
    BY <2>1, <2>3, <2>4 DEF Counts
<1>4. CASE Dispatch
  <2> DEFINE m == ToolMessage(calls[done + 1].tool)
  <2>1. /\ at = "dispatch" /\ at' = "dispatch" /\ done' = done + 1 /\ total' = total
        /\ step' = step /\ conversation' = Append(conversation, m) /\ m \in MessageRecord
        /\ m.role = "tool"
    BY <1>4, DispatchAppends DEF ToolMessage
  <2> HIDE DEF m
  <2>2. Cardinality(Results(conversation')) = R + 1
    BY <1>0, <2>1, ResultsOf
  <2>3. total + done = R /\ total <= before
    BY <2>1 DEF Counts
  <2> HIDE DEF R
  <2>4. total + (done + 1) = R + 1
    BY <1>0, <2>3
  <2> QED
    BY <2>1, <2>2, <2>3, <2>4 DEF Counts
<1>5. CASE NextStep
  <2>1. /\ at = "dispatch" /\ at' = "ask" /\ done = Len(calls) /\ conversation' = conversation
        /\ total' = total + Len(calls) /\ step' = step + 1 /\ Len(calls) <= MaxCalls
    BY <1>5 DEF NextStep, LoopTypes
  <2>2. total + done = R /\ total <= before
    BY <2>1 DEF Counts
  <2>3. step' - 1 = step
    BY <1>0, <2>1
  <2>4. (step' - 1) * MaxCalls = before + MaxCalls
    BY <1>0, <2>3
  <2> HIDE DEF R, before
  <2>5. total' = R /\ total' <= before + MaxCalls
    BY <1>0, <2>1, <2>2
  <2> QED
    BY <2>1, <2>4, <2>5 DEF Counts, R
<1>6. CASE UNCHANGED loopVars
  BY <1>6 DEF Counts, Answered, loopVars
<1> QED
  BY <1>1, <1>2, <1>3, <1>4, <1>5, <1>6, Kinds

----------------------------------------------------------------------------

LEMMA LoopInvInit == LoopInit => LoopInv
<1> SUFFICES ASSUME LoopInit PROVE LoopInv
  OBVIOUS
<1> USE DEF LoopInit
<1>1. LoopTypes
  BY LoopAssumption DEF LoopTypes
<1>2. Reasons
  BY DEF Reasons, Reason, Answered, None
<1>3. Frames
  BY DEF Frames
<1>4. Blocks
  BY DEF Blocks
<1>5. Counts
  <2>1. Results(conversation) = {} /\ Cardinality({}) = 0
    BY FS_EmptySet DEF Results
  <2>2. (step - 1) * MaxCalls \in Nat /\ 0 <= (step - 1) * MaxCalls
    <3>1. step - 1 = 0 /\ 0 \in Nat /\ MaxCalls \in Nat
      BY LoopAssumption
    <3>2. 0 * MaxCalls \in Nat
      BY <3>1, Products
    <3> QED
      BY <3>1, <3>2
  <2> QED
    BY <2>1, <2>2 DEF Counts
<1>6. OnlyOfferedToolsRun /\ TruncationIsVisible
  BY LoopAssumption DEF OnlyOfferedToolsRun, TruncationIsVisible, Undo
<1> QED
  BY <1>1, <1>2, <1>3, <1>4, <1>5, <1>6 DEF LoopInv

LEMMA LoopInvariance == LoopSpec => []LoopInv
<1>1. LoopInv /\ [LoopNext]_loopVars => LoopInv'
  BY TypesStep, ReasonsStep, FramesStep, BlocksStep, CountsStep, ServiceStep DEF LoopInv
<1> QED
  BY <1>1, LoopInvInit, PTL DEF LoopSpec

(* The messages with calls before the p-th, and the results since the last *)
(* of them: a result's id is that of its position after that message.      *)
Callers(messages, p) == {j \in 1..(p - 1) : /\ messages[j].role = "assistant"
                                            /\ messages[j].tools # << >>}
Used(messages, p) ==
  Cardinality({j \in (Max(Callers(messages, p)) + 1)..(p - 1) : messages[j].role = "tool"})

LEMMA PositionOfCall ==
    ASSUME NEW messages, NEW p, Callers(messages, p) # {},
           Used(messages, p) < Len(messages[Max(Callers(messages, p))].tools)
    PROVE  ToolCallId(messages, p) = <<"call", Used(messages, p)>>
  BY Zenon DEF ToolCallId, Callers, Used

LEMMA ResultsSince ==
    ASSUME NEW messages, NEW p, NEW i, Max(Callers(messages, p)) = i
    PROVE  Used(messages, p) = Cardinality({j \in (i + 1)..(p - 1) : messages[j].role = "tool"})
  BY DEF Used

(* A conversation that is sent to the model holds, after every message     *)
(* with tool calls, their results in their order; so _openai_messages,     *)
(* which pairs them by position, sends each under the id of its own call.  *)
LEMMA OwnCalls ==
    ASSUME LoopTypes, Blocks, at = "ask", NEW i \in 1..Len(conversation),
           conversation[i].role = "assistant", NEW k \in 1..Len(conversation[i].tools)
    PROVE  /\ i + k <= Len(conversation)
           /\ conversation[i + k] = [role |-> "tool", tools |-> <<conversation[i].tools[k]>>]
           /\ ToolCallId(conversation, i + k) = <<"call", k - 1>>
<1> DEFINE n == Len(conversation[i].tools)
           callers == {j \in 1..(i + k - 1) : /\ conversation[j].role = "assistant"
                                              /\ conversation[j].tools # << >>}
           between == {j \in (i + 1)..(i + k - 1) : conversation[j].role = "tool"}
<1>1. /\ i \in Nat /\ n \in Nat /\ k \in 1..n /\ Len(conversation) \in Nat
      /\ conversation[i].tools # << >>
  <2>1. conversation \in Seq(MessageRecord) /\ conversation[i] \in MessageRecord
    BY DEF LoopTypes
  <2>2. conversation[i].tools \in Seq(ToolNames) /\ Len(conversation) \in Nat
    BY <2>1 DEF MessageRecord
  <2>3. conversation[i].tools # << >>
    BY <2>2
  <2> QED
    BY <2>2, <2>3
<1>2. \A m \in 1..n : i + m <= Len(conversation)
                      /\ conversation[i + m] = ToolMessage(conversation[i].tools[m])
  BY DEF Blocks, ServedAt
<1>3. ASSUME NEW j \in (i + 1)..(i + k - 1)
      PROVE  conversation[j].role = "tool"
  <2>1. j - i \in 1..n /\ i + (j - i) = j
    <3> HIDE DEF n
    <3> QED
      BY <1>1
  <2>2. conversation[i + (j - i)] = ToolMessage(conversation[i].tools[j - i])
    BY <1>2, <2>1
  <2> QED
    BY <2>1, <2>2 DEF ToolMessage
<1>4. i \in callers /\ \A j \in callers : i >= j
  <2>1. i \in 1..(i + k - 1)
    BY <1>1
  <2>2. ASSUME NEW j \in callers PROVE i >= j
    <3>1. j \in 1..(i + k - 1) /\ j \notin (i + 1)..(i + k - 1)
      BY <1>3
    <3> QED
      BY <1>1, <3>1
  <2> QED
    BY <1>1, <2>1, <2>2
<1>5. Max(callers) = i
  <2>1. \A x \in callers : (\A y \in callers : x >= y) => x = i
    BY <1>1, <1>4
  <2> HIDE DEF callers
  <2> QED
    BY <1>4, <2>1 DEF Max
<1>6. Cardinality(between) = k - 1
  <2>1. between = (i + 1)..(i + k - 1)
    BY <1>3
  <2>2. i + 1 \in Int /\ i + k - 1 \in Int /\ (i + k - 1) - (i + 1) + 1 = k - 1 /\ k - 1 \in Nat
    BY <1>1
  <2>3. Cardinality((i + 1)..(i + k - 1)) =
          IF i + 1 > i + k - 1 THEN 0 ELSE (i + k - 1) - (i + 1) + 1
    BY <2>2, FS_Interval
  <2> HIDE DEF between
  <2> QED
    BY <1>1, <2>1, <2>2, <2>3
<1>7. ToolCallId(conversation, i + k) = <<"call", k - 1>>
  <2>1. callers = Callers(conversation, i + k)
    BY DEF Callers
  <2>2. callers # {} /\ k - 1 < n /\ n = Len(conversation[Max(callers)].tools)
    BY <1>1, <1>4, <1>5
  <2> HIDE DEF callers, n
  <2>3. Max(Callers(conversation, i + k)) = i
    BY <1>5, <2>1
  <2>4. Used(conversation, i + k) = Cardinality(between)
    BY <2>3, ResultsSince
  <2> HIDE DEF between
  <2>5. Used(conversation, i + k) = k - 1
    BY <1>6, <2>4
  <2> QED
    BY <2>1, <2>2, <2>5, PositionOfCall
<1> QED
  BY <1>2, <1>7 DEF ToolMessage

(* The reason an answer ends with is what its tools did, over all steps,   *)
(* and the stream of an answer is closed once, whoever ends it             *)
(* (_tool_failure_reason, stream_chat_completion).                         *)
THEOREM StopReasonsAreTrue == LoopSpec => []StopReasonIsWhatHappened
<1>1. LoopInv => StopReasonIsWhatHappened
  <2> SUFFICES ASSUME LoopInv PROVE StopReasonIsWhatHappened
    OBVIOUS
  <2>1. Answered => stop = (IF "tool_timeout" \in codes THEN "timeout"
                            ELSE IF codes # {} THEN "tool_error" ELSE "answer")
    BY DEF LoopInv, Reasons, Reason
  <2>2. ASSUME at = "ended", mode # "run"
        PROVE  /\ ("stop" \in Range(frame)) = Answered
               /\ Cardinality({i \in DOMAIN frame : frame[i] = "done"}) =
                    (IF stop = "disconnected" THEN 0 ELSE 1)
    <3>1. Closed
      BY <2>2 DEF LoopInv, Frames
    <3>2. Answered \in BOOLEAN /\ ("stop" \in Range(frame)) \in BOOLEAN
      BY DEF Answered
    <3>3. ("stop" \in Range(frame)) = Answered
      BY <3>1, <3>2 DEF Closed
    <3> QED
      BY <3>1, <3>3 DEF Closed
  <2> QED
    BY <2>1, <2>2 DEF StopReasonIsWhatHappened
<1> QED
  BY <1>1, LoopInvariance, PTL

(* In every answer every call is answered in its place, by a tool the      *)
(* agent offers, with a result that fits and does not hide what it leaves  *)
(* out, and the steps and calls stay within the limits (ModelLoop.stream,  *)
(* ModelLoop.run, _append_tool_results, _serialize_tool_result).           *)
THEOREM CallsAreServed == LoopSpec => []ToolsAreServed
<1>1. LoopInv => ToolsAreServed
  <2> SUFFICES ASSUME LoopInv PROVE ToolsAreServed
    OBVIOUS
  <2> USE DEF LoopInv
  <2>1. TypeOK
    <3>1. \A k \in DOMAIN calls : calls[k].tool \in ToolNames /\ calls[k].limit \in Limits
      <4>1. DOMAIN calls = 1..Len(calls)
        BY DEF LoopTypes
      <4> QED
        BY <4>1, CallTyped
    <3>2. failure \in {None, "tool_error", "timeout"}
      BY DEF Reasons, Reason
    <3>3. ran \subseteq ToolNames
      BY LoopAssumption DEF OnlyOfferedToolsRun, Offered
    <3> QED
      BY <3>1, <3>2, <3>3 DEF TypeOK, LoopTypes
  <2>2. EveryCallAnswered
    <3>1. DOMAIN conversation = 1..Len(conversation)
      BY DEF LoopTypes
    <3> QED
      BY <3>1, OwnCalls DEF EveryCallAnswered
  <2>3. BoundedWork
    <3> DEFINE R == Cardinality(Results(conversation))
               cap == Min({step, MaxSteps - 1})
    <3>1. /\ step \in Nat \ {0} /\ step <= MaxSteps /\ MaxSteps \in Nat \ {0} /\ MaxCalls \in Nat
          /\ done \in Nat /\ Len(calls) \in Nat /\ done <= Len(calls) /\ total \in Nat
          /\ at \in {"ask", "receive", "decide", "dispatch", "ended"}
      BY LoopAssumption DEF LoopTypes
    <3>2. cap \in Nat /\ step - 1 <= cap /\ (step < MaxSteps => step <= cap)
      BY <3>1 DEF Min
    <3>3. /\ (step - 1) * MaxCalls <= cap * MaxCalls /\ (step - 1) * MaxCalls \in Nat
          /\ step < MaxSteps => step * MaxCalls <= cap * MaxCalls
          /\ step * MaxCalls = (step - 1) * MaxCalls + MaxCalls /\ cap * MaxCalls \in Nat
      <4> HIDE DEF cap
      <4>1. step - 1 \in Nat /\ step \in Nat /\ (step - 1) + 1 = step
        BY <3>1
      <4>2. ((step - 1) + 1) * MaxCalls = (step - 1) * MaxCalls + MaxCalls
        BY <3>1, <4>1, Products
      <4> QED
        BY <3>1, <3>2, <4>1, <4>2, Products
    <3>4. R \in Nat
      BY ResultsOf DEF LoopTypes
    <3>5. R <= cap * MaxCalls
      <4> HIDE DEF cap, R
      <4>1. CASE at \in {"ask", "receive", "decide"}
        BY <3>1, <3>3, <3>4, <4>1 DEF Counts, R
      <4>2. CASE at = "dispatch"
        <5>1. total + done = R /\ total <= (step - 1) * MaxCalls /\ step < MaxSteps
              /\ done <= MaxCalls
          BY <3>1, <4>2, LoopAssumption DEF Counts, LoopTypes, R
        <5> QED
          BY <3>1, <3>3, <3>4, <5>1
      <4>3. CASE at = "ended"
        BY <3>1, <3>3, <3>4, <4>3 DEF Counts, R
      <4> QED
        BY <3>1, <4>1, <4>2, <4>3
    <3>6. Answered => total = R
      <4>1. Answered => at = "ended"
        BY DEF Reasons, Answered, None
      <4> QED
        BY <4>1 DEF Counts
    <3>7. {i \in DOMAIN conversation : conversation[i].role = "tool"} = Results(conversation)
      <4>1. DOMAIN conversation = 1..Len(conversation)
        BY DEF LoopTypes
      <4> QED
        BY <4>1 DEF Results
    <3> QED
      <4> HIDE DEF cap
      <4> QED
        BY <3>5, <3>6, <3>7 DEF BoundedWork, cap
  <2> QED
    BY <2>1, <2>2, <2>3 DEF ToolsAreServed
<1> QED
  BY <1>1, LoopInvariance, PTL
==============================================================================
