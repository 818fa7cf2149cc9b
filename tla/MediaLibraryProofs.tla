------------------------- MODULE MediaLibraryProofs -------------------------
(***************************************************************************)
(* Requests for the same thumbnail share one generation and are served a   *)
(* whole file, as long as no attempt failed and no thumbnail of that file  *)
(* was unlinked; a refresh that meets every file leaves an index that is   *)
(* the folders, but for what failed probes could not tell; and a client    *)
(* that pages is shown what was there.  All this for any number of files,  *)
(* versions and requests and any length of a page.                         *)
(***************************************************************************)
EXTENDS MediaLibrary, FiniteSetTheorems, WellFoundedInduction, TLAPS

At(q, f, places) == q.file = f /\ q.at \in places

(* With the stored lock; inside it; between the second look and the file;  *)
(* a thumbnail begun.                                                      *)
Busy == {"again", "clean", "open", "write", "replace", "failed", "pop"}
Past == {"wait"} \cup Busy
Making == {"clean", "open", "write", "replace", "failed"}
Begun == {"write", "replace", "failed"}

(* A file of one version that these requests have open. *)
Single(file, requests) == \E v : file = [writers |-> requests, versions |-> {v}]

Fields == {"at", "file", "lock", "version", "result"}

IsRequest(q) ==
  /\ DOMAIN q = Fields
  /\ q.at \in {"idle", "look", "guard", "done"} \cup Past
  /\ q.at \notin {"idle", "done"} => q.file \in Files
  /\ q.at # "done" => q.result \in {"", "failed"}

Types ==
  /\ \A r \in Requests : IsRequest(req[r])
  /\ DOMAIN req = Requests
  /\ DOMAIN locks = Files /\ DOMAIN temporary = Files /\ DOMAIN target = Files
  /\ made \in [Files -> Nat] /\ failed \in [Files -> Nat] /\ dropped \in [Files -> Nat]

(* Before there is a thumbnail of f: whoever has a lock for it has the one *)
(* that is stored, so one request at most is inside, and what it has begun *)
(* is its own.                                                             *)
Unmade(q, lock, temp, m, f) ==
  /\ \A r \in Requests : At(q[r], f, Past) => q[r].lock = lock /\ lock # 0
  /\ \A r, o \in Requests : At(q[r], f, Busy) /\ At(q[o], f, Busy) => r = o
  /\ \A r \in Requests :
       /\ ~At(q[r], f, {"pop"})
       /\ At(q[r], f, {"open"}) => temp = NoFile
       /\ At(q[r], f, {"write"}) => Single(temp, {r})
       /\ At(q[r], f, {"replace"}) => Single(temp, {})
  /\ m = IF \E r \in Requests : At(q[r], f, Begun) THEN 1 ELSE 0

(* After that nobody makes another one, whatever lock he has. *)
Made(q, file, m, f) ==
  /\ Single(file, {})
  /\ m = 1
  /\ \A r \in Requests : ~At(q[r], f, Making)

Good(q, lock, temp, file, m, failures, drops, f) ==
  failures = 0 /\ drops = 0 =>
    /\ \A r \in Requests : q[r].file = f => q[r].result # "torn"
    /\ file = NoFile => Unmade(q, lock, temp, m, f)
    /\ file # NoFile => Made(q, file, m, f)

GoodFile(f) == Good(req, locks[f], temporary[f], target[f], made[f], failed[f], dropped[f], f)

Inv == Types /\ \A f \in Files : GoodFile(f)

----------------------------------------------------------------------------
(* The operators *)

LEMMA SingleIsWhole ==
    ASSUME NEW file, Single(file, {})
    PROVE  Whole(file) /\ file # NoFile
<1>1. PICK v : file = [writers |-> {}, versions |-> {v}]
  BY DEF Single
<1>2. Cardinality({v}) = 1
  BY FS_Singleton
<1> QED
  BY <1>1, <1>2 DEF Whole, NoFile

(* A lock that is neither stored nor held exists among the numbers tried. *)
LEMMA FreshLockIsNew ==
    ASSUME Types
    PROVE  FreshLock # 0 /\ FreshLock \notin InUse
<1> DEFINE A == {req[r].lock : r \in Requests}
           B == {locks[f] : f \in Files}
           a == [r \in Requests |-> req[r].lock]
           b == [f \in Files |-> locks[f]]
           n == Cardinality(Requests) + Cardinality(Files)
<1>1. IsFiniteSet(Requests) /\ IsFiniteSet(Files)
  BY LibraryAssumption
<1>2. Cardinality(Requests) \in Nat /\ Cardinality(Files) \in Nat
  BY <1>1, FS_CardinalityType
<1>3. a \in Surjection(Requests, A) /\ b \in Surjection(Files, B)
  BY DEF Surjection
<1>4. IsFiniteSet(A) /\ Cardinality(A) <= Cardinality(Requests)
  BY <1>1, <1>3, FS_Surjection
<1>5. IsFiniteSet(B) /\ Cardinality(B) <= Cardinality(Files)
  BY <1>1, <1>3, FS_Surjection
<1>6. IsFiniteSet(A \cup B) /\ Cardinality(A \cup B) = Cardinality(A) + Cardinality(B)
                                                        - Cardinality(A \cap B)
  BY <1>4, <1>5, FS_Union
<1>7. IsFiniteSet(A \cap B)
  BY <1>4, FS_Intersection
<1>8. Cardinality(A) \in Nat /\ Cardinality(B) \in Nat /\ Cardinality(A \cap B) \in Nat
  BY <1>4, <1>5, <1>7, FS_CardinalityType
<1>9. Cardinality(1 .. n + 1) = n + 1
  BY <1>2, FS_Interval
<1>10. ASSUME 1 .. n + 1 \subseteq A \cup B
       PROVE  FALSE
  <2>1. Cardinality(1 .. n + 1) <= Cardinality(A \cup B)
    BY <1>6, <1>10, FS_Subset
  <2> HIDE DEF A, B
  <2> QED
    BY <1>2, <1>4, <1>5, <1>6, <1>8, <1>9, <2>1
<1>11. InUse = A \cup B
  BY DEF InUse
<1>12. \E k \in 1 .. n + 1 : k \notin InUse
  BY <1>10, <1>11
<1>13. FreshLock \in 1 .. n + 1 /\ FreshLock \notin InUse
  BY <1>12 DEF FreshLock
<1> QED
  BY <1>2, <1>13

----------------------------------------------------------------------------
(* What a step does to the files it is not about *)

(* What a step of r makes of its entry. *)
Becomes(r, at, f, lock, result) ==
  /\ DOMAIN req' = Requests /\ \A o \in Requests \ {r} : req'[o] = req[o]
  /\ DOMAIN req'[r] = Fields
  /\ req'[r].at = at /\ req'[r].file = f /\ req'[r].lock = lock /\ req'[r].result = result

Outside(q, f) == q.file = f => q.at \notin Past /\ q.result # "torn"

(* The tables keep their domains, and change at f alone. *)
Only(f) ==
  /\ DOMAIN locks' = Files /\ DOMAIN temporary' = Files /\ DOMAIN target' = Files
  /\ made' \in [Files -> Nat] /\ failed' \in [Files -> Nat] /\ dropped' \in [Files -> Nat]
  /\ \A g \in Files \ {f} :
       /\ locks'[g] = locks[g] /\ temporary'[g] = temporary[g] /\ target'[g] = target[g]
       /\ made'[g] = made[g] /\ failed'[g] = failed[g] /\ dropped'[g] = dropped[g]

LEMMA GoodElsewhere ==
    ASSUME NEW q, NEW p, NEW lock, NEW temp, NEW file, NEW m, NEW failures, NEW drops, NEW f,
           Good(q, lock, temp, file, m, failures, drops, f),
           \A o \in Requests : p[o] = q[o] \/ (Outside(q[o], f) /\ Outside(p[o], f))
    PROVE  Good(p, lock, temp, file, m, failures, drops, f)
<1> SUFFICES ASSUME failures = 0, drops = 0
             PROVE  /\ \A r \in Requests : p[r].file = f => p[r].result # "torn"
                    /\ file = NoFile => Unmade(p, lock, temp, m, f)
                    /\ file # NoFile => Made(p, file, m, f)
  BY DEF Good
<1>1. /\ \A r \in Requests : q[r].file = f => q[r].result # "torn"
      /\ file = NoFile => Unmade(q, lock, temp, m, f)
      /\ file # NoFile => Made(q, file, m, f)
  BY DEF Good
<1>2. \A r \in Requests, places \in SUBSET Past : At(p[r], f, places) <=> At(q[r], f, places)
  BY DEF Outside, At
<1>3. \A r \in Requests : At(p[r], f, Past) => p[r] = q[r]
  BY DEF Outside, At
<1>4. /\ Past \in SUBSET Past /\ Busy \in SUBSET Past /\ Making \in SUBSET Past
      /\ Begun \in SUBSET Past /\ {"pop"} \in SUBSET Past /\ {"open"} \in SUBSET Past
      /\ {"write"} \in SUBSET Past /\ {"replace"} \in SUBSET Past
  BY DEF Past, Busy, Making, Begun
<1>5. \A r \in Requests : p[r].file = f => p[r].result # "torn"
  BY <1>1 DEF Outside
<1>6. ASSUME file = NoFile PROVE Unmade(p, lock, temp, m, f)
  <2>1. Unmade(q, lock, temp, m, f)
    BY <1>1, <1>6
  <2>2. \A r \in Requests : At(p[r], f, Past) => p[r].lock = lock /\ lock # 0
    BY <1>2, <1>3, <1>4, <2>1 DEF Unmade
  <2>3. \A r, o \in Requests : At(p[r], f, Busy) /\ At(p[o], f, Busy) => r = o
    BY <1>2, <1>4, <2>1 DEF Unmade
  <2>4. \A r \in Requests :
          /\ ~At(p[r], f, {"pop"})
          /\ At(p[r], f, {"open"}) => temp = NoFile
          /\ At(p[r], f, {"write"}) => Single(temp, {r})
          /\ At(p[r], f, {"replace"}) => Single(temp, {})
    BY <1>2, <1>4, <2>1 DEF Unmade
  <2>5. m = IF \E r \in Requests : At(p[r], f, Begun) THEN 1 ELSE 0
    BY <1>2, <1>4, <2>1 DEF Unmade
  <2> QED
    BY <2>2, <2>3, <2>4, <2>5 DEF Unmade
<1>7. ASSUME file # NoFile PROVE Made(p, file, m, f)
  BY <1>1, <1>2, <1>4, <1>7 DEF Made
<1> QED
  BY <1>5, <1>6, <1>7

(* A step of r about f. *)
LEMMA StepOfRequest ==
    ASSUME Inv, NEW r \in Requests, NEW f \in Files, Only(f),
           NEW at, NEW g, NEW lock, NEW result, Becomes(r, at, g, lock, result),
           req[r].file = f \/ Outside(req[r], req[r].file),
           g = f \/ Outside(req'[r], g),
           at \in {"idle", "look", "guard", "done"} \cup Past,
           at \notin {"idle", "done"} => g = f,
           at # "done" => result \in {"", "failed"},
           GoodFile(f)'
    PROVE  Inv'
<1>1. /\ \A o \in Requests \ {r} : req'[o] = req[o]
      /\ DOMAIN req' = Requests /\ IsRequest(req'[r])
  BY DEF Becomes, IsRequest
<1>2. Types'
  BY <1>1 DEF Inv, Types, Only
<1>3. ASSUME NEW h \in Files, h # f PROVE GoodFile(h)'
  <2>1. Good(req, locks[h], temporary[h], target[h], made[h], failed[h], dropped[h], h)
    BY DEF Inv, GoodFile
  <2>2. Outside(req[r], h) /\ Outside(req'[r], h)
    <3>1. req'[r].file = g
      BY DEF Becomes
    <3>2. Outside(req[r], h)
      BY <1>3 DEF Outside
    <3>3. Outside(req'[r], h)
      BY <1>3, <3>1 DEF Outside
    <3> QED
      BY <3>2, <3>3
  <2>3. \A o \in Requests : req'[o] = req[o] \/ (Outside(req[o], h) /\ Outside(req'[o], h))
    BY <1>1, <2>2
  <2>4. Good(req', locks[h], temporary[h], target[h], made[h], failed[h], dropped[h], h)
    BY <2>1, <2>3, GoodElsewhere
  <2>5. /\ locks'[h] = locks[h] /\ temporary'[h] = temporary[h] /\ target'[h] = target[h]
        /\ made'[h] = made[h] /\ failed'[h] = failed[h] /\ dropped'[h] = dropped[h]
    BY <1>3 DEF Only
  <2> QED
    BY <2>4, <2>5 DEF GoodFile
<1> QED
  BY <1>2, <1>3 DEF Inv

----------------------------------------------------------------------------
(* The steps of a request *)

tables == <<locks, temporary, target, made, failed, dropped>>

LEMMA RequestOf ==
    ASSUME Inv, NEW r \in Requests, req[r].at \notin {"idle", "done"}
    PROVE  req[r].file \in Files /\ req[r].result \in {"", "failed"} /\ GoodFile(req[r].file)
  BY DEF Inv, Types, IsRequest

LEMMA SetBecomes ==
    ASSUME Inv, NEW r \in Requests, NEW at, Set(r, at)
    PROVE  Becomes(r, at, req[r].file, req[r].lock, req[r].result)
<1>1. DOMAIN req = Requests /\ DOMAIN req[r] = Fields
  BY DEF Inv, Types, IsRequest
<1> QED
  BY <1>1 DEF Set, Becomes, Fields

LEMMA FinishBecomes ==
    ASSUME Inv, NEW r \in Requests, NEW result, Finish(r, result)
    PROVE  Becomes(r, "done", req[r].file, 0, result)
<1>1. DOMAIN req = Requests
  BY DEF Inv, Types
<1> QED
  BY <1>1 DEF Finish, IdleRequest, Becomes, Fields

LEMMA UnchangedOnly ==
    ASSUME Inv, NEW f \in Files, UNCHANGED tables
    PROVE  Only(f)
  BY DEF Inv, Types, Only, tables

(* Nothing of f changes but the requests for it. *)
LEMMA GoodOf ==
    ASSUME NEW f, UNCHANGED tables,
           Good(req', locks[f], temporary[f], target[f], made[f], failed[f], dropped[f], f)
    PROVE  GoodFile(f)'
  BY DEF tables, GoodFile

LEMMA StepFindItem ==
    ASSUME Inv, NEW r \in Requests, NEW f \in Files, FindItem(r, f)
    PROVE  Inv'
<1>1. req[r].at = "idle" /\ UNCHANGED tables /\ IsRequest(req[r]) /\ GoodFile(f)
      /\ DOMAIN req = Requests
  BY DEF FindItem, Inv, Types, tables
<1>2. req[r].result \in {"", "failed"} /\ DOMAIN req[r] = Fields
  BY <1>1 DEF IsRequest
<1>3. \A h : Outside(req[r], h)
  BY <1>1, <1>2 DEF Outside, Past, Busy
<1>4. CASE index[f] = NoRow
  <2>1. Becomes(r, "done", req[r].file, req[r].lock, "not_found")
    <3>1. req' = [req EXCEPT ![r].at = "done", ![r].result = "not_found"]
      BY <1>4 DEF FindItem
    <3> QED
      BY <1>1, <1>2, <3>1 DEF Becomes, Fields
  <2>2. \A h : Outside(req'[r], h)
    BY <2>1 DEF Becomes, Outside, Past, Busy
  <2>3. \A o \in Requests : req'[o] = req[o] \/ (Outside(req[o], f) /\ Outside(req'[o], f))
    BY <1>3, <2>1, <2>2 DEF Becomes
  <2>4. GoodFile(f)'
    BY <1>1, <2>3, GoodElsewhere, GoodOf DEF GoodFile
  <2> QED
    BY <1>1, <1>3, <2>1, <2>2, <2>4, UnchangedOnly, StepOfRequest
<1>5. CASE index[f] # NoRow
  <2>1. Becomes(r, "look", f, req[r].lock, req[r].result)
    <3>1. req' = [req EXCEPT ![r].at = "look", ![r].file = f]
      BY <1>5 DEF FindItem
    <3> QED
      BY <1>1, <1>2, <3>1 DEF Becomes, Fields
  <2>2. Outside(req'[r], f)
    BY <1>2, <2>1 DEF Becomes, Outside, Past, Busy
  <2>3. \A o \in Requests : req'[o] = req[o] \/ (Outside(req[o], f) /\ Outside(req'[o], f))
    BY <1>3, <2>1, <2>2 DEF Becomes
  <2>4. GoodFile(f)'
    BY <1>1, <2>3, GoodElsewhere, GoodOf DEF GoodFile
  <2> QED
    BY <1>1, <1>2, <1>3, <2>1, <2>4, UnchangedOnly, StepOfRequest
<1> QED
  BY <1>4, <1>5

(* A thumbnail that is there is sent. *)
LEMMA StepServed ==
    ASSUME Inv, NEW r \in Requests, NEW f \in Files, req[r].file = f,
           req[r].at \in {"look", "again"}, target[f] # NoFile, Finish(r, Served(f)),
           UNCHANGED tables
    PROVE  Inv'
<1>1. GoodFile(f)
  BY DEF Inv
<1>2. Becomes(r, "done", f, 0, Served(f))
  BY FinishBecomes
<1>3. ASSUME failed[f] = 0, dropped[f] = 0
      PROVE  /\ \A o \in Requests : req'[o].file = f => req'[o].result # "torn"
             /\ Made(req', target[f], made[f], f)
  <2>1. /\ \A o \in Requests : req[o].file = f => req[o].result # "torn"
        /\ Made(req, target[f], made[f], f)
    BY <1>1, <1>3 DEF GoodFile, Good
  <2>2. Single(target[f], {})
    BY <2>1 DEF Made
  <2>3. Served(f) # "torn"
    BY <2>2, SingleIsWhole DEF Served
  <2>4. \A o \in Requests : ~At(req'[o], f, Making)
    BY <1>2, <2>1 DEF Becomes, Made, At, Making
  <2>5. \A o \in Requests : req'[o].file = f => req'[o].result # "torn"
    BY <1>2, <2>1, <2>3 DEF Becomes
  <2> QED
    BY <2>1, <2>4, <2>5 DEF Made
<1>4. GoodFile(f)'
  BY <1>3, GoodOf DEF Good
<1> QED
  BY <1>2, <1>4, UnchangedOnly, StepOfRequest

LEMMA StepLook ==
    ASSUME Inv, NEW r \in Requests, NEW f \in Files, req[r].file = f, Look(r)
    PROVE  Inv'
<1>1. req[r].at = "look" /\ UNCHANGED tables
  BY DEF Look, tables
<1>2. CASE target[f] # NoFile
  BY <1>1, <1>2, StepServed DEF Look
<1>3. CASE target[f] = NoFile
  <2>1. GoodFile(f) /\ req[r].result \in {"", "failed"}
    BY <1>1, RequestOf
  <2>2. Becomes(r, "guard", f, req[r].lock, req[r].result)
    BY <1>3, SetBecomes DEF Look
  <2>3. Outside(req[r], f) /\ Outside(req'[r], f)
    BY <1>1, <2>1, <2>2 DEF Outside, Becomes, Past, Busy
  <2>4. \A o \in Requests : req'[o] = req[o] \/ (Outside(req[o], f) /\ Outside(req'[o], f))
    BY <2>2, <2>3 DEF Becomes
  <2>5. GoodFile(f)'
    BY <1>1, <2>1, <2>4, GoodElsewhere, GoodOf DEF GoodFile
  <2> QED
    BY <1>1, <2>1, <2>2, <2>5, UnchangedOnly, StepOfRequest
<1> QED
  BY <1>2, <1>3

LEMMA StepGetLock ==
    ASSUME Inv, NEW r \in Requests, NEW f \in Files, req[r].file = f, GetLock(r)
    PROVE  Inv'
<1> DEFINE lock == IF locks[f] # 0 THEN locks[f] ELSE FreshLock
<1>1. /\ req[r].at = "guard" /\ locks' = [locks EXCEPT ![f] = lock]
      /\ req' = [req EXCEPT ![r].at = "wait", ![r].lock = lock]
      /\ UNCHANGED <<temporary, target, made, failed, dropped>>
  BY DEF GetLock
<1>2. /\ GoodFile(f) /\ req[r].result \in {"", "failed"}
      /\ DOMAIN req = Requests /\ DOMAIN req[r] = Fields
  BY <1>1, RequestOf DEF Inv, Types, IsRequest
<1>3. lock # 0 /\ (locks[f] # 0 => lock = locks[f])
  BY FreshLockIsNew DEF Inv
<1>4. locks'[f] = lock /\ Only(f)
  BY <1>1 DEF Inv, Types, Only
<1> HIDE DEF lock
<1>5. Becomes(r, "wait", f, lock, req[r].result)
  BY <1>1, <1>2 DEF Becomes, Fields
<1>6. \A o \in Requests : At(req'[o], f, Busy) => At(req[o], f, Busy) /\ req'[o] = req[o]
  BY <1>5 DEF Becomes, At, Busy
<1>7. \A o \in Requests : At(req[o], f, Busy) => req'[o] = req[o]
  BY <1>1, <1>5 DEF Becomes, At, Busy
<1>8. /\ Making \subseteq Busy /\ Begun \subseteq Busy /\ {"pop"} \subseteq Busy
      /\ {"open"} \subseteq Busy /\ {"write"} \subseteq Busy /\ {"replace"} \subseteq Busy
  BY DEF Making, Begun, Busy
<1>9. ASSUME failed[f] = 0, dropped[f] = 0, target[f] = NoFile
      PROVE  Unmade(req', lock, temporary[f], made[f], f)
  <2>1. Unmade(req, locks[f], temporary[f], made[f], f)
    BY <1>2, <1>9 DEF GoodFile, Good
  <2>2. \A o \in Requests : At(req'[o], f, Past) => req'[o].lock = lock /\ lock # 0
    BY <1>3, <1>5, <2>1 DEF Unmade, Becomes
  <2>3. \A i, o \in Requests : At(req'[i], f, Busy) /\ At(req'[o], f, Busy) => i = o
    BY <1>6, <2>1 DEF Unmade
  <2>4. \A o \in Requests :
          /\ ~At(req'[o], f, {"pop"})
          /\ At(req'[o], f, {"open"}) => temporary[f] = NoFile
          /\ At(req'[o], f, {"write"}) => Single(temporary[f], {o})
          /\ At(req'[o], f, {"replace"}) => Single(temporary[f], {})
    <3> SUFFICES ASSUME NEW o \in Requests, At(req'[o], f, Busy)
                 PROVE  /\ ~At(req'[o], f, {"pop"})
                        /\ At(req'[o], f, {"open"}) => temporary[f] = NoFile
                        /\ At(req'[o], f, {"write"}) => Single(temporary[f], {o})
                        /\ At(req'[o], f, {"replace"}) => Single(temporary[f], {})
      BY <1>8 DEF At
    <3> QED
      BY <1>6, <2>1 DEF Unmade
  <2>5. (\E o \in Requests : At(req'[o], f, Begun)) <=> (\E o \in Requests : At(req[o], f, Begun))
    BY <1>6, <1>7, <1>8 DEF At
  <2> QED
    BY <2>1, <2>2, <2>3, <2>4, <2>5 DEF Unmade
<1>10. ASSUME failed[f] = 0, dropped[f] = 0, target[f] # NoFile
       PROVE  Made(req', target[f], made[f], f)
  <2>1. Made(req, target[f], made[f], f)
    BY <1>2, <1>10 DEF GoodFile, Good
  <2> QED
    BY <1>6, <1>8, <2>1 DEF Made, At
<1>11. ASSUME failed[f] = 0, dropped[f] = 0
       PROVE  \A o \in Requests : req'[o].file = f => req'[o].result # "torn"
  BY <1>2, <1>5, <1>11 DEF GoodFile, Good, Becomes
<1>12. Good(req', lock, temporary[f], target[f], made[f], failed[f], dropped[f], f)
  BY <1>9, <1>10, <1>11 DEF Good
<1>13. GoodFile(f)'
  BY <1>1, <1>4, <1>12 DEF GoodFile
<1>14. "wait" \in Past
  BY DEF Past
<1> QED
  BY <1>2, <1>4, <1>5, <1>13, <1>14, StepOfRequest

(* With no thumbnail yet, a request inside is alone there. *)
LEMMA Alone ==
    ASSUME NEW lock, NEW temp, NEW m, NEW f, Unmade(req, lock, temp, m, f),
           NEW r \in Requests, At(req[r], f, Busy)
    PROVE  /\ \A o \in Requests \ {r} : ~At(req[o], f, Busy)
           /\ req[r].lock = lock /\ lock # 0
           /\ m = IF At(req[r], f, Begun) THEN 1 ELSE 0
<1>1. \A o \in Requests \ {r} : ~At(req[o], f, Busy)
  BY DEF Unmade
<1>2. Begun \subseteq Busy /\ Busy \subseteq Past
  BY DEF Begun, Busy, Past
<1>3. req[r].lock = lock /\ lock # 0
  BY <1>2 DEF Unmade, At
<1>4. (\E o \in Requests : At(req[o], f, Begun)) <=> At(req[r], f, Begun)
  BY <1>1, <1>2 DEF At
<1> QED
  BY <1>1, <1>3, <1>4 DEF Unmade

LEMMA UnmadeAfter ==
    ASSUME NEW lock, NEW old, NEW count, NEW f, Unmade(req, lock, old, count, f),
           NEW r \in Requests, NEW at \in Busy \ {"pop"}, NEW result,
           Becomes(r, at, f, lock, result), lock # 0,
           \A o \in Requests \ {r} : ~At(req[o], f, Busy),
           NEW temp, NEW m,
           at = "open" => temp = NoFile, at = "write" => Single(temp, {r}),
           at = "replace" => Single(temp, {}),
           m = IF at \in Begun THEN 1 ELSE 0
    PROVE  Unmade(req', lock, temp, m, f)
<1>1. req'[r].at = at /\ req'[r].file = f /\ req'[r].lock = lock
      /\ \A o \in Requests \ {r} : req'[o] = req[o]
  BY DEF Becomes
<1>2. \A o \in Requests : At(req'[o], f, Busy) => o = r
  BY <1>1
<1>3. /\ Begun \subseteq Busy /\ {"pop"} \subseteq Busy /\ {"open"} \subseteq Busy
      /\ {"write"} \subseteq Busy /\ {"replace"} \subseteq Busy
  BY DEF Begun, Busy
<1>4. \A o \in Requests : At(req'[o], f, Past) => req'[o].lock = lock /\ lock # 0
  BY <1>1 DEF Unmade
<1>5. \A i, o \in Requests : At(req'[i], f, Busy) /\ At(req'[o], f, Busy) => i = o
  BY <1>2
<1>6. \A o \in Requests :
        /\ ~At(req'[o], f, {"pop"})
        /\ At(req'[o], f, {"open"}) => temp = NoFile
        /\ At(req'[o], f, {"write"}) => Single(temp, {o})
        /\ At(req'[o], f, {"replace"}) => Single(temp, {})
  BY <1>1, <1>2, <1>3 DEF At
<1>7. (\E o \in Requests : At(req'[o], f, Begun)) <=> at \in Begun
  BY <1>1, <1>2, <1>3 DEF At
<1> QED
  BY <1>4, <1>5, <1>6, <1>7 DEF Unmade

LEMMA MadeAfter ==
    ASSUME NEW file, NEW m, NEW f, Made(req, file, m, f),
           NEW r \in Requests, NEW at, at \notin Making, NEW lock, NEW result,
           Becomes(r, at, f, lock, result)
    PROVE  Made(req', file, m, f)
<1>1. req'[r].at = at /\ \A o \in Requests \ {r} : req'[o] = req[o]
  BY DEF Becomes
<1>2. \A o \in Requests : ~At(req'[o], f, Making)
  BY <1>1 DEF Made, At
<1> QED
  BY <1>2 DEF Made

(* A file that is no longer spotless is no longer promised anything. *)
LEMMA Spoiled ==
    ASSUME NEW f, failed'[f] # 0 \/ dropped'[f] # 0
    PROVE  GoodFile(f)'
  BY DEF GoodFile, Good

LEMMA StepWait ==
    ASSUME Inv, NEW r \in Requests, NEW f \in Files, req[r].file = f, Wait(r)
    PROVE  Inv'
<1>1. req[r].at = "wait" /\ UNCHANGED tables
      /\ \A o \in Requests \ {r} : req[o].lock = req[r].lock => ~Holds(o)
  BY DEF Wait, tables
<1>2. GoodFile(f) /\ req[r].result \in {"", "failed"}
  BY <1>1, RequestOf
<1>3. Becomes(r, "again", f, req[r].lock, req[r].result)
  BY SetBecomes DEF Wait
<1>4. /\ "again" \in Busy \ {"pop"} /\ "again" \notin Making /\ "again" \notin Begun
      /\ "wait" \in Past /\ Busy \subseteq Past /\ "wait" \notin Busy /\ Begun \subseteq Busy
  BY DEF Busy, Making, Begun, Past
<1>5. ASSUME failed[f] = 0, dropped[f] = 0, target[f] = NoFile
      PROVE  Unmade(req', locks[f], temporary[f], made[f], f)
  <2>1. Unmade(req, locks[f], temporary[f], made[f], f)
    BY <1>2, <1>5 DEF GoodFile, Good
  <2>2. req[r].lock = locks[f] /\ locks[f] # 0
    BY <1>1, <1>4, <2>1 DEF Unmade, At
  <2>3. \A o \in Requests : ~At(req[o], f, Busy)
    <3> SUFFICES ASSUME NEW o \in Requests, At(req[o], f, Busy)
                 PROVE  FALSE
      OBVIOUS
    <3>1. o # r
      BY <1>1, <1>4 DEF At
    <3>2. req[o].lock = locks[f]
      BY <1>4, <2>1 DEF Unmade, At
    <3> QED
      BY <1>1, <2>2, <3>1, <3>2 DEF Holds, At, Busy
  <2>4. made[f] = IF "again" \in Begun THEN 1 ELSE 0
    BY <1>4, <2>1, <2>3 DEF Unmade, At
  <2>5. Becomes(r, "again", f, locks[f], req[r].result)
    BY <1>3, <2>2
  <2> QED
    BY <1>4, <2>1, <2>2, <2>3, <2>4, <2>5, UnmadeAfter
<1>6. ASSUME failed[f] = 0, dropped[f] = 0, target[f] # NoFile
      PROVE  Made(req', target[f], made[f], f)
  <2>1. Made(req, target[f], made[f], f)
    BY <1>2, <1>6 DEF GoodFile, Good
  <2> QED
    BY <1>3, <1>4, <2>1, MadeAfter
<1>7. ASSUME failed[f] = 0, dropped[f] = 0
      PROVE  \A o \in Requests : req'[o].file = f => req'[o].result # "torn"
  BY <1>2, <1>3, <1>7 DEF GoodFile, Good, Becomes
<1>8. GoodFile(f)'
  BY <1>1, <1>5, <1>6, <1>7, GoodOf DEF Good
<1>9. "again" \in Past
  BY <1>4
<1> QED
  BY <1>1, <1>2, <1>3, <1>8, <1>9, UnchangedOnly, StepOfRequest

(* A step of the request that is making the thumbnail. *)
LEMMA MakingStep ==
    ASSUME Inv, NEW r \in Requests, NEW f \in Files, req[r].file = f,
           req[r].at \in Making \/ (req[r].at = "again" /\ target[f] = NoFile),
           NEW at \in Making, Becomes(r, at, f, req[r].lock, req[r].result), Only(f),
           locks'[f] = locks[f], failed'[f] = failed[f], dropped'[f] = dropped[f],
           Unmade(req, locks[f], temporary[f], made[f], f) /\ target[f] = NoFile =>
             /\ target'[f] = NoFile
             /\ at = "open" => temporary'[f] = NoFile
             /\ at = "write" => Single(temporary'[f], {r})
             /\ at = "replace" => Single(temporary'[f], {})
             /\ made'[f] = IF at \in Begun THEN 1 ELSE 0
    PROVE  Inv'
<1>1. /\ Making \subseteq Busy \ {"pop"} /\ "again" \in Busy /\ Making \subseteq Past
      /\ "idle" \notin Making /\ "done" \notin Making
  BY DEF Making, Busy, Past
<1>2. GoodFile(f) /\ req[r].result \in {"", "failed"}
  BY <1>1, RequestOf
<1>3. ASSUME failed[f] = 0, dropped[f] = 0
      PROVE  /\ target'[f] = NoFile
             /\ Unmade(req', locks[f], temporary'[f], made'[f], f)
             /\ \A o \in Requests : req'[o].file = f => req'[o].result # "torn"
  <2>1. target[f] = NoFile
    BY <1>2, <1>3 DEF GoodFile, Good, Made, At
  <2>2. Unmade(req, locks[f], temporary[f], made[f], f)
    BY <1>2, <1>3, <2>1 DEF GoodFile, Good
  <2>3. At(req[r], f, Busy)
    BY <1>1 DEF At
  <2>4. /\ \A o \in Requests \ {r} : ~At(req[o], f, Busy)
        /\ req[r].lock = locks[f] /\ locks[f] # 0
    BY <2>2, <2>3, Alone
  <2>5. Becomes(r, at, f, locks[f], req[r].result)
    BY <2>4
  <2>6. Unmade(req', locks[f], temporary'[f], made'[f], f)
    BY <1>1, <2>1, <2>2, <2>4, <2>5, UnmadeAfter
  <2>7. \A o \in Requests : req'[o].file = f => req'[o].result # "torn"
    BY <1>2, <1>3 DEF GoodFile, Good, Becomes
  <2> QED
    BY <2>1, <2>2, <2>6, <2>7
<1>4. GoodFile(f)'
  BY <1>3 DEF GoodFile, Good
<1> QED
  BY <1>1, <1>2, <1>4, StepOfRequest

LEMMA StepLookAgain ==
    ASSUME Inv, NEW r \in Requests, NEW f \in Files, req[r].file = f, LookAgain(r)
    PROVE  Inv'
<1>1. req[r].at = "again" /\ UNCHANGED tables
  BY DEF LookAgain, tables
<1>2. CASE target[f] # NoFile
  BY <1>1, <1>2, StepServed DEF LookAgain
<1>3. CASE target[f] = NoFile
  <2>1. Becomes(r, "clean", f, req[r].lock, req[r].result)
    BY <1>3, SetBecomes DEF LookAgain
  <2>2. "clean" \in Making /\ "clean" \notin Begun /\ ~At(req[r], f, Begun) /\ At(req[r], f, Busy)
    BY <1>1 DEF Making, Begun, At, Busy
  <2>3. Unmade(req, locks[f], temporary[f], made[f], f) => made[f] = 0
    BY <2>2, Alone
  <2>4. /\ locks'[f] = locks[f] /\ failed'[f] = failed[f] /\ dropped'[f] = dropped[f]
        /\ target'[f] = target[f] /\ made'[f] = made[f] /\ Only(f)
    BY <1>1, UnchangedOnly DEF tables
  <2> QED
    BY <1>1, <1>3, <2>1, <2>2, <2>3, <2>4, MakingStep
<1> QED
  BY <1>2, <1>3

LEMMA StepCleanTemporary ==
    ASSUME Inv, NEW r \in Requests, NEW f \in Files, req[r].file = f, CleanTemporary(r)
    PROVE  Inv'
<1>1. /\ req[r].at = "clean" /\ temporary' = [temporary EXCEPT ![f] = NoFile]
      /\ UNCHANGED <<locks, target, made, failed, dropped>>
  BY DEF CleanTemporary
<1>2. Becomes(r, "open", f, req[r].lock, req[r].result)
  BY SetBecomes DEF CleanTemporary
<1>3. "open" \in Making /\ "clean" \in Making /\ "open" \notin Begun /\ ~At(req[r], f, Begun)
      /\ At(req[r], f, Busy)
  BY <1>1 DEF Making, Begun, At, Busy
<1>4. Unmade(req, locks[f], temporary[f], made[f], f) => made[f] = 0
  BY <1>3, Alone
<1>5. temporary'[f] = NoFile /\ Only(f)
  BY <1>1 DEF Inv, Types, Only
<1> QED
  BY <1>1, <1>2, <1>3, <1>4, <1>5, MakingStep

LEMMA StepOpen ==
    ASSUME Inv, NEW r \in Requests, NEW f \in Files, req[r].file = f, Open(r)
    PROVE  Inv'
<1> DEFINE can == ResolveMediaPath(f) /\ <<f, disk[f]>> \notin Broken
           at == IF can THEN "write" ELSE "failed"
           opened == [writers |-> temporary[f].writers \cup {r},
                      versions |-> temporary[f].versions \cup {disk[f]}]
<1>1. /\ req[r].at = "open" /\ made' = [made EXCEPT ![f] = @ + 1]
      /\ req' = [req EXCEPT ![r].at = at, ![r].version = disk[f]]
      /\ temporary' = IF can THEN [temporary EXCEPT ![f] = opened] ELSE temporary
      /\ UNCHANGED <<locks, target, failed, dropped>>
  BY DEF Open
<1>2. /\ DOMAIN req = Requests /\ DOMAIN req[r] = Fields /\ DOMAIN temporary = Files
      /\ made \in [Files -> Nat]
  BY <1>1 DEF Inv, Types, IsRequest
<1>3. can => at = "write"
  OBVIOUS
<1>4. at \in {"write", "failed"} /\ (at = "write" => can)
  OBVIOUS
<1> HIDE DEF can, at
<1>5. Becomes(r, at, f, req[r].lock, req[r].result)
  BY <1>1, <1>2 DEF Becomes, Fields
<1>6. at \in Making /\ "open" \in Making /\ at \in Begun /\ ~At(req[r], f, Begun)
      /\ At(req[r], f, Busy) /\ at # "open" /\ at # "replace"
  BY <1>1, <1>4 DEF Making, Begun, At, Busy
<1>7. made'[f] = made[f] + 1 /\ (can => temporary'[f] = opened)
  BY <1>1, <1>2
<1>8. Only(f)
  <2> HIDE DEF opened
  <2> QED
    BY <1>1, <1>2 DEF Inv, Types, Only
<1>9. Unmade(req, locks[f], temporary[f], made[f], f) =>
        made[f] = 0 /\ (can => Single(temporary'[f], {r}))
  <2> SUFFICES ASSUME Unmade(req, locks[f], temporary[f], made[f], f)
               PROVE  made[f] = 0 /\ (can => Single(temporary'[f], {r}))
    OBVIOUS
  <2>1. made[f] = 0
    BY <1>6, Alone
  <2>2. temporary[f] = NoFile
    BY <1>1 DEF Unmade, At
  <2>3. opened = [writers |-> {r}, versions |-> {disk[f]}]
    BY <2>2 DEF NoFile
  <2> HIDE DEF opened
  <2> QED
    BY <1>7, <2>1, <2>3 DEF Single
<1>10. locks'[f] = locks[f] /\ target'[f] = target[f] /\ failed'[f] = failed[f]
       /\ dropped'[f] = dropped[f]
  BY <1>1
<1>11. Unmade(req, locks[f], temporary[f], made[f], f) => made'[f] = 1
  BY <1>7, <1>9
<1> QED
  BY <1>1, <1>4, <1>5, <1>6, <1>8, <1>9, <1>10, <1>11, MakingStep

LEMMA StepOpenFails ==
    ASSUME Inv, NEW r \in Requests, NEW f \in Files, req[r].file = f, OpenFails(r)
    PROVE  Inv'
<1>1. /\ req[r].at = "open" /\ made' = [made EXCEPT ![f] = @ + 1]
      /\ UNCHANGED <<locks, temporary, target, failed, dropped>>
  BY DEF OpenFails
<1>2. Becomes(r, "failed", f, req[r].lock, req[r].result)
  BY SetBecomes DEF OpenFails
<1>3. "failed" \in Making /\ "open" \in Making /\ "failed" \in Begun /\ ~At(req[r], f, Begun)
      /\ At(req[r], f, Busy)
  BY <1>1 DEF Making, Begun, At, Busy
<1>4. made'[f] = made[f] + 1 /\ Only(f)
  BY <1>1 DEF Inv, Types, Only
<1>5. Unmade(req, locks[f], temporary[f], made[f], f) => made'[f] = 1
  BY <1>3, <1>4, Alone
<1> QED
  BY <1>1, <1>2, <1>3, <1>4, <1>5, MakingStep

LEMMA StepWrite ==
    ASSUME Inv, NEW r \in Requests, NEW f \in Files, req[r].file = f, Write(r)
    PROVE  Inv'
<1>1. /\ req[r].at = "write" /\ UNCHANGED <<locks, made, failed, dropped>>
      /\ temporary' = [temporary EXCEPT ![f] = Written(temporary[f], r)]
      /\ target' = [target EXCEPT ![f] = Written(target[f], r)]
  BY DEF Write
<1>2. Becomes(r, "replace", f, req[r].lock, req[r].result)
  BY SetBecomes DEF Write
<1>3. "write" \in Making /\ "replace" \in Making /\ "replace" \in Begun
      /\ At(req[r], f, Begun) /\ At(req[r], f, Busy)
  BY <1>1 DEF Making, Begun, At, Busy
<1>4. /\ temporary'[f] = Written(temporary[f], r) /\ target'[f] = Written(target[f], r)
      /\ Only(f)
  BY <1>1 DEF Inv, Types, Only
<1>5. ASSUME Unmade(req, locks[f], temporary[f], made[f], f), target[f] = NoFile
      PROVE  made[f] = 1 /\ target'[f] = NoFile /\ Single(temporary'[f], {})
  <2>1. made[f] = 1
    BY <1>3, <1>5, Alone
  <2>2. Written(NoFile, r) = NoFile
    BY DEF Written, NoFile
  <2>3. Single(temporary[f], {r})
    BY <1>1, <1>5 DEF Unmade, At
  <2>4. PICK v : temporary[f] = [writers |-> {r}, versions |-> {v}]
    BY <2>3 DEF Single
  <2>5. Written(temporary[f], r) = [writers |-> {}, versions |-> {v}]
    BY <2>4 DEF Written
  <2>6. Single(temporary'[f], {})
    BY <1>4, <2>5 DEF Single
  <2> QED
    BY <1>4, <1>5, <2>1, <2>2, <2>6
<1> QED
  BY <1>1, <1>2, <1>3, <1>4, <1>5, MakingStep

LEMMA StepWriteFails ==
    ASSUME Inv, NEW r \in Requests, NEW f \in Files, req[r].file = f, WriteFails(r)
    PROVE  Inv'
<1> DEFINE torn(file) == IF r \in file.writers
                         THEN [Written(file, r) EXCEPT !.versions = @ \cup {0}] ELSE file
<1>1. /\ req[r].at = "write" /\ UNCHANGED <<locks, made, failed, dropped>>
      /\ temporary' = [temporary EXCEPT ![f] = torn(temporary[f])]
      /\ target' = [target EXCEPT ![f] = torn(target[f])]
  BY DEF WriteFails
<1>2. Becomes(r, "failed", f, req[r].lock, req[r].result)
  BY SetBecomes DEF WriteFails
<1>3. "write" \in Making /\ "failed" \in Making /\ "failed" \in Begun
      /\ At(req[r], f, Begun) /\ At(req[r], f, Busy)
  BY <1>1 DEF Making, Begun, At, Busy
<1>4. torn(NoFile) = NoFile
  BY DEF NoFile
<1> HIDE DEF torn
<1>5. target'[f] = torn(target[f]) /\ Only(f)
  BY <1>1 DEF Inv, Types, Only
<1>6. Unmade(req, locks[f], temporary[f], made[f], f) => made[f] = 1
  BY <1>3, Alone
<1> QED
  BY <1>1, <1>2, <1>3, <1>4, <1>5, <1>6, MakingStep

LEMMA StepReplace ==
    ASSUME Inv, NEW r \in Requests, NEW f \in Files, req[r].file = f, Replace(r)
    PROVE  Inv'
<1>1. req[r].at = "replace" /\ UNCHANGED <<locks, made, failed, dropped>>
  BY DEF Replace
<1>2. GoodFile(f) /\ req[r].result \in {"", "failed"}
  BY <1>1, RequestOf
<1>3. "replace" \in Making /\ At(req[r], f, Begun) /\ At(req[r], f, Busy) /\ Making \subseteq Busy
      /\ "pop" \notin Making /\ {"failed", "pop"} \subseteq Past
  BY <1>1 DEF Making, Begun, At, Busy, Past
<1>4. PICK at \in {"failed", "pop"} : Set(r, at) /\ (temporary[f] # NoFile => at = "pop")
  BY DEF Replace
<1>5. Becomes(r, at, f, req[r].lock, req[r].result)
  BY <1>4, SetBecomes
<1>6. /\ temporary[f] # NoFile => target' = [target EXCEPT ![f] = temporary[f]]
                                 /\ temporary' = [temporary EXCEPT ![f] = NoFile]
      /\ temporary[f] = NoFile => target' = target /\ temporary' = temporary
  BY DEF Replace
<1>7. Only(f) /\ (temporary[f] # NoFile => target'[f] = temporary[f])
  BY <1>1, <1>6 DEF Inv, Types, Only
<1>8. ASSUME failed[f] = 0, dropped[f] = 0
      PROVE  /\ target'[f] # NoFile /\ Made(req', target'[f], made[f], f)
             /\ \A o \in Requests : req'[o].file = f => req'[o].result # "torn"
  <2>1. target[f] = NoFile
    BY <1>1, <1>2, <1>3, <1>8 DEF GoodFile, Good, Made, At
  <2>2. Unmade(req, locks[f], temporary[f], made[f], f)
    BY <1>2, <1>8, <2>1 DEF GoodFile, Good
  <2>3. made[f] = 1 /\ \A o \in Requests \ {r} : ~At(req[o], f, Busy)
    BY <1>3, <2>2, Alone
  <2>4. Single(temporary[f], {})
    BY <1>1, <2>2 DEF Unmade, At
  <2>5. temporary[f] # NoFile
    BY <2>4, SingleIsWhole
  <2>6. at = "pop" /\ target'[f] = temporary[f]
    BY <1>4, <1>7, <2>5
  <2>7. \A o \in Requests : ~At(req'[o], f, Making)
    BY <1>3, <1>5, <2>3, <2>6 DEF Becomes, At
  <2>8. \A o \in Requests : req'[o].file = f => req'[o].result # "torn"
    BY <1>2, <1>5, <1>8 DEF GoodFile, Good, Becomes
  <2> QED
    BY <2>3, <2>4, <2>5, <2>6, <2>7, <2>8 DEF Made
<1>9. GoodFile(f)'
  BY <1>1, <1>8 DEF GoodFile, Good
<1>10. at \in Past
  BY <1>3
<1> QED
  BY <1>2, <1>5, <1>7, <1>9, <1>10, StepOfRequest

LEMMA StepGiveUp ==
    ASSUME Inv, NEW r \in Requests, NEW f \in Files, req[r].file = f, GiveUp(r)
    PROVE  Inv'
<1>1. /\ req[r].at = "failed" /\ UNCHANGED <<locks, target, made, dropped>>
      /\ temporary' = [temporary EXCEPT ![f] = NoFile]
      /\ failed' = [failed EXCEPT ![f] = failed[f] + 1]
      /\ req' = [req EXCEPT ![r].at = "pop", ![r].result = "failed"]
  BY DEF GiveUp
<1>2. /\ DOMAIN req = Requests /\ DOMAIN req[r] = Fields /\ failed \in [Files -> Nat]
  BY <1>1 DEF Inv, Types, IsRequest
<1>3. Becomes(r, "pop", f, req[r].lock, "failed")
  BY <1>1, <1>2 DEF Becomes, Fields
<1>4. Only(f)
  BY <1>1 DEF Inv, Types, Only
<1>5. failed'[f] # 0
  BY <1>1, <1>2
<1>6. GoodFile(f)'
  BY <1>5, Spoiled
<1>7. "pop" \in Past
  BY DEF Past, Busy
<1> QED
  BY <1>3, <1>4, <1>6, <1>7, StepOfRequest

LEMMA StepPopLock ==
    ASSUME Inv, NEW r \in Requests, NEW f \in Files, req[r].file = f, PopLock(r)
    PROVE  Inv'
<1> DEFINE result == IF req[r].result = "failed" THEN "failed"
                     ELSE IF target[f] = NoFile THEN "gone" ELSE Served(f)
<1>1. /\ req[r].at = "pop" /\ locks' = [locks EXCEPT ![f] = 0] /\ Finish(r, result)
      /\ UNCHANGED <<temporary, target, made, failed, dropped>>
  BY DEF PopLock
<1>2. GoodFile(f)
  BY DEF Inv
<1>3. Becomes(r, "done", f, 0, result)
  BY <1>1, FinishBecomes
<1>4. Only(f)
  BY <1>1 DEF Inv, Types, Only
<1>5. "done" \notin Making
  BY DEF Making
<1>6. ASSUME failed[f] = 0, dropped[f] = 0
      PROVE  /\ target[f] # NoFile /\ Made(req', target[f], made[f], f)
             /\ \A o \in Requests : req'[o].file = f => req'[o].result # "torn"
  <2>1. target[f] # NoFile
    BY <1>1, <1>2, <1>6 DEF GoodFile, Good, Unmade, At
  <2>2. Made(req, target[f], made[f], f)
    BY <1>2, <1>6, <2>1 DEF GoodFile, Good
  <2>3. Made(req', target[f], made[f], f)
    BY <1>3, <1>5, <2>2, MadeAfter
  <2>4. Single(target[f], {})
    BY <2>2 DEF Made
  <2>5. result # "torn"
    BY <2>4, SingleIsWhole DEF Served
  <2> HIDE DEF result
  <2>6. \A o \in Requests : req'[o].file = f => req'[o].result # "torn"
    BY <1>2, <1>3, <1>6, <2>5 DEF GoodFile, Good, Becomes
  <2> QED
    BY <2>1, <2>3, <2>6
<1>7. GoodFile(f)'
  BY <1>1, <1>6 DEF GoodFile, Good
<1> HIDE DEF result
<1> QED
  BY <1>3, <1>4, <1>7, StepOfRequest

----------------------------------------------------------------------------
(* The other steps, and the result *)

LEMMA SameRequests ==
    ASSUME Inv, UNCHANGED <<req, tables>>
    PROVE  Inv'
<1>1. /\ req' = req /\ locks' = locks /\ temporary' = temporary /\ target' = target
      /\ made' = made /\ failed' = failed /\ dropped' = dropped
  BY DEF tables
<1>2. Types'
  BY <1>1 DEF Inv, Types
<1>3. ASSUME NEW f \in Files PROVE GoodFile(f)'
  BY <1>1 DEF Inv, GoodFile
<1> QED
  BY <1>2, <1>3 DEF Inv

(* The scanner unlinks a thumbnail: it is counted, if there was one. *)
LEMMA StepDrop ==
    ASSUME Inv, NEW x, Drop(x)
    PROVE  Inv'
<1> DEFINE n == IF target[x] = NoFile THEN dropped[x] ELSE dropped[x] + 1
<1>1. /\ target' = [target EXCEPT ![x] = NoFile]
      /\ dropped' = [dropped EXCEPT ![x] = n]
      /\ UNCHANGED <<req, locks, temporary, made, failed>>
  BY DEF Drop
<1>2. /\ dropped \in [Files -> Nat] /\ DOMAIN target = Files
  BY DEF Inv, Types
<1>3. ASSUME x \in Files
      PROVE  n \in Nat /\ (target[x] # NoFile => n # 0)
  BY <1>2, <1>3
<1> HIDE DEF n
<1>4. dropped' \in [Files -> Nat] /\ DOMAIN target' = Files
  BY <1>1, <1>2, <1>3
<1>5. Types'
  BY <1>1, <1>4 DEF Inv, Types
<1>6. ASSUME NEW f \in Files PROVE GoodFile(f)'
  <2>1. GoodFile(f)
    BY DEF Inv
  <2>2. CASE f = x /\ target[f] # NoFile
    <3>1. dropped'[f] # 0
      BY <1>1, <1>2, <1>3, <2>2
    <3> QED
      BY <3>1, Spoiled
  <2>3. CASE ~(f = x /\ target[f] # NoFile)
    <3>1. target'[f] = target[f] /\ (dropped'[f] = 0 => dropped[f] = 0)
      <4>1. CASE f = x
        <5>1. target[f] = NoFile /\ n = dropped[f]
          BY <2>3, <4>1 DEF n
        <5> QED
          BY <1>1, <1>2, <4>1, <5>1
      <4>2. CASE f # x
        BY <1>1, <1>2, <4>2
      <4> QED
        BY <4>1, <4>2
    <3> QED
      BY <1>1, <2>1, <3>1 DEF GoodFile, Good
  <2> QED
    BY <2>2, <2>3
<1> QED
  BY <1>5, <1>6 DEF Inv

LEMMA InitInv ==
    Init => Inv
<1> SUFFICES ASSUME Init PROVE Inv
  OBVIOUS
<1>1. \A r \in Requests : req[r] = IdleRequest
  BY DEF Init
<1>2. \A r \in Requests : IsRequest(req[r]) /\ req[r].at = "idle" /\ req[r].result = ""
  <2>1. DOMAIN IdleRequest = Fields /\ IdleRequest.at = "idle" /\ IdleRequest.result = ""
    BY DEF IdleRequest, Fields
  <2>2. IsRequest(IdleRequest)
    BY <2>1 DEF IsRequest
  <2> QED
    BY <1>1, <2>1, <2>2
<1>3. Types
  BY <1>2 DEF Init, Types
<1>4. ASSUME NEW f \in Files PROVE GoodFile(f)
  <2>1. \A r \in Requests, places \in SUBSET Past : ~At(req[r], f, places)
    BY <1>2 DEF At, Past, Busy
  <2>2. /\ Past \in SUBSET Past /\ Busy \in SUBSET Past /\ Making \in SUBSET Past
        /\ Begun \in SUBSET Past /\ {"pop"} \in SUBSET Past /\ {"open"} \in SUBSET Past
        /\ {"write"} \in SUBSET Past /\ {"replace"} \in SUBSET Past
    BY DEF Past, Busy, Making, Begun
  <2>3. made[f] = 0 /\ target[f] = NoFile
    BY DEF Init
  <2>4. Unmade(req, locks[f], temporary[f], made[f], f)
    BY <2>1, <2>2, <2>3 DEF Unmade
  <2> QED
    BY <1>2, <2>3, <2>4 DEF GoodFile, Good
<1> QED
  BY <1>3, <1>4 DEF Inv

LEMMA StepInv ==
    Inv /\ [Next]_vars => Inv'
<1> SUFFICES ASSUME Inv, [Next]_vars PROVE Inv'
  OBVIOUS
<1>1. ASSUME \/ \E f \in Files : Change(f)
             \/ Refresh \/ ListRoot \/ Stat \/ ProbeFile \/ StatFails \/ ProbeFails
             \/ RefreshFails \/ Upsert \/ RemoveMissing
             \/ \E type \in {"all", "photo"} : StartPaging(type)
             \/ CountRows \/ SelectRows
             \/ UNCHANGED vars
      PROVE  Inv'
  <2>1. UNCHANGED <<req, tables>>
    BY <1>1 DEF Change, Refresh, ListRoot, Stat, ProbeFile, StatFails, ProbeFails, RefreshFails,
                Upsert, RemoveMissing,
                StartPaging, CountRows, SelectRows, vars, thumbs, tables
  <2> QED
    BY <2>1, SameRequests
<1>2. CASE UnlinkOld
  <2>1. \E x : Drop(x)
    BY <1>2 DEF UnlinkOld
  <2> QED
    BY <2>1, StepDrop
<1>3. CASE UnlinkRemoved
  <2>1. (\E x : Drop(x)) \/ UNCHANGED thumbs
    BY <1>3 DEF UnlinkRemoved
  <2>2. UNCHANGED thumbs => UNCHANGED <<req, tables>>
    BY DEF thumbs, tables
  <2> QED
    BY <2>1, <2>2, StepDrop, SameRequests
<1>4. ASSUME NEW r \in Requests, NEW f \in Files, FindItem(r, f) PROVE Inv'
  BY <1>4, StepFindItem
<1>5. ASSUME NEW r \in Requests,
             \/ Look(r) \/ GetLock(r) \/ Wait(r) \/ LookAgain(r) \/ CleanTemporary(r) \/ Open(r)
             \/ OpenFails(r) \/ Write(r) \/ WriteFails(r) \/ Replace(r) \/ GiveUp(r) \/ PopLock(r)
      PROVE  Inv'
  <2>1. req[r].at \notin {"idle", "done"}
    BY <1>5 DEF Look, GetLock, Wait, LookAgain, CleanTemporary, Open, OpenFails, Write, WriteFails, Replace,
                GiveUp, PopLock
  <2>2. PICK f \in Files : req[r].file = f
    BY <2>1, RequestOf
  <2> QED
    BY <1>5, <2>2, StepLook, StepGetLock, StepWait, StepLookAgain, StepCleanTemporary, StepOpen,
       StepOpenFails, StepWrite, StepWriteFails, StepReplace, StepGiveUp, StepPopLock
<1> QED
  BY <1>1, <1>2, <1>3, <1>4, <1>5 DEF Next, Scan, Serve

(* MediaService.thumbnail makes a thumbnail once for requests at the same  *)
(* time, and sends none of them a file another request is writing, as long *)
(* as no attempt at it failed and the scanner unlinked none: until then    *)
(* the lock it drops from _locks is one that nobody needs any more.        *)
THEOREM MadeOnce == Spec => []ThumbnailMadeOnce
<1>1. ASSUME Inv PROVE ThumbnailMadeOnce
  <2>1. ASSUME NEW f \in Files, failed[f] = 0, dropped[f] = 0
        PROVE  /\ made[f] <= 1
               /\ \A r \in Requests : req[r].file = f => req[r].result # "torn"
    <3>1. GoodFile(f)
      BY <1>1 DEF Inv
    <3> QED
      BY <2>1, <3>1 DEF GoodFile, Good, Unmade, Made
  <2> QED
    BY <2>1 DEF ThumbnailMadeOnce
<1>2. Spec => []Inv
  BY InitInv, StepInv, PTL DEF Spec
<1> QED
  BY <1>1, <1>2, PTL

----------------------------------------------------------------------------
(* The index, and the refresh that is under way *)

Media == {"photo", "video"}
Supported(f) == disk[f] # 0 /\ Kind[f] \in Media

Rows == [stamp : 0 .. MaxVersion, captured : Nat, metadata : {"", "ok", "error"},
         thumbnail : {"", "missing", "ready", "error"}]
Probed == [captured : Nat, metadata : {"ok", "error"}]

Handling == {"stat", "probe", "upsert", "unlink"}
ScanFields == {"at", "root", "queue", "present", "existing", "stamp", "metadata", "removed",
               "clean"}

ScanTypes ==
  /\ DOMAIN scan = ScanFields
  /\ scan.at \in {"idle", "list", "prune", "clear"} \cup Handling
  /\ scan.root \in 0 .. 2 /\ scan.clean \in BOOLEAN /\ scan.present \subseteq Files
  /\ scan.at # "idle" => scan.existing \in [Files -> Rows]
  /\ scan.at \in {"list", "prune"} => scan.queue = {}
  /\ scan.at = "prune" => scan.root = 2
  /\ scan.at \in Handling => /\ scan.root \in 1 .. 2 /\ scan.queue # {}
                             /\ scan.queue \subseteq 1 .. Len(Roots[scan.root])
  /\ scan.at \in {"probe", "upsert"} => scan.stamp \in 1 .. MaxVersion
  /\ scan.at = "upsert" => scan.metadata \in Probed

FolderTypes ==
  /\ disk \in [Files -> 0 .. MaxVersion] /\ DOMAIN past = Files
  /\ index \in [Files -> Rows]
  /\ settled \in BOOLEAN
  /\ ScanTypes

(* What was read of f with this stamp is true of the version that has it,  *)
(* or the failure of a probe of it, if f had that version once.            *)
Truthful(stamp, read, f) ==
  /\ read.metadata # ""
  /\ stamp # 0 /\ stamp \in past[f] \cup {disk[f]}
  /\ stamp = disk[f] /\ disk[f] \notin past[f] => \E m \in Readings(f, disk[f]) :
       read.captured = m.captured /\ read.metadata = m.metadata

ReadTruly ==
  /\ \A f \in Files : index[f] # NoRow => Truthful(index[f].stamp, index[f], f)
  /\ scan.at = "probe" => scan.stamp \in past[Current] \cup {disk[Current]}
  /\ scan.at = "upsert" => Truthful(scan.stamp, scan.metadata, Current)

Matches(row, f) == row # NoRow /\ row.stamp = disk[f]
Folder == \A f \in Files : IF Supported(f) THEN Matches(index[f], f) ELSE index[f] = NoRow

(* An undisturbed refresh: rows that were right still are, the files it    *)
(* has met are indexed as they are, and of the roots it has listed it      *)
(* still holds the supported files it has not met.                         *)
Progress ==
  /\ \A f \in Files : Matches(scan.existing[f], f) => Matches(index[f], f)
  /\ \A f \in scan.present :
       /\ Supported(f)
       /\ scan.at \in {"probe", "upsert"} => f = Current \/ Matches(index[f], f)
       /\ scan.at \notin {"probe", "upsert"} => Matches(index[f], f)
  /\ scan.at \in {"probe", "upsert", "unlink"} => Current \in scan.present
  /\ scan.at \in {"probe", "upsert"} => /\ scan.stamp = disk[Current]
                                        /\ ~Matches(scan.existing[Current], Current)
  /\ \A i \in 1 .. scan.root : \A k \in 1 .. Len(Roots[i]) :
       Supported(Roots[i][k]) => Roots[i][k] \in scan.present \/ (i = scan.root /\ k \in scan.queue)

Repairs ==
  /\ settled => scan.at = "idle" /\ Folder
  /\ scan.at = "clear" /\ scan.clean => Folder
  /\ scan.at \in {"list", "prune"} \cup Handling /\ scan.clean => Progress

FolderInv == FolderTypes /\ ReadTruly /\ Repairs

----------------------------------------------------------------------------

LEMMA Minimum ==
    ASSUME NEW S, S \subseteq Nat, S # {}
    PROVE  \E i \in S : \A j \in S : i <= j
<1>1. PICK i \in S : \A j \in S : ~(<<j, i>> \in OpToRel(<, Nat))
  BY NatLessThanWellFounded, WFMin
<1>2. ASSUME NEW j \in S PROVE i <= j
  <2>1. <<j, i>> \in Nat \X Nat /\ <<j, i>>[1] = j /\ <<j, i>>[2] = i
    OBVIOUS
  <2>2. ~(j < i)
    BY <1>1, <2>1 DEF OpToRel
  <2> QED
    BY <2>2
<1> QED
  BY <1>2

LEMMA NoRowTyped ==
    /\ NoRow \in Rows /\ NoRow.metadata = "" /\ NoRow.stamp = 0
    /\ \A row : row.metadata # "" => row # NoRow
<1>1. 0 \in 0 .. MaxVersion
  BY LibraryAssumption
<1>2. NoRow \in Rows /\ NoRow.metadata = "" /\ NoRow.stamp = 0
  BY <1>1 DEF NoRow, Rows
<1>3. \A row : row.metadata # "" => row # NoRow
  BY <1>2
<1> QED
  BY <1>2, <1>3

LEMMA ProbedTyped ==
    ASSUME NEW f \in Files, NEW v \in 1 .. MaxVersion
    PROVE  Probe(f, v) \in Probed /\ FailedMetadata(v) \in Probed
<1>1. <<f, v>> \in Files \X (1 .. MaxVersion) /\ v \in Nat
  BY LibraryAssumption
<1>2. Dated[<<f, v>>] \in Nat
  BY <1>1, LibraryAssumption
<1> QED
  BY <1>1, <1>2 DEF Probe, FailedMetadata, Probed

LEMMA FilesOfRoots ==
    ASSUME NEW i \in 1 .. 2
    PROVE  Roots[i] \in Seq(Files)
<1>1. CASE i = 1
  BY <1>1, LibraryAssumption
<1>2. CASE i = 2
  BY <1>2, LibraryAssumption
<1> QED
  BY <1>1, <1>2

(* The file the scanner is at. *)
LEMMA CurrentOf ==
    ASSUME ScanTypes, scan.at \in Handling
    PROVE  /\ First(scan) \in scan.queue /\ First(scan) \in 1 .. Len(Roots[scan.root])
           /\ scan.root \in 1 .. 2 /\ Current \in Files
<1>1. /\ scan.root \in 1 .. 2 /\ scan.queue # {} /\ scan.queue \subseteq 1 .. Len(Roots[scan.root])
  BY DEF ScanTypes
<1>2. Roots[scan.root] \in Seq(Files)
  BY <1>1, FilesOfRoots
<1>3. Len(Roots[scan.root]) \in Nat
  BY <1>2
<1>4. scan.queue \subseteq Nat
  BY <1>1, <1>3
<1>5. \E i \in scan.queue : \A j \in scan.queue : i <= j
  BY <1>1, <1>4, Minimum
<1>6. First(scan) \in scan.queue
  BY <1>5 DEF First
<1> QED
  BY <1>1, <1>2, <1>6 DEF Current

LEMMA ListedAt ==
    ASSUME NEW f \in Files
    PROVE  \E i \in 1 .. 2 : \E k \in 1 .. Len(Roots[i]) : Roots[i][k] = f
<1>1. Roots[1] \in Seq(Files) /\ Roots[2] \in Seq(Files)
  BY FilesOfRoots
<1>2. (\E k \in 1 .. Len(Roots[1]) : Roots[1][k] = f) \/ (\E k \in 1 .. Len(Roots[2]) : Roots[2][k] = f)
  BY <1>1 DEF Files, ToSet
<1> QED
  BY <1>2

(* The scan goes on to its next file. *)
Moves(present, clean) ==
  /\ DOMAIN scan' = ScanFields
  /\ scan'.root = scan.root /\ scan'.queue = scan.queue \ {First(scan)}
  /\ scan'.at = IF scan'.queue = {} THEN "list" ELSE "stat"
  /\ scan'.existing = scan.existing
  /\ scan'.present = present /\ scan'.clean = clean

LEMMA MovesKeep ==
    ASSUME FolderInv, scan.at \in Handling, NEW present, NEW clean \in BOOLEAN, Moves(present, clean),
           present = scan.present \/ present = scan.present \cup {Current},
           disk' = disk, past' = past, misread' = misread, index' = index, settled' = settled,
           clean => scan.clean,
           clean => (Supported(Current) => Current \in present),
           clean => (Current \in present => Supported(Current) /\ Matches(index[Current], Current))
    PROVE  FolderInv'
<1>1. /\ First(scan) \in scan.queue /\ First(scan) \in 1 .. Len(Roots[scan.root])
      /\ scan.root \in 1 .. 2 /\ Current \in Files
  BY CurrentOf DEF FolderInv, FolderTypes
<1>2. /\ DOMAIN scan' = ScanFields
      /\ scan'.root = scan.root /\ scan'.queue = scan.queue \ {First(scan)}
      /\ scan'.existing = scan.existing
      /\ scan'.present = present /\ scan'.clean = clean
  BY DEF Moves
<1>3. scan'.at \in {"list", "stat"} /\ (scan'.at = "stat" <=> scan'.queue # {})
  BY DEF Moves
<1>4. ScanTypes
  BY DEF FolderInv, FolderTypes
<1>5. ScanTypes'
  BY <1>1, <1>2, <1>3, <1>4 DEF ScanTypes, Handling
<1>6. FolderTypes'
  BY <1>5 DEF FolderInv, FolderTypes
<1>7. ReadTruly'
  BY <1>3 DEF FolderInv, ReadTruly, Truthful, Readings, FailedMetadata, Probe
<1>8. ASSUME clean PROVE Progress'
  <2>1. Progress
    BY <1>8 DEF FolderInv, Repairs, Handling
  <2>2. \A f : Supported(f)' <=> Supported(f)
    BY DEF Supported
  <2>3. \A row, f : Matches(row, f)' <=> Matches(row', f)
    BY DEF Matches
  <2>4. ASSUME NEW f \in Files, Matches(scan.existing[f], f)' PROVE Matches(index[f], f)'
    BY <1>2, <2>1, <2>4 DEF Progress, Matches
  <2>5. ASSUME NEW f \in scan'.present PROVE Supported(f)' /\ Matches(index[f], f)'
    BY <1>2, <1>8, <2>1, <2>2, <2>5 DEF Progress, Matches
  <2>6. ASSUME NEW i \in 1 .. scan'.root, NEW k \in 1 .. Len(Roots[i]), Supported(Roots[i][k])'
        PROVE  Roots[i][k] \in scan'.present \/ (i = scan'.root /\ k \in scan'.queue)
    <3>1. Supported(Roots[i][k])
      BY <2>2, <2>6
    <3>2. Roots[i][k] \in scan.present \/ (i = scan.root /\ k \in scan.queue)
      BY <1>2, <2>1, <2>6, <3>1 DEF Progress
    <3>3. CASE i = scan.root /\ k = First(scan)
      <4>1. Roots[i][k] = Current
        BY <3>3 DEF Current
      <4> QED
        BY <1>2, <1>8, <3>1, <4>1
    <3> QED
      BY <1>2, <3>2, <3>3
  <2>7. scan'.at \notin {"probe", "upsert", "unlink"}
    BY <1>3
  <2> QED
    BY <2>4, <2>5, <2>6, <2>7 DEF Progress
<1>9. ~settled
  BY DEF FolderInv, Repairs, Handling
<1>10. Repairs'
  BY <1>2, <1>3, <1>8, <1>9 DEF Repairs
<1> QED
  BY <1>6, <1>7, <1>10 DEF FolderInv

(* The rows are the same but for the status of a thumbnail. *)
SameRows ==
  /\ index' \in [Files -> Rows]
  /\ \A f \in Files : /\ index'[f] = NoRow <=> index[f] = NoRow
                      /\ index'[f].stamp = index[f].stamp
                      /\ index'[f].captured = index[f].captured
                      /\ index'[f].metadata = index[f].metadata

LEMMA StatusIsApart ==
    ASSUME FolderInv,
           index' = index \/ \E f \in Files : \E status \in {"ready", "error"} : SetStatus(f, status)
    PROVE  SameRows
<1>1. CASE index' = index
  BY <1>1 DEF FolderInv, FolderTypes, SameRows
<1>2. ASSUME NEW f \in Files, NEW status \in {"ready", "error"}, SetStatus(f, status)
      PROVE  SameRows
  <2> DEFINE row == IF index[f] = NoRow THEN index[f]
                    ELSE [index[f] EXCEPT !.thumbnail = status]
  <2>1. index \in [Files -> Rows] /\ index' = [index EXCEPT ![f] = row]
    BY <1>2 DEF FolderInv, FolderTypes, SetStatus
  <2>2. index[f] \in Rows /\ (index[f] # NoRow => index[f].metadata # "")
    BY <2>1 DEF FolderInv, ReadTruly, Truthful
  <2>3. /\ row \in Rows /\ (row = NoRow <=> index[f] = NoRow)
        /\ row.stamp = index[f].stamp /\ row.captured = index[f].captured
        /\ row.metadata = index[f].metadata
    <3>1. CASE index[f] = NoRow
      BY <2>2, <3>1
    <3>2. CASE index[f] # NoRow
      <4>1. /\ row \in Rows /\ row.stamp = index[f].stamp /\ row.captured = index[f].captured
            /\ row.metadata = index[f].metadata
        BY <2>2, <3>2 DEF Rows
      <4>2. row # NoRow
        BY <2>2, <3>2, <4>1, NoRowTyped
      <4> QED
        BY <3>2, <4>1, <4>2
    <3> QED
      BY <3>1, <3>2
  <2> HIDE DEF row
  <2> QED
    BY <2>1, <2>3 DEF SameRows
<1> QED
  BY <1>1, <1>2

(* Steps of the clients. *)
LEMMA OthersKeep ==
    ASSUME FolderInv, disk' = disk, past' = past, misread' = misread, scan' = scan,
           settled' = settled,
           index' = index \/ \E f \in Files : \E status \in {"ready", "error"} : SetStatus(f, status)
    PROVE  FolderInv'
<1>1. /\ index' \in [Files -> Rows]
      /\ \A f \in Files : /\ index'[f] = NoRow <=> index[f] = NoRow
                          /\ index'[f].stamp = index[f].stamp
                          /\ index'[f].captured = index[f].captured
                          /\ index'[f].metadata = index[f].metadata
  BY StatusIsApart DEF SameRows
<1>2. FolderTypes'
  BY <1>1 DEF FolderInv, FolderTypes, ScanTypes
<1>3. Current' = Current
  BY DEF Current, First
<1>4. ReadTruly'
  <2>1. ASSUME NEW f \in Files, index'[f] # NoRow PROVE Truthful(index[f].stamp, index[f], f)'
    <3>1. Truthful(index[f].stamp, index[f], f)
      BY <1>1, <2>1 DEF FolderInv, ReadTruly
    <3>2. Readings(f, disk[f])' = Readings(f, disk[f])
      BY DEF Readings, FailedMetadata, Probe
    <3> QED
      BY <1>1, <3>1, <3>2 DEF Truthful
  <2>2. scan'.at = "probe" => scan'.stamp \in past'[Current'] \cup {disk'[Current']}
    BY <1>3 DEF FolderInv, ReadTruly
  <2>3. scan'.at = "upsert" => Truthful(scan.stamp, scan.metadata, Current)'
    <3>1. scan.at = "upsert" => Truthful(scan.stamp, scan.metadata, Current)
      BY DEF FolderInv, ReadTruly
    <3> QED
      BY <1>3, <3>1 DEF Truthful, Readings, FailedMetadata, Probe
  <2> QED
    BY <2>1, <2>2, <2>3 DEF ReadTruly
<1>5. ASSUME NEW f \in Files PROVE Matches(index[f], f)' <=> Matches(index[f], f)
  BY <1>1 DEF Matches
<1>6. Folder => Folder'
  BY <1>1, <1>5 DEF Folder, Supported
<1>7. Progress => Progress'
  <2>1. scan.present \subseteq Files
    BY DEF FolderInv, FolderTypes, ScanTypes
  <2>2. \A row, f : Matches(row, f)' <=> Matches(row', f)
    BY DEF Matches
  <2>3. \A f : Supported(f)' <=> Supported(f)
    BY DEF Supported
  <2>4. \A f \in Files : Matches(scan.existing[f], f)' <=> Matches(scan.existing[f], f)
    BY DEF Matches
  <2>5. Matches(scan.existing[Current], Current)' <=> Matches(scan.existing[Current], Current)
    BY <1>3 DEF Matches
  <2> QED
    BY <1>3, <1>5, <2>1, <2>3, <2>4, <2>5 DEF Progress
<1>8. Repairs'
  BY <1>6, <1>7 DEF FolderInv, Repairs
<1> QED
  BY <1>2, <1>4, <1>8 DEF FolderInv

LEMMA ChangeKeeps ==
    ASSUME FolderInv, NEW f \in Files, Change(f)
    PROVE  FolderInv'
<1>1. PICK v \in {0} \cup (disk[f] + 1) .. MaxVersion :
        v # disk[f] /\ disk' = [disk EXCEPT ![f] = v]
  BY DEF Change
<1>2. /\ past' = [past EXCEPT ![f] = past[f] \cup {disk[f]}]
      /\ settled' = FALSE /\ misread' = misread /\ scan' = [scan EXCEPT !.clean = FALSE]
      /\ index' = index
  BY DEF Change
<1>3. FolderTypes /\ ScanTypes
  BY DEF FolderInv, FolderTypes
<1>4. /\ DOMAIN scan' = ScanFields /\ scan'.clean = FALSE
      /\ scan'.at = scan.at /\ scan'.root = scan.root /\ scan'.queue = scan.queue
      /\ scan'.existing = scan.existing /\ scan'.present = scan.present
      /\ scan'.stamp = scan.stamp /\ scan'.metadata = scan.metadata
  BY <1>2, <1>3 DEF ScanTypes, ScanFields
<1>5. ScanTypes'
  BY <1>3, <1>4 DEF ScanTypes
<1>6. v \in 0 .. MaxVersion
  BY <1>1, <1>3, LibraryAssumption DEF FolderTypes
<1>7. FolderTypes'
  BY <1>1, <1>2, <1>3, <1>5, <1>6 DEF FolderTypes
<1>8. ASSUME NEW g \in Files
      PROVE  /\ past[g] \cup {disk[g]} \subseteq past'[g] \cup {disk'[g]}
             /\ disk'[g] # disk[g] => disk'[g] \notin past[g] \cup {disk[g]} \/ disk'[g] \in past'[g]
             /\ disk'[g] = disk[g] => past'[g] = past[g]
  BY <1>1, <1>2, <1>3 DEF FolderTypes
<1>9. ASSUME NEW g \in Files, NEW stamp, NEW read, Truthful(stamp, read, g)
      PROVE  Truthful(stamp, read, g)'
  <2>2. CASE disk'[g] = disk[g]
    <3>1. Readings(g, disk[g])' = Readings(g, disk[g])
      BY <1>2, <2>2 DEF Readings, FailedMetadata, Probe
    <3> QED
      BY <1>8, <1>9, <2>2, <3>1 DEF Truthful
  <2>3. CASE disk'[g] # disk[g]
    BY <1>8, <1>9, <2>3 DEF Truthful
  <2> QED
    BY <2>2, <2>3
<1>10. Current' = Current
  BY <1>4 DEF Current, First
<1>11. scan.at \in Handling => Current \in Files
  BY <1>3, CurrentOf
<1>12. ReadTruly'
  <2>1. ASSUME NEW g \in Files, index'[g] # NoRow PROVE Truthful(index[g].stamp, index[g], g)'
    <3>1. Truthful(index[g].stamp, index[g], g)
      BY <1>2, <2>1 DEF FolderInv, ReadTruly
    <3> DEFINE row == index[g]
    <3>2. row' = row
      BY <1>2
    <3> QED
      BY <1>2, <1>8, <1>9, <3>1 DEF Truthful, Readings, FailedMetadata, Probe
  <2>2. scan'.at = "probe" => scan'.stamp \in past'[Current'] \cup {disk'[Current']}
    BY <1>4, <1>8, <1>10, <1>11 DEF FolderInv, ReadTruly, Handling
  <2>3. scan'.at = "upsert" => Truthful(scan.stamp, scan.metadata, Current)'
    <3>1. scan.at = "upsert" => Truthful(scan.stamp, scan.metadata, Current) /\ Current \in Files
      BY <1>11 DEF FolderInv, ReadTruly, Handling
    <3>2. ASSUME scan.at = "upsert" PROVE Truthful(scan.stamp, scan.metadata, Current)'
      <4>1. CASE disk'[Current] = disk[Current]
        <5>1. Readings(Current, disk[Current])' = Readings(Current, disk[Current])
          BY <1>2, <1>10, <4>1 DEF Readings, FailedMetadata, Probe
        <5> QED
          BY <1>4, <1>8, <1>10, <3>1, <3>2, <4>1, <5>1 DEF Truthful
      <4>2. CASE disk'[Current] # disk[Current]
        BY <1>4, <1>8, <1>10, <3>1, <3>2, <4>2 DEF Truthful
      <4> QED
        BY <4>1, <4>2
    <3> QED
      BY <1>4, <3>2
  <2> QED
    BY <2>1, <2>2, <2>3 DEF ReadTruly
<1>13. Repairs'
  BY <1>2, <1>4 DEF Repairs
<1> QED
  BY <1>7, <1>12, <1>13 DEF FolderInv

LEMMA RefreshKeeps ==
    ASSUME FolderInv, Refresh
    PROVE  FolderInv'
<1>1. /\ scan' = [IdleScan EXCEPT !.at = "list", !.existing = index]
      /\ settled' = FALSE /\ disk' = disk /\ past' = past /\ misread' = misread /\ index' = index
  BY DEF Refresh
<1>2. /\ DOMAIN scan' = ScanFields /\ scan'.at = "list" /\ scan'.existing = index
      /\ scan'.root = 0 /\ scan'.queue = {} /\ scan'.present = {} /\ scan'.clean = TRUE
  BY <1>1 DEF IdleScan, ScanFields
<1>3. FolderTypes'
  <2>1. index \in [Files -> Rows]
    BY DEF FolderInv, FolderTypes
  <2>2. scan'.at = "list" /\ "list" \notin Handling /\ scan'.clean \in BOOLEAN
    BY <1>2 DEF Handling
  <2>3. ScanTypes'
    BY <1>2, <2>1, <2>2 DEF ScanTypes
  <2> QED
    BY <1>1, <2>3 DEF FolderInv, FolderTypes
<1>4. ReadTruly'
  <2>1. ASSUME NEW f \in Files, index'[f] # NoRow PROVE Truthful(index[f].stamp, index[f], f)'
    BY <1>1, <2>1 DEF FolderInv, ReadTruly, Truthful, Readings, FailedMetadata, Probe
  <2> QED
    BY <1>2, <2>1 DEF ReadTruly
<1>5. Progress'
  BY <1>1, <1>2 DEF Progress, Matches
<1>6. Repairs'
  BY <1>1, <1>2, <1>5 DEF Repairs
<1> QED
  BY <1>3, <1>4, <1>6 DEF FolderInv

LEMMA ListRootKeeps ==
    ASSUME FolderInv, ListRoot
    PROVE  FolderInv'
<1>1. /\ scan.at = "list" /\ disk' = disk /\ past' = past /\ misread' = misread /\ index' = index
      /\ settled' = settled
  BY DEF ListRoot
<1>2. FolderTypes /\ ScanTypes /\ ~settled /\ scan.queue = {} /\ scan.at # "idle"
  BY <1>1 DEF FolderInv, FolderTypes, ScanTypes, Repairs
<1>3. ReadTruly' /\ FolderTypes' /\ (scan'.clean => Progress') => FolderInv' \/ scan'.at \in {"idle", "clear"}
  BY <1>1, <1>2 DEF FolderInv, Repairs
<1>4. \A f : Supported(f)' <=> Supported(f)
  BY <1>1 DEF Supported
<1>5. \A f : Matches(index[f], f)' <=> Matches(index[f], f)
  BY <1>1 DEF Matches
<1>6. ASSUME scan'.at \in {"list", "stat", "prune"} PROVE ReadTruly'
  BY <1>1, <1>6 DEF FolderInv, ReadTruly, Truthful, Readings, FailedMetadata, Probe
<1>7. CASE scan.root = Len(Roots)
  <2>1. scan' = [scan EXCEPT !.at = "prune"]
    BY <1>7 DEF ListRoot
  <2>2. /\ DOMAIN scan' = ScanFields /\ scan'.at = "prune"
        /\ scan'.root = scan.root /\ scan'.queue = scan.queue
        /\ scan'.existing = scan.existing /\ scan'.present = scan.present
        /\ scan'.clean = scan.clean
    BY <1>2, <2>1 DEF ScanTypes, ScanFields
  <2>3. scan.root = 2 /\ "prune" \notin Handling
    BY <1>7, LibraryAssumption DEF Handling
  <2>4. ScanTypes'
    BY <1>2, <2>2, <2>3 DEF ScanTypes
  <2>5. FolderTypes'
    BY <1>1, <1>2, <2>4 DEF FolderTypes
  <2>6. ASSUME scan'.clean PROVE Progress'
    <3>1. Progress
      BY <1>1, <2>2, <2>6 DEF FolderInv, Repairs
    <3>2. \A f \in Files : Matches(scan.existing[f], f)' => Matches(index[f], f)'
      BY <1>1, <2>2, <3>1 DEF Progress, Matches
    <3> QED
      BY <1>1, <1>4, <1>5, <2>2, <3>1, <3>2 DEF Progress
  <2> QED
    BY <1>3, <1>6, <2>2, <2>5, <2>6
<1>8. CASE scan.root # Len(Roots)
  <2> DEFINE files == Roots[scan.root + 1]
             listed == {k \in 1 .. Len(files) : disk[files[k]] # 0}
  <2>1. scan' = [scan EXCEPT !.root = scan.root + 1, !.queue = listed,
                             !.at = IF listed = {} THEN "list" ELSE "stat"]
    BY <1>8 DEF ListRoot
  <2>2. /\ DOMAIN scan' = ScanFields
        /\ scan'.root = scan.root + 1 /\ scan'.queue = listed
        /\ scan'.existing = scan.existing /\ scan'.present = scan.present
        /\ scan'.clean = scan.clean
        /\ scan'.at = IF listed = {} THEN "list" ELSE "stat"
    <3> HIDE DEF listed
    <3> QED
      BY <1>2, <2>1 DEF ScanTypes, ScanFields
  <2>3. scan.root \in 0 .. 1 /\ listed \subseteq 1 .. Len(files)
    BY <1>2, <1>8, LibraryAssumption DEF ScanTypes
  <2>4. \A k \in 1 .. Len(files) : Supported(files[k]) => k \in listed
    BY DEF Supported
  <2> HIDE DEF listed
  <2>5. scan'.at \in {"list", "stat"} /\ (scan'.at = "stat" <=> scan'.queue # {})
    BY <2>2
  <2>6. ScanTypes'
    BY <1>2, <2>2, <2>3, <2>5 DEF ScanTypes, Handling
  <2>7. FolderTypes'
    BY <1>1, <1>2, <2>6 DEF FolderTypes
  <2>8. ASSUME scan'.clean PROVE Progress'
    <3>1. Progress
      BY <1>1, <2>2, <2>8 DEF FolderInv, Repairs
    <3>2. \A f \in Files : Matches(scan.existing[f], f)' => Matches(index[f], f)'
      BY <1>1, <2>2, <3>1 DEF Progress, Matches
    <3>3. ASSUME NEW i \in 1 .. scan'.root, NEW k \in 1 .. Len(Roots[i]), Supported(Roots[i][k])'
          PROVE  Roots[i][k] \in scan'.present \/ (i = scan'.root /\ k \in scan'.queue)
      <4>1. CASE i = scan.root + 1
        BY <1>4, <2>2, <2>4, <3>3, <4>1
      <4>2. CASE i # scan.root + 1
        <5>1. i \in 1 .. scan.root
          BY <2>2, <2>3, <3>3, <4>2
        <5> QED
          BY <1>2, <1>4, <2>2, <3>1, <3>3, <5>1 DEF Progress
      <4> QED
        BY <4>1, <4>2
    <3>4. \A f \in scan'.present : Supported(f)' /\ Matches(index[f], f)'
      BY <1>1, <1>4, <1>5, <2>2, <3>1 DEF Progress
    <3>5. scan'.at \notin {"probe", "upsert", "unlink"}
      BY <2>5
    <3> QED
      BY <3>2, <3>3, <3>4, <3>5 DEF Progress
  <2> QED
    BY <1>3, <1>6, <2>5, <2>7, <2>8
<1> QED
  BY <1>7, <1>8

LEMMA StatKeeps ==
    ASSUME FolderInv, Stat \/ StatFails
    PROVE  FolderInv'
<1>1. /\ scan.at = "stat" /\ disk' = disk /\ past' = past /\ misread' = misread /\ index' = index
      /\ settled' = settled
  BY DEF Stat, StatFails
<1>2. FolderTypes /\ ScanTypes /\ ~settled /\ scan.at \in Handling
  BY <1>1 DEF FolderInv, FolderTypes, Repairs, Handling
<1>3. DOMAIN scan = ScanFields /\ scan.clean \in BOOLEAN
  BY <1>2 DEF ScanTypes
<1>4. Current \in Files /\ (scan.queue = {First(scan)} <=> scan.queue \ {First(scan)} = {})
  BY <1>2, CurrentOf
<1>5. scan.clean => Progress
  BY <1>1 DEF FolderInv, Repairs, Handling
<1>6. scan.clean /\ Current \in scan.present => Supported(Current) /\ Matches(index[Current], Current)
  BY <1>1, <1>5 DEF Progress
<1> DEFINE s == [scan EXCEPT !.present = scan.present \cup {Current}, !.stamp = disk[Current]]
<1>7. CASE StatFails
  <2>1. scan' = [NextFile(scan) EXCEPT !.clean = FALSE]
    BY <1>7 DEF StatFails
  <2>2. Moves(scan.present, FALSE)
    BY <1>3, <1>4, <2>1 DEF Moves, NextFile, ScanFields
  <2> QED
    BY <1>1, <1>2, <1>6, <2>2, MovesKeep
<1>8. CASE Stat /\ ~Supported(Current)
  <2>1. scan' = NextFile(scan)
    BY <1>8 DEF Stat, Supported, Media
  <2>2. Moves(scan.present, scan.clean)
    BY <1>3, <1>4, <2>1 DEF Moves, NextFile, ScanFields
  <2> QED
    BY <1>1, <1>2, <1>3, <1>6, <1>8, <2>2, MovesKeep
<1>9. CASE Stat /\ Supported(Current) /\ Unchanged(Current)
  <2>1. scan' = NextFile(s)
    BY <1>9 DEF Stat, Supported, Media
  <2>2. Moves(scan.present \cup {Current}, scan.clean)
    <3>1. First(s) = First(scan) /\ s.queue = scan.queue
      BY <1>3 DEF First, ScanFields
    <3> QED
      BY <1>3, <1>4, <2>1, <3>1 DEF Moves, NextFile, ScanFields
  <2>3. scan.clean => Matches(index[Current], Current)
    BY <1>4, <1>5, <1>9 DEF Progress, Unchanged, Matches
  <2> HIDE DEF s
  <2> QED
    BY <1>1, <1>2, <1>3, <1>9, <2>2, <2>3, MovesKeep
<1>10. CASE Stat /\ Supported(Current) /\ ~Unchanged(Current)
  <2>1. scan' = [s EXCEPT !.at = "probe"]
    BY <1>10 DEF Stat, Supported, Media
  <2>2. /\ DOMAIN scan' = ScanFields /\ scan'.at = "probe"
        /\ scan'.root = scan.root /\ scan'.queue = scan.queue
        /\ scan'.existing = scan.existing /\ scan'.present = scan.present \cup {Current}
        /\ scan'.clean = scan.clean /\ scan'.stamp = disk[Current]
    BY <1>3, <2>1 DEF ScanFields
  <2> HIDE DEF s
  <2>3. Current' = Current
    BY <2>2 DEF Current, First
  <2>4. disk[Current] \in 1 .. MaxVersion
    BY <1>2, <1>4, <1>10, LibraryAssumption DEF FolderTypes, Supported
  <2>5. ScanTypes'
    BY <1>2, <1>4, <2>2, <2>4 DEF ScanTypes, Handling
  <2>6. FolderTypes'
    BY <1>1, <1>2, <2>5 DEF FolderTypes
  <2>7. ReadTruly'
    <3>1. ASSUME NEW f \in Files, index'[f] # NoRow PROVE Truthful(index[f].stamp, index[f], f)'
      BY <1>1, <3>1 DEF FolderInv, ReadTruly, Truthful, Readings, FailedMetadata, Probe
    <3>2. scan'.stamp \in past'[Current'] \cup {disk'[Current']}
      BY <1>1, <2>2, <2>3
    <3> QED
      BY <2>2, <3>1, <3>2 DEF ReadTruly
  <2>8. ASSUME scan'.clean PROVE Progress'
    <3>1. Progress
      BY <1>5, <2>2, <2>8
    <3>2. \A f : Supported(f)' <=> Supported(f)
      BY <1>1 DEF Supported
    <3>3. \A f : Matches(index[f], f)' <=> Matches(index[f], f)
      BY <1>1 DEF Matches
    <3>4. \A f : Matches(scan.existing[f], f)' <=> Matches(scan.existing[f], f)
      BY <1>1, <2>2 DEF Matches
    <3>5. \A f \in Files : Matches(scan.existing[f], f)' => Matches(index[f], f)'
      BY <3>1, <3>3, <3>4 DEF Progress
    <3>6. ASSUME NEW f \in scan'.present PROVE Supported(f)' /\ (f = Current' \/ Matches(index[f], f)')
      BY <1>1, <1>10, <2>2, <2>3, <3>1, <3>2, <3>3 DEF Progress
    <3>7. /\ Current' \in scan'.present /\ scan'.stamp = disk'[Current']
          /\ ~Matches(scan.existing[Current], Current)'
      BY <1>1, <1>10, <2>2, <2>3 DEF Unchanged, Matches
    <3>8. \A i \in 1 .. scan'.root : \A k \in 1 .. Len(Roots[i]) :
            Supported(Roots[i][k])' => Roots[i][k] \in scan'.present
                                       \/ (i = scan'.root /\ k \in scan'.queue)
      BY <2>2, <3>1, <3>2 DEF Progress
    <3> QED
      BY <2>2, <3>5, <3>6, <3>7, <3>8 DEF Progress
  <2>9. Repairs'
    BY <1>1, <1>2, <2>2, <2>8 DEF Repairs
  <2> QED
    BY <2>6, <2>7, <2>9 DEF FolderInv
<1> QED
  BY <1>7, <1>8, <1>9, <1>10

(* The scan stays at its file, and the row of that file may change. *)
Stays(at) ==
  /\ DOMAIN scan' = ScanFields /\ scan'.at = at
  /\ scan'.root = scan.root /\ scan'.queue = scan.queue
  /\ scan'.existing = scan.existing /\ scan'.present = scan.present
  /\ scan'.clean = scan.clean /\ scan'.stamp = scan.stamp

(* An error leaves the refresh. *)
LEMMA AbortKeeps ==
    ASSUME FolderInv, scan.at # "idle", scan' = IdleScan,
           disk' = disk, past' = past, misread' = misread, index' = index, settled' = settled
    PROVE  FolderInv'
<1>1. FolderTypes /\ ~settled
  BY DEF FolderInv, Repairs
<1>2. \A f \in Files : index'[f] # NoRow => Truthful(index[f].stamp, index[f], f)'
  <2>1. ASSUME NEW f \in Files, index'[f] # NoRow PROVE Truthful(index[f].stamp, index[f], f)'
    BY <2>1 DEF FolderInv, ReadTruly, Truthful, Readings, FailedMetadata, Probe
  <2> QED
    BY <2>1
<1>3. /\ DOMAIN scan' = ScanFields /\ scan'.at = "idle" /\ "idle" \notin Handling
      /\ scan'.root = 0 /\ scan'.clean \in BOOLEAN /\ scan'.present = {}
  BY DEF IdleScan, ScanFields, Handling
<1>4. ScanTypes'
  BY <1>3 DEF ScanTypes
<1>5. FolderTypes'
  BY <1>1, <1>4 DEF FolderTypes
<1>6. ReadTruly'
  BY <1>2, <1>3 DEF ReadTruly
<1>7. Repairs'
  BY <1>1, <1>3 DEF Repairs
<1> QED
  BY <1>5, <1>6, <1>7 DEF FolderInv

(* The current file is probed, with whatever success. *)
LEMMA ReadKeeps ==
    ASSUME FolderInv, scan.at = "probe", disk[Current] # 0,
           NEW read \in Probed, scan' = [scan EXCEPT !.at = "upsert", !.metadata = read],
           disk' = disk, past' = past, index' = index, settled' = settled,
           misread \subseteq misread',
           \/ read = Probe(Current, disk[Current])
           \/ read = FailedMetadata(disk[Current]) /\ <<Current, disk[Current]>> \in misread'
    PROVE  FolderInv'
<1>1. FolderTypes /\ ScanTypes /\ ~settled /\ scan.at \in Handling
  BY DEF FolderInv, FolderTypes, Repairs, Handling
<1>2. Current \in Files
  BY <1>1, CurrentOf
<1>3. \A f, v : Readings(f, v) \subseteq Readings(f, v)'
  BY DEF Readings, FailedMetadata, Probe
<1>4. \A f \in Files : index'[f] # NoRow => Truthful(index[f].stamp, index[f], f)'
  <2>1. ASSUME NEW f \in Files, index'[f] # NoRow PROVE Truthful(index[f].stamp, index[f], f)'
    <3>1. Truthful(index[f].stamp, index[f], f)
      BY <2>1 DEF FolderInv, ReadTruly
    <3>2. Readings(f, disk[f]) \subseteq Readings(f, disk[f])'
      BY DEF Readings, FailedMetadata, Probe
    <3> QED
      BY <3>1, <3>2 DEF Truthful
  <2> QED
    BY <2>1
<1>5. Stays("upsert") /\ scan'.metadata = read
  BY <1>1 DEF Stays, ScanTypes, ScanFields
<1>6. Current' = Current
  BY <1>5 DEF Stays, Current, First
<1>7. ScanTypes'
  BY <1>1, <1>5 DEF ScanTypes, Stays, Handling
<1>8. FolderTypes'
  BY <1>1, <1>7 DEF FolderTypes
<1>9. Truthful(scan.stamp, scan.metadata, Current)'
  <2>1. scan'.stamp \in past'[Current'] \cup {disk'[Current']} /\ scan'.stamp # 0
    BY <1>1, <1>5, <1>6 DEF FolderInv, ReadTruly, ScanTypes, Stays
  <2>2. scan'.metadata.metadata # ""
    BY <1>5 DEF Probed
  <2>3. scan'.metadata \in Readings(Current, disk[Current])'
    BY <1>5, <1>6 DEF Readings, FailedMetadata, Probe
  <2> QED
    BY <2>1, <2>2, <2>3 DEF Truthful
<1>10. ReadTruly'
  BY <1>4, <1>5, <1>9 DEF ReadTruly, Stays
<1>11. ASSUME scan'.clean PROVE Progress'
  <2>1. Progress
    BY <1>5, <1>11 DEF FolderInv, Repairs, Stays, Handling
  <2>2. \A f : Supported(f)' <=> Supported(f)
    BY DEF Supported
  <2>3. \A f : Matches(index[f], f)' <=> Matches(index[f], f)
    BY DEF Matches
  <2>4. \A f : Matches(scan.existing[f], f)' <=> Matches(scan.existing[f], f)
    BY <1>5 DEF Matches, Stays
  <2>5. Matches(scan.existing[Current], Current)' <=> Matches(scan.existing[Current], Current)
    BY <1>5, <1>6 DEF Matches, Stays
  <2>6. disk'[Current'] = disk[Current]
    BY <1>6
  <2> QED
    BY <1>5, <1>6, <2>1, <2>2, <2>3, <2>4, <2>5, <2>6 DEF Progress, Stays
<1>12. Repairs'
  BY <1>1, <1>5, <1>11 DEF Repairs, Stays
<1> QED
  BY <1>8, <1>10, <1>12 DEF FolderInv

LEMMA ProbeKeeps ==
    ASSUME FolderInv, ProbeFile \/ ProbeFails \/ RefreshFails
    PROVE  FolderInv'
<1>1. CASE RefreshFails \/ (ProbeFile /\ disk[Current] = 0)
  <2>1. /\ scan.at # "idle" /\ scan' = IdleScan
        /\ disk' = disk /\ past' = past /\ misread' = misread /\ index' = index
        /\ settled' = settled
    BY <1>1 DEF RefreshFails, ProbeFile
  <2> QED
    BY <2>1, AbortKeeps
<1>2. CASE (ProbeFile \/ ProbeFails) /\ disk[Current] # 0
  <2>1. /\ scan.at = "probe" /\ disk' = disk /\ past' = past /\ index' = index
        /\ settled' = settled /\ misread \subseteq misread'
    BY <1>2 DEF ProbeFile, ProbeFails
  <2>2. Current \in Files
    BY <2>1, CurrentOf DEF FolderInv, FolderTypes, Handling
  <2>3. disk[Current] \in 1 .. MaxVersion
    BY <1>2, <2>2, LibraryAssumption DEF FolderInv, FolderTypes
  <2>4. CASE ProbeFile
    <3>1. scan' = [scan EXCEPT !.at = "upsert", !.metadata = Probe(Current, disk[Current])]
      BY <1>2, <2>4 DEF ProbeFile
    <3> QED
      BY <1>2, <2>1, <2>2, <2>3, <3>1, ProbedTyped, ReadKeeps
  <2>5. CASE ProbeFails
    <3>1. scan' = [scan EXCEPT !.at = "upsert", !.metadata = FailedMetadata(disk[Current])]
          /\ <<Current, disk[Current]>> \in misread'
      BY <2>5 DEF ProbeFails
    <3> QED
      BY <1>2, <2>1, <2>2, <2>3, <3>1, ProbedTyped, ReadKeeps
  <2> QED
    BY <1>2, <2>4, <2>5
<1> QED
  BY <1>1, <1>2 DEF ProbeFails

LEMMA UpsertKeeps ==
    ASSUME FolderInv, Upsert
    PROVE  FolderInv'
<1> DEFINE row == [stamp |-> scan.stamp, captured |-> scan.metadata.captured,
                   metadata |-> scan.metadata.metadata, thumbnail |-> "missing"]
<1>1. /\ scan.at = "upsert" /\ disk' = disk /\ past' = past /\ misread' = misread
      /\ settled' = settled
      /\ index' = [index EXCEPT ![Current] = row] /\ scan' = [scan EXCEPT !.at = "unlink"]
  BY DEF Upsert
<1>2. FolderTypes /\ ScanTypes /\ ~settled /\ scan.at \in Handling
  BY <1>1 DEF FolderInv, FolderTypes, Repairs, Handling
<1>3. Current \in Files
  BY <1>2, CurrentOf
<1>4. Truthful(scan.stamp, scan.metadata, Current)
  BY <1>1 DEF FolderInv, ReadTruly
<1>5. row \in Rows /\ row # NoRow
  <2>1. scan.stamp \in 1 .. MaxVersion /\ scan.metadata \in Probed
    BY <1>1, <1>2 DEF ScanTypes
  <2>2. /\ scan.stamp \in 0 .. MaxVersion
        /\ scan.metadata.captured \in Nat /\ scan.metadata.metadata \in {"ok", "error"}
    BY <2>1, LibraryAssumption DEF Probed
  <2>3. row \in Rows
    BY <2>2 DEF Rows
  <2>4. row.metadata # ""
    BY <2>2
  <2> HIDE DEF row
  <2> QED
    BY <2>3, <2>4, NoRowTyped
<1>6. /\ row.stamp = scan.stamp /\ row.captured = scan.metadata.captured
      /\ row.metadata = scan.metadata.metadata
  OBVIOUS
<1> HIDE DEF row
<1>7. /\ index' \in [Files -> Rows] /\ index'[Current] = row
      /\ \A f \in Files \ {Current} : index'[f] = index[f]
  BY <1>1, <1>2, <1>3, <1>5 DEF FolderTypes
<1>8. Stays("unlink")
  BY <1>1, <1>2 DEF Stays, ScanTypes, ScanFields
<1>9. Current' = Current
  BY <1>8 DEF Stays, Current, First
<1>10. ScanTypes'
  BY <1>1, <1>2, <1>8 DEF ScanTypes, Stays, Handling
<1>11. FolderTypes'
  BY <1>1, <1>2, <1>7, <1>10 DEF FolderTypes
<1>12. ReadTruly'
  <2>1. ASSUME NEW f \in Files, index'[f] # NoRow
        PROVE  Truthful(index[f].stamp, index[f], f)'
    <3>1. CASE f = Current
      <4>1. Readings(f, disk[f])' = Readings(f, disk[f])
        BY <1>1 DEF Readings, FailedMetadata, Probe
      <4> QED
        BY <1>1, <1>4, <1>6, <1>7, <3>1, <4>1 DEF Truthful
    <3>2. CASE f # Current
      <4>1. Truthful(index[f].stamp, index[f], f) /\ index'[f] = index[f]
        BY <1>7, <2>1, <3>2 DEF FolderInv, ReadTruly
      <4> QED
        BY <1>1, <4>1 DEF Truthful, Readings, FailedMetadata, Probe
    <3> QED
      BY <3>1, <3>2
  <2> QED
    BY <1>8, <2>1 DEF ReadTruly, Stays
<1>13. ASSUME scan'.clean PROVE Progress'
  <2>1. Progress
    BY <1>1, <1>8, <1>13 DEF FolderInv, Repairs, Stays, Handling
  <2>2. \A f : Supported(f)' <=> Supported(f)
    BY <1>1 DEF Supported
  <2>3. Matches(index[Current], Current)'
    BY <1>1, <1>5, <1>6, <1>7, <1>9, <2>1 DEF Progress, Matches
  <2>4. ASSUME NEW f \in Files
        PROVE  Matches(index[f], f)' <=> f = Current \/ Matches(index[f], f)
    BY <1>1, <1>7, <1>9, <2>3, <2>4 DEF Matches
  <2>5. \A f : Matches(scan.existing[f], f)' <=> Matches(scan.existing[f], f)
    BY <1>1, <1>8 DEF Matches, Stays
  <2>6. scan.present \subseteq Files
    BY <1>2 DEF ScanTypes
  <2>7. \A f \in Files : Matches(scan.existing[f], f)' => Matches(index[f], f)'
    BY <2>1, <2>4, <2>5 DEF Progress
  <2>8. \A f \in scan'.present : Supported(f)' /\ Matches(index[f], f)'
    BY <1>1, <1>8, <2>1, <2>2, <2>4, <2>6 DEF Progress, Stays
  <2>9. \A i \in 1 .. scan'.root : \A k \in 1 .. Len(Roots[i]) :
          Supported(Roots[i][k])' => Roots[i][k] \in scan'.present
                                     \/ (i = scan'.root /\ k \in scan'.queue)
    BY <1>8, <2>1, <2>2 DEF Progress, Stays
  <2>10. Current' \in scan'.present
    BY <1>1, <1>8, <1>9, <2>1 DEF Progress, Stays
  <2> QED
    BY <1>8, <2>7, <2>8, <2>9, <2>10 DEF Progress, Stays
<1>14. Repairs'
  BY <1>1, <1>2, <1>8, <1>13 DEF Repairs, Stays
<1> QED
  BY <1>11, <1>12, <1>14 DEF FolderInv

LEMMA UnlinkOldKeeps ==
    ASSUME FolderInv, UnlinkOld
    PROVE  FolderInv'
<1>1. /\ scan.at = "unlink" /\ disk' = disk /\ past' = past /\ misread' = misread /\ index' = index
      /\ settled' = settled
      /\ scan' = NextFile(scan)
  BY DEF UnlinkOld
<1>2. ScanTypes /\ scan.at \in Handling
  BY <1>1 DEF FolderInv, FolderTypes, Handling
<1>3. DOMAIN scan = ScanFields /\ scan.clean \in BOOLEAN
  BY <1>2 DEF ScanTypes
<1>4. Current \in Files /\ (scan.queue = {First(scan)} <=> scan.queue \ {First(scan)} = {})
  BY <1>2, CurrentOf
<1>5. Moves(scan.present, scan.clean)
  BY <1>1, <1>3, <1>4 DEF Moves, NextFile, ScanFields
<1>6. scan.clean => /\ Current \in scan.present
                    /\ Supported(Current) /\ Matches(index[Current], Current)
  BY <1>1 DEF FolderInv, Repairs, Progress, Handling
<1> QED
  BY <1>1, <1>2, <1>3, <1>5, <1>6, MovesKeep

LEMMA RemoveMissingKeeps ==
    ASSUME FolderInv, RemoveMissing
    PROVE  FolderInv'
<1> DEFINE gone == {f \in Files \ scan.present : index[f] # NoRow}
<1>1. /\ scan.at = "prune" /\ disk' = disk /\ past' = past /\ misread' = misread
      /\ settled' = settled
      /\ index' = [f \in Files |-> IF f \in gone THEN NoRow ELSE index[f]]
      /\ scan' = [scan EXCEPT !.at = "clear", !.removed = SetToSeq(gone)]
  BY DEF RemoveMissing
<1>2. FolderTypes /\ ScanTypes /\ ~settled
  BY <1>1 DEF FolderInv, FolderTypes, Repairs
<1>3. index' \in [Files -> Rows]
      /\ \A f \in Files : index'[f] = IF f \in scan.present THEN index[f] ELSE NoRow
  BY <1>1, <1>2, NoRowTyped DEF FolderTypes
<1>4. /\ DOMAIN scan' = ScanFields /\ scan'.at = "clear" /\ "clear" \notin Handling
      /\ scan'.root = scan.root /\ scan'.existing = scan.existing /\ scan'.present = scan.present
      /\ scan'.clean = scan.clean
  <2> HIDE DEF gone
  <2> QED
    BY <1>1, <1>2 DEF ScanTypes, ScanFields, Handling
<1>5. ScanTypes'
  BY <1>1, <1>2, <1>4 DEF ScanTypes
<1>6. FolderTypes'
  BY <1>1, <1>2, <1>3, <1>5 DEF FolderTypes
<1>7. ReadTruly'
  <2>1. ASSUME NEW f \in Files, index'[f] # NoRow
        PROVE  Truthful(index[f].stamp, index[f], f)'
    <3>1. index'[f] = index[f]
      BY <1>3, <2>1
    <3>2. Truthful(index[f].stamp, index[f], f)
      BY <2>1, <3>1 DEF FolderInv, ReadTruly
    <3> QED
      BY <1>1, <3>1, <3>2 DEF Truthful, Readings, FailedMetadata, Probe
  <2> QED
    BY <1>4, <2>1 DEF ReadTruly
<1>8. ASSUME scan.clean, NEW f \in Files
      PROVE  IF Supported(f)' THEN Matches(index[f], f)' ELSE index'[f] = NoRow
  <2>1. Progress /\ scan.root = 2 /\ scan.queue = {}
    BY <1>1, <1>2, <1>8 DEF FolderInv, Repairs, ScanTypes
  <2>2. Supported(f)' <=> Supported(f)
    BY <1>1 DEF Supported
  <2>3. CASE f \in scan.present
    <3>1. Supported(f) /\ Matches(index[f], f) /\ index'[f] = index[f]
      BY <1>1, <1>3, <2>1, <2>3 DEF Progress
    <3> QED
      BY <1>1, <2>2, <3>1 DEF Matches
  <2>4. CASE f \notin scan.present
    <3>1. PICK i \in 1 .. 2 : \E k \in 1 .. Len(Roots[i]) : Roots[i][k] = f
      BY ListedAt
    <3>2. PICK k \in 1 .. Len(Roots[i]) : Roots[i][k] = f
      BY <3>1
    <3>3. ~Supported(f)
      BY <2>1, <2>4, <3>2 DEF Progress
    <3> QED
      BY <1>3, <2>2, <2>4, <3>3
  <2> QED
    BY <2>3, <2>4
<1>9. scan.clean => Folder'
  BY <1>8 DEF Folder
<1>10. Repairs'
  BY <1>1, <1>2, <1>4, <1>9 DEF Repairs, Handling
<1> QED
  BY <1>6, <1>7, <1>10 DEF FolderInv

LEMMA UnlinkRemovedKeeps ==
    ASSUME FolderInv, UnlinkRemoved
    PROVE  FolderInv'
<1>1. /\ scan.at = "clear" /\ disk' = disk /\ past' = past /\ misread' = misread /\ index' = index
      /\ \/ scan' = IdleScan /\ settled' = scan.clean
         \/ settled' = settled /\ scan' = [scan EXCEPT !.removed = Tail(scan.removed)]
  BY DEF UnlinkRemoved
<1>2. FolderTypes /\ ScanTypes /\ ~settled
  BY <1>1 DEF FolderInv, FolderTypes, Repairs
<1>3. \A f \in Files : index'[f] # NoRow => Truthful(index[f].stamp, index[f], f)'
  <2>1. ASSUME NEW f \in Files, index'[f] # NoRow PROVE Truthful(index[f].stamp, index[f], f)'
    BY <1>1, <2>1 DEF FolderInv, ReadTruly, Truthful, Readings, FailedMetadata, Probe
  <2> QED
    BY <2>1
<1>4. scan.clean => Folder'
  <2>1. scan.clean => Folder
    BY <1>1 DEF FolderInv, Repairs
  <2>2. Folder => Folder'
    BY <1>1 DEF Folder, Supported, Matches
  <2> QED
    BY <2>1, <2>2
<1>5. CASE scan' = IdleScan /\ settled' = scan.clean
  <2>1. /\ DOMAIN scan' = ScanFields /\ scan'.at = "idle" /\ "idle" \notin Handling
        /\ scan'.root = 0 /\ scan'.clean \in BOOLEAN /\ scan'.present = {}
    BY <1>5 DEF IdleScan, ScanFields, Handling
  <2>2. ScanTypes' /\ settled' \in BOOLEAN
    BY <1>2, <1>5, <2>1 DEF ScanTypes
  <2>3. FolderTypes'
    BY <1>1, <1>2, <2>2 DEF FolderTypes
  <2>4. ReadTruly' /\ Repairs'
    BY <1>3, <1>4, <1>5, <2>1 DEF ReadTruly, Repairs
  <2> QED
    BY <2>3, <2>4 DEF FolderInv
<1>6. CASE settled' = settled /\ scan' = [scan EXCEPT !.removed = Tail(scan.removed)]
  <2>1. /\ DOMAIN scan' = ScanFields /\ scan'.at = "clear" /\ "clear" \notin Handling
        /\ scan'.root = scan.root /\ scan'.existing = scan.existing /\ scan'.present = scan.present
        /\ scan'.clean = scan.clean
    BY <1>1, <1>2, <1>6 DEF ScanTypes, ScanFields, Handling
  <2>2. ScanTypes'
    BY <1>1, <1>2, <2>1 DEF ScanTypes
  <2>3. FolderTypes'
    BY <1>1, <1>2, <1>6, <2>2 DEF FolderTypes
  <2>4. ReadTruly'
    BY <1>3, <2>1 DEF ReadTruly
  <2>5. Repairs'
    BY <1>2, <1>4, <1>6, <2>1 DEF Repairs, Handling
  <2> QED
    BY <2>3, <2>4, <2>5 DEF FolderInv
<1> QED
  BY <1>1, <1>5, <1>6

LEMMA FolderInit ==
    Init => FolderInv
<1> SUFFICES ASSUME Init PROVE FolderInv
  OBVIOUS
<1>1. /\ disk \in [Files -> 0 .. MaxVersion] /\ past = [f \in Files |-> {}]
      /\ index = [f \in Files |-> NoRow] /\ scan = IdleScan /\ settled = FALSE
  BY LibraryAssumption DEF Init
<1>2. /\ DOMAIN scan = ScanFields /\ scan.at = "idle" /\ "idle" \notin Handling
      /\ scan.root = 0 /\ scan.clean \in BOOLEAN /\ scan.present = {}
  BY <1>1 DEF IdleScan, ScanFields, Handling
<1>3. ScanTypes
  BY <1>2 DEF ScanTypes
<1>4. FolderTypes
  BY <1>1, <1>3, NoRowTyped DEF FolderTypes
<1>5. ReadTruly
  BY <1>1, <1>2 DEF ReadTruly
<1>6. Repairs
  BY <1>1, <1>2 DEF Repairs
<1> QED
  BY <1>4, <1>5, <1>6 DEF FolderInv

(* What a request does to the folders, the scan and the index. *)
LEMMA ServeIsApart ==
    ASSUME FolderInv, NEW r \in Requests, Serve(r)
    PROVE  /\ disk' = disk /\ past' = past /\ misread' = misread /\ scan' = scan /\ settled' = settled
           /\ pager' = pager
           /\ \/ index' = index
              \/ \E f \in Files : \E status \in {"ready", "error"} : SetStatus(f, status)
<1>1. CASE \/ \E f \in Files : Kind[f] \in {"photo", "video"} /\ FindItem(r, f)
           \/ Look(r) \/ GetLock(r) \/ Wait(r) \/ LookAgain(r) \/ CleanTemporary(r) \/ Open(r)
           \/ OpenFails(r) \/ Write(r) \/ WriteFails(r) \/ PopLock(r)
  BY <1>1 DEF FindItem, Look, GetLock, Wait, LookAgain, CleanTemporary, Open, OpenFails, Write, WriteFails,
              PopLock
<1>2. CASE Replace(r) \/ GiveUp(r)
  <2>1. /\ disk' = disk /\ past' = past /\ misread' = misread /\ scan' = scan /\ settled' = settled
        /\ pager' = pager
    BY <1>2 DEF Replace, GiveUp
  <2>2. index' = index \/ \E status \in {"ready", "error"} : SetStatus(req[r].file, status)
    BY <1>2 DEF Replace, GiveUp
  <2>3. req[r].file \notin Files => \A status : SetStatus(req[r].file, status) => index' = index
    BY DEF SetStatus, FolderInv, FolderTypes
  <2> QED
    BY <2>1, <2>2, <2>3
<1> QED
  BY <1>1, <1>2 DEF Serve

LEMMA FolderStep ==
    FolderInv /\ [Next]_vars => FolderInv'
<1> SUFFICES ASSUME FolderInv, [Next]_vars PROVE FolderInv'
  OBVIOUS
<1>1. CASE Scan \/ StatFails \/ ProbeFails \/ RefreshFails \/ Refresh \/ \E f \in Files : Change(f)
  BY <1>1, ChangeKeeps, RefreshKeeps, ListRootKeeps, StatKeeps, ProbeKeeps, UpsertKeeps,
     UnlinkOldKeeps, RemoveMissingKeeps, UnlinkRemovedKeeps DEF Scan
<1>2. ASSUME \/ \E type \in {"all", "photo"} : StartPaging(type)
             \/ CountRows \/ SelectRows
             \/ UNCHANGED vars
      PROVE  FolderInv'
  <2>1. /\ disk' = disk /\ past' = past /\ misread' = misread /\ scan' = scan /\ settled' = settled
        /\ index' = index
    BY <1>2 DEF StartPaging, CountRows, SelectRows, vars
  <2> QED
    BY <2>1, OthersKeep
<1>3. ASSUME NEW r \in Requests, Serve(r) PROVE FolderInv'
  BY <1>3, ServeIsApart, OthersKeep
<1> QED
  BY <1>1, <1>2, <1>3 DEF Next

(* MediaScanner.refresh, when it met every file and none changed while it  *)
(* ran, leaves an index that holds exactly the supported files of the two  *)
(* folders, with their stamps: what aborted and disturbed refreshes before *)
(* it left, it finds by the stamps, or removes.  What a row says besides   *)
(* is of that version; it is the metadata, or that a probe of that very    *)
(* version failed, which no later refresh looks at again.                  *)
THEOREM RefreshRepairs == Spec => []IndexIsFolder
<1>1. ASSUME FolderInv PROVE IndexIsFolder
  <2>1. ASSUME settled, NEW f \in Files, Supported(f)
        PROVE  /\ index[f].stamp = disk[f]
               /\ disk[f] \notin past[f] => \E m \in Readings(f, disk[f]) :
                    index[f].captured = m.captured /\ index[f].metadata = m.metadata
    <3>1. index[f] # NoRow /\ index[f].stamp = disk[f]
      BY <1>1, <2>1 DEF FolderInv, Repairs, Folder, Matches
    <3> QED
      BY <1>1, <3>1 DEF FolderInv, ReadTruly, Truthful
  <2>2. ASSUME settled, NEW f \in Files, ~Supported(f) PROVE index[f] = NoRow
    BY <1>1, <2>2 DEF FolderInv, Repairs, Folder
  <2> QED
    BY <2>1, <2>2 DEF IndexIsFolder, Supported, Media
<1>2. Spec => []FolderInv
  BY FolderInit, FolderStep, PTL DEF Spec
<1> QED
  BY <1>1, <1>2, PTL

----------------------------------------------------------------------------
(* The client that pages *)

PagerTypes ==
  pager \in [at : {"idle", "count", "select", "done"}, type : {"all", "photo"},
            offset : Nat, total : Nat, shown : Nat, rows : SUBSET Files, start : SUBSET Files,
            spoiled : BOOLEAN, changed : BOOLEAN]

(* What the client has not been shown is still ahead of it. *)
Ahead ==
  /\ pager.start \subseteq Indexed(pager.type)
  /\ \A f \in pager.start \ pager.rows : Rank(f, pager.type) >= pager.offset
  /\ pager.at = "select" => pager.total = Cardinality(Indexed(pager.type))

(* What it has been shown is behind it. *)
Behind ==
  /\ pager.start = Indexed(pager.type) /\ pager.rows \subseteq pager.start
  /\ \A f \in pager.rows : Rank(f, pager.type) < pager.offset
  /\ pager.shown = Cardinality(pager.rows)

PagerInv ==
  /\ PagerTypes
  /\ ~pager.changed => ~pager.spoiled
  /\ Paging => (~pager.spoiled => Ahead) /\ (~pager.changed => Behind)
  /\ PagesCoverIndex

----------------------------------------------------------------------------

(* The place of a file is its own. *)
LEMMA Positions ==
    ASSUME NEW f \in Files
    PROVE  Position(f) \in Nat /\ (Roots[1] \o Roots[2])[Position(f)] = f
<1> DEFINE p == Roots[1]
           q == Roots[2]
<1>1. p \in Seq(Files) /\ q \in Seq(Files)
  BY FilesOfRoots
<1>2. (\E k \in 1 .. Len(p) : p[k] = f) \/ (\E k \in 1 .. Len(q) : q[k] = f)
  BY ListedAt
<1>3. Position(f) = CHOOSE j \in 1 .. Len(p) + Len(q) : (p \o q)[j] = f
  BY DEF Position
<1> HIDE DEF p, q
<1>4. Len(p) \in Nat /\ Len(q) \in Nat
  BY <1>1
<1>5. \E j \in 1 .. Len(p) + Len(q) : (p \o q)[j] = f
  <2>1. ASSUME NEW k \in 1 .. Len(p), p[k] = f
        PROVE  (p \o q)[k] = f /\ k \in 1 .. Len(p) + Len(q)
    BY <1>1, <1>4, <2>1
  <2>2. ASSUME NEW k \in 1 .. Len(q), q[k] = f
        PROVE  (p \o q)[Len(p) + k] = f /\ Len(p) + k \in 1 .. Len(p) + Len(q)
    BY <1>1, <1>4, <2>2
  <2> QED
    BY <1>2, <2>1, <2>2
<1>6. Position(f) \in 1 .. Len(p) + Len(q) /\ (p \o q)[Position(f)] = f
  BY <1>3, <1>5
<1> QED
  BY <1>4, <1>6 DEF p, q

(* The order of a page is strict and total. *)
LEMMA PrecedesOrders ==
    ASSUME index \in [Files -> Rows], NEW f \in Files, NEW g \in Files, NEW h \in Files
    PROVE  /\ ~Precedes(f, f)
           /\ f # g => Precedes(f, g) \/ Precedes(g, f)
           /\ Precedes(f, g) /\ Precedes(g, h) => Precedes(f, h)
<1>1. index[f].captured \in Nat /\ index[g].captured \in Nat /\ index[h].captured \in Nat
  BY DEF Rows
<1>2. /\ Position(f) \in Nat /\ Position(g) \in Nat /\ Position(h) \in Nat
      /\ f # g => Position(f) # Position(g)
  BY Positions
<1> QED
  BY <1>1, <1>2 DEF Precedes

Above(f, type) == {g \in Indexed(type) : Precedes(g, f)}

LEMMA Ranks ==
    ASSUME index \in [Files -> Rows], NEW type, NEW f
    PROVE  /\ IsFiniteSet(Indexed(type)) /\ Indexed(type) \subseteq Files
           /\ IsFiniteSet(Above(f, type)) /\ Rank(f, type) = Cardinality(Above(f, type))
           /\ Rank(f, type) \in Nat
<1>1. Indexed(type) \subseteq Files /\ IsFiniteSet(Files)
  BY LibraryAssumption DEF Indexed
<1>2. IsFiniteSet(Indexed(type))
  BY <1>1, FS_Subset
<1>3. Above(f, type) \subseteq Indexed(type) /\ Rank(f, type) = Cardinality(Above(f, type))
  BY DEF Above, Rank
<1>4. IsFiniteSet(Above(f, type)) /\ Cardinality(Above(f, type)) \in Nat
  BY <1>2, <1>3, FS_Subset, FS_CardinalityType
<1> QED
  BY <1>1, <1>2, <1>3, <1>4

LEMMA RankGrows ==
    ASSUME index \in [Files -> Rows], NEW type, NEW f \in Indexed(type), NEW g \in Indexed(type),
           Precedes(g, f)
    PROVE  Rank(g, type) < Rank(f, type)
<1>1. /\ IsFiniteSet(Above(f, type)) /\ Rank(f, type) = Cardinality(Above(f, type))
      /\ Rank(g, type) = Cardinality(Above(g, type))
      /\ Rank(f, type) \in Nat /\ Rank(g, type) \in Nat /\ Indexed(type) \subseteq Files
  BY Ranks
<1>2. Above(g, type) \subseteq Above(f, type) \ {g} /\ g \in Above(f, type)
  <2>1. g \in Above(f, type) /\ g \notin Above(g, type)
    BY <1>1, PrecedesOrders DEF Above
  <2>2. ASSUME NEW h \in Above(g, type) PROVE h \in Above(f, type)
    BY <1>1, <2>2, PrecedesOrders DEF Above
  <2> QED
    BY <2>1, <2>2
<1>3. IsFiniteSet(Above(f, type) \ {g}) /\ Cardinality(Above(f, type) \ {g}) = Rank(f, type) - 1
  BY <1>1, <1>2, FS_RemoveElement
<1>4. Cardinality(Above(g, type)) <= Cardinality(Above(f, type) \ {g})
  BY <1>2, <1>3, FS_Subset
<1> QED
  BY <1>1, <1>3, <1>4

LEMMA RanksDiffer ==
    ASSUME index \in [Files -> Rows], NEW type, NEW f \in Indexed(type), NEW g \in Indexed(type),
           Rank(f, type) = Rank(g, type)
    PROVE  f = g
<1>1. f \in Files /\ g \in Files /\ Rank(f, type) \in Nat /\ Rank(g, type) \in Nat
  BY Ranks
<1>2. f # g => Precedes(f, g) \/ Precedes(g, f)
  BY <1>1, PrecedesOrders
<1> QED
  BY <1>1, <1>2, RankGrows

(* Rows of ranks between two numbers are not more than there are ranks. *)
LEMMA RanksBetween ==
    ASSUME index \in [Files -> Rows], NEW type, NEW a \in Nat, NEW b \in Nat, a <= b,
           NEW S, S \subseteq Indexed(type), \A f \in S : Rank(f, type) \in a .. b - 1
    PROVE  IsFiniteSet(S) /\ Cardinality(S) \in Nat /\ Cardinality(S) <= b - a
<1> DEFINE rank == [f \in S |-> Rank(f, type)]
<1>1. rank \in Injection(S, a .. b - 1)
  <2>1. rank \in [S -> a .. b - 1]
    OBVIOUS
  <2>2. \A f, g \in S : rank[f] = rank[g] => f = g
    BY RanksDiffer
  <2> HIDE DEF rank
  <2> QED
    BY <2>1, <2>2 DEF Injection, IsInjective
<1> HIDE DEF rank
<1>2. IsFiniteSet(a .. b - 1) /\ Cardinality(a .. b - 1) = b - a
  BY FS_Interval
<1>3. IsFiniteSet(S) /\ Cardinality(S) <= Cardinality(a .. b - 1)
  BY <1>1, <1>2, FS_Injection
<1> QED
  BY <1>2, <1>3, FS_CardinalityType

(* Ranks have no gaps: if one is at least k, k rows come before. *)
LEMMA NoGaps ==
    ASSUME index \in [Files -> Rows], NEW type, NEW f \in Indexed(type), NEW k \in Nat,
           Rank(f, type) >= k
    PROVE  \E h \in Indexed(type) : Rank(h, type) = k /\ \A g \in Above(h, type) : Rank(g, type) < k
<1> DEFINE S == {Rank(g, type) : g \in {e \in Indexed(type) : Rank(e, type) >= k}}
<1>1. S \subseteq Nat /\ S # {}
  <2>1. \A g \in Indexed(type) : Rank(g, type) \in Nat
    BY Ranks
  <2> QED
    BY <2>1
<1>2. PICK n \in S : \A j \in S : n <= j
  <2> HIDE DEF S
  <2> QED
    BY <1>1, Minimum
<1>3. PICK h \in Indexed(type) : Rank(h, type) = n /\ n >= k
  BY <1>2
<1>4. \A g \in Indexed(type) : Rank(g, type) >= k => n <= Rank(g, type)
  BY <1>2
<1> HIDE DEF S
<1>5. n \in Nat
  BY <1>1, <1>2
<1>6. ASSUME NEW g \in Above(h, type) PROVE g \in Indexed(type) /\ Rank(g, type) \in 0 .. k - 1
  <2>1. g \in Indexed(type) /\ Precedes(g, h)
    BY <1>6 DEF Above
  <2>2. Rank(g, type) \in Nat /\ Rank(g, type) < n
    BY <1>3, <2>1, RankGrows, Ranks
  <2> QED
    BY <1>4, <1>5, <2>1, <2>2
<1>7. Cardinality(Above(h, type)) <= k - 0
  BY <1>6, RanksBetween
<1>8. Rank(h, type) = Cardinality(Above(h, type))
  BY Ranks
<1> QED
  BY <1>3, <1>5, <1>6, <1>7, <1>8

(* The rows of ranks below k are k, if a row has rank k or more. *)
Below(type, k) == {f \in Indexed(type) : Rank(f, type) < k}

LEMMA BelowIs ==
    ASSUME index \in [Files -> Rows], NEW type, NEW k \in Nat
    PROVE  /\ IsFiniteSet(Below(type, k)) /\ Cardinality(Below(type, k)) \in Nat
           /\ Cardinality(Below(type, k)) <= k
           /\ (\E f \in Indexed(type) : Rank(f, type) >= k) => Cardinality(Below(type, k)) = k
<1>1. /\ Below(type, k) \subseteq Indexed(type)
      /\ \A f \in Below(type, k) : Rank(f, type) \in 0 .. k - 1
  BY Ranks DEF Below
<1>2. /\ IsFiniteSet(Below(type, k)) /\ Cardinality(Below(type, k)) \in Nat
      /\ Cardinality(Below(type, k)) <= k
  BY <1>1, RanksBetween
<1>3. ASSUME NEW f \in Indexed(type), Rank(f, type) >= k
      PROVE  Cardinality(Below(type, k)) >= k
  <2>1. PICK h \in Indexed(type) :
          Rank(h, type) = k /\ \A g \in Above(h, type) : Rank(g, type) < k
    BY <1>3, NoGaps
  <2>2. Above(h, type) \subseteq Below(type, k)
    BY <2>1 DEF Above, Below
  <2>3. Cardinality(Above(h, type)) <= Cardinality(Below(type, k))
    BY <1>2, <2>2, FS_Subset
  <2> QED
    BY <1>2, <2>1, <2>3, Ranks
<1> QED
  BY <1>2, <1>3

(* A page has at most Limit rows; if a row of its rank or after is not on  *)
(* it, it is not empty, and the rows before it and on it are not all.      *)
LEMMA PageIs ==
    ASSUME index \in [Files -> Rows], NEW type, NEW offset \in Nat
    PROVE  LET page == Page(type, offset)
               count == Cardinality(page)
           IN  /\ IsFiniteSet(page) /\ page \subseteq Indexed(type)
               /\ count \in Nat /\ count <= Limit
               /\ \A f \in page : Rank(f, type) >= offset /\ Rank(f, type) < offset + count
               /\ \A f \in Indexed(type) : Rank(f, type) >= offset /\ f \notin page =>
                    /\ count > 0 /\ offset + count < Cardinality(Indexed(type))
                    /\ Rank(f, type) >= offset + count
<1> DEFINE page == Page(type, offset)
           count == Cardinality(page)
<1>1. Limit \in Nat \ {0}
  BY LibraryAssumption
<1>2. page \subseteq Indexed(type) /\ \A f \in page : Rank(f, type) \in offset .. offset + Limit - 1
  BY DEF Page
<1>3. \A f \in Indexed(type) : Rank(f, type) \in Nat
  BY Ranks
<1>4. IsFiniteSet(page) /\ count \in Nat /\ count <= Limit
  <2>1. PICK b \in Nat : b = offset + Limit /\ offset <= b
    BY <1>1
  <2> HIDE DEF page
  <2>2. \A f \in page : Rank(f, type) \in offset .. b - 1
    BY <1>1, <1>2, <2>1
  <2>3. IsFiniteSet(page) /\ Cardinality(page) \in Nat /\ Cardinality(page) <= b - offset
    BY <1>2, <2>1, <2>2, RanksBetween
  <2> QED
    BY <1>1, <2>1, <2>3
<1>5. /\ IsFiniteSet(Below(type, offset)) /\ Cardinality(Below(type, offset)) \in Nat
      /\ Cardinality(Below(type, offset)) <= offset
      /\ (\E f \in Indexed(type) : Rank(f, type) >= offset) => Cardinality(Below(type, offset)) = offset
  BY BelowIs
<1>6. Below(type, offset) \cap page = {}
  BY <1>2 DEF Below
<1>7. \A f \in Indexed(type) : Rank(f, type) < offset + Limit => f \in Below(type, offset) \cup page
  BY <1>1, <1>3 DEF Below, Page
<1> HIDE DEF page
<1>8. IsFiniteSet(Below(type, offset) \cup page)
      /\ Cardinality(Below(type, offset) \cup page) = Cardinality(Below(type, offset)) + count
  BY <1>4, <1>5, <1>6, FS_Union, FS_EmptySet
<1>9. ASSUME NEW f \in page PROVE Rank(f, type) < offset + count
  <2>1. f \in Indexed(type) /\ Rank(f, type) < offset + Limit /\ Rank(f, type) >= offset
    BY <1>1, <1>2, <1>3
  <2> DEFINE T == (Below(type, offset) \cup page) \ {f}
  <2>2. Above(f, type) \subseteq T
    <3>1. ASSUME NEW g \in Above(f, type) PROVE g \in Indexed(type) /\ Rank(g, type) < Rank(f, type)
      BY <2>1, <3>1, RankGrows DEF Above
    <3>2. ASSUME NEW g \in Above(f, type) PROVE g \in T
      BY <1>1, <1>3, <1>7, <2>1, <3>1, <3>2
    <3> QED
      BY <3>2
  <2>3. /\ IsFiniteSet(T)
        /\ Cardinality(T) = Cardinality(Below(type, offset)) + count - 1
    <3>1. f \in Below(type, offset) \cup page
      BY <1>9
    <3>2. IsFiniteSet(T) /\ Cardinality(T) = Cardinality(Below(type, offset) \cup page) - 1
      BY <1>8, <3>1, FS_RemoveElement
    <3> QED
      BY <1>4, <1>5, <1>8, <3>2
  <2> HIDE DEF T
  <2>4. Cardinality(Above(f, type)) <= Cardinality(T)
    BY <2>2, <2>3, FS_Subset
  <2>5. Rank(f, type) = Cardinality(Above(f, type)) /\ Rank(f, type) \in Nat
    BY Ranks
  <2> QED
    BY <1>4, <1>5, <2>3, <2>4, <2>5
<1>10. ASSUME NEW f \in Indexed(type), Rank(f, type) >= offset, f \notin page
       PROVE  /\ count > 0 /\ offset + count < Cardinality(Indexed(type))
              /\ Rank(f, type) >= offset + count
  <2>1. Rank(f, type) >= offset + Limit /\ f \notin Below(type, offset) \cup page
    BY <1>1, <1>3, <1>7, <1>10 DEF Below
  <2>2. Cardinality(Below(type, offset)) = offset
    BY <1>5, <1>10
  <2>3. count > 0
    <3>1. PICK h \in Indexed(type) : Rank(h, type) = offset
      BY <1>10, NoGaps
    <3>2. h \in page
      BY <1>1, <1>3, <1>7, <3>1 DEF Below
    <3> QED
      BY <1>4, <3>2, FS_EmptySet
  <2> DEFINE T == Below(type, offset) \cup page
  <2>4. IsFiniteSet(T \cup {f}) /\ Cardinality(T \cup {f}) = offset + count + 1
    BY <1>8, <2>1, <2>2, FS_AddElement
  <2>5. T \cup {f} \subseteq Indexed(type)
    BY <1>2 DEF Below
  <2> HIDE DEF T
  <2>6. Cardinality(T \cup {f}) <= Cardinality(Indexed(type)) /\ Cardinality(Indexed(type)) \in Nat
    BY <2>5, Ranks, FS_Subset, FS_CardinalityType
  <2> QED
    BY <1>1, <1>3, <1>4, <2>1, <2>3, <2>4, <2>6
<1>11. page = Page(type, offset)
  BY DEF page
<1> QED
  BY <1>2, <1>3, <1>4, <1>9, <1>10, <1>11

----------------------------------------------------------------------------
(* The pages *)

(* The order of the rows is the same. *)
LEMMA RowsStay ==
    ASSUME FolderInv, PagerInv, SameRows, pager' = pager
    PROVE  PagerInv'
<1>1. \A type : Indexed(type)' = Indexed(type)
  BY DEF SameRows, Indexed
<1>2. \A f, g \in Files : Precedes(f, g)' <=> Precedes(f, g)
  BY DEF SameRows, Precedes
<1>3. \A type : \A f \in Files : Rank(f, type)' = Rank(f, type)
  <2>1. ASSUME NEW f \in Files, NEW type PROVE Rank(f, type)' = Rank(f, type)
    <3>1. {g \in Indexed(type)' : Precedes(g, f)'} = {g \in Indexed(type) : Precedes(g, f)}
      <4>1. Indexed(type) \subseteq Files
        BY DEF Indexed
      <4> QED
        BY <1>1, <1>2, <4>1
    <3> QED
      BY <3>1 DEF Rank
  <2> QED
    BY <2>1
<1>4. pager.start \subseteq Files /\ pager.rows \subseteq Files
  BY DEF PagerInv, PagerTypes
<1>5. Ahead => Ahead'
  BY <1>1, <1>3, <1>4 DEF Ahead
<1>6. Behind => Behind'
  BY <1>1, <1>3, <1>4 DEF Behind
<1>7. PagerTypes' /\ PagesCoverIndex' /\ (Paging' <=> Paging)
  BY DEF PagerInv, PagerTypes, PagesCoverIndex, Paging
<1> QED
  BY <1>5, <1>6, <1>7 DEF PagerInv

(* A step of the scanner that notes what it does to the pages. *)
Noted(changed, spoiled) ==
  pager' = [pager EXCEPT !.changed = pager.changed \/ changed, !.spoiled = pager.spoiled \/ spoiled]

LEMMA NotedFields ==
    ASSUME PagerInv, NEW changed \in BOOLEAN, NEW spoiled \in BOOLEAN, Noted(changed, spoiled)
    PROVE  /\ pager'.at = pager.at /\ pager'.type = pager.type /\ pager'.offset = pager.offset
           /\ pager'.total = pager.total /\ pager'.rows = pager.rows
           /\ pager'.shown = pager.shown /\ pager'.start = pager.start
           /\ pager'.changed <=> pager.changed \/ changed
           /\ pager'.spoiled <=> pager.spoiled \/ spoiled
           /\ PagerTypes'
  BY DEF PagerInv, PagerTypes, Noted

LEMMA NotedKeeps ==
    ASSUME PagerInv, NEW changed \in BOOLEAN, NEW spoiled \in BOOLEAN, Noted(changed, spoiled),
           ~changed => ~spoiled,
           Paging => changed,
           Paging /\ ~pager.spoiled /\ ~spoiled /\ Ahead => Ahead'
    PROVE  PagerInv'
<1>1. /\ pager'.at = pager.at /\ pager'.rows = pager.rows /\ pager'.shown = pager.shown
      /\ pager'.start = pager.start
      /\ pager'.changed <=> pager.changed \/ changed
      /\ pager'.spoiled <=> pager.spoiled \/ spoiled
  BY NotedFields
<1>2. PagerTypes'
  BY NotedFields
<1>3. Paging' <=> Paging
  BY <1>1 DEF Paging
<1>4. PagesCoverIndex'
  BY <1>1 DEF PagerInv, PagesCoverIndex
<1>5. ~pager'.changed => ~pager'.spoiled
  BY <1>1 DEF PagerInv
<1>6. Paging' => (~pager'.spoiled => Ahead') /\ (~pager'.changed => Behind')
  BY <1>1, <1>3 DEF PagerInv
<1> QED
  BY <1>2, <1>4, <1>5, <1>6 DEF PagerInv

LEMMA UpsertPages ==
    ASSUME FolderInv, PagerInv, Upsert
    PROVE  PagerInv'
<1> DEFINE row == [stamp |-> scan.stamp, captured |-> scan.metadata.captured,
                   metadata |-> scan.metadata.metadata, thumbnail |-> "missing"]
           moves == index[Current] # NoRow /\ index[Current].captured # row.captured
           spoiled == (Paging /\ moves) \/ pager.at = "select"
<1>1. /\ scan.at = "upsert" /\ index' = [index EXCEPT ![Current] = row]
      /\ pager' = [pager EXCEPT !.changed = pager.changed \/ Paging,
                                !.spoiled = pager.spoiled \/ (Paging /\ moves) \/ pager.at = "select"]
  BY DEF Upsert
<1>2. index \in [Files -> Rows] /\ index' \in [Files -> Rows] /\ ScanTypes
  BY UpsertKeeps DEF FolderInv, FolderTypes
<1>3. Current \in Files
  BY <1>1, <1>2, CurrentOf DEF Handling
<1>4. row # NoRow
  <2>1. row.metadata = scan.metadata.metadata
    OBVIOUS
  <2>2. scan.metadata.metadata # ""
    BY <1>1, <1>2 DEF ScanTypes, Probed
  <2> HIDE DEF row
  <2> QED
    BY <2>1, <2>2, NoRowTyped
<1>5. row.captured = scan.metadata.captured
  OBVIOUS
<1> HIDE DEF row
<1>6. /\ index'[Current] = row /\ \A f \in Files \ {Current} : index'[f] = index[f]
  BY <1>1, <1>2, <1>3
<1>7. Noted(Paging, spoiled) /\ Paging \in BOOLEAN /\ spoiled \in BOOLEAN
  <2> HIDE DEF moves
  <2>1. pager.spoiled \/ spoiled <=> pager.spoiled \/ (Paging /\ moves) \/ pager.at = "select"
    OBVIOUS
  <2> QED
    BY <1>1, <2>1 DEF Noted, Paging
<1>8. ASSUME Paging, ~pager.spoiled, ~spoiled, Ahead PROVE Ahead'
  <2>1. pager'.start = pager.start /\ pager'.rows = pager.rows /\ pager'.type = pager.type
        /\ pager'.offset = pager.offset /\ pager'.at = "count"
    BY <1>7, <1>8, NotedFields DEF Paging
  <2>2. ~moves
    BY <1>8
  <2>3. Indexed(pager.type) \subseteq Indexed(pager.type)' /\ Indexed(pager.type) \subseteq Files
    BY <1>4, <1>6, <2>1 DEF Indexed
  <2>4. ASSUME NEW f \in Indexed(pager.type) PROVE index'[f].captured = index[f].captured
    BY <1>6, <2>2 DEF Indexed
  <2>5. ASSUME NEW f \in Indexed(pager.type)
        PROVE  Rank(f, pager.type) \in Nat /\ Rank(f, pager.type)' \in Nat
               /\ Rank(f, pager.type) <= Rank(f, pager.type)'
    <3>1. /\ IsFiniteSet(Above(f, pager.type)) /\ Rank(f, pager.type) \in Nat
          /\ Rank(f, pager.type) = Cardinality(Above(f, pager.type))
      BY <1>2, Ranks
    <3>2. /\ Above(f, pager.type)' \subseteq Files /\ IsFiniteSet(Files)
          /\ Rank(f, pager.type)' = Cardinality(Above(f, pager.type)')
      BY LibraryAssumption DEF Above, Indexed, Rank
    <3>3. Above(f, pager.type) \subseteq Above(f, pager.type)'
      <4>1. ASSUME NEW g \in Above(f, pager.type) PROVE g \in Above(f, pager.type)'
        <5>1. g \in Indexed(pager.type) /\ Precedes(g, f)
          BY <4>1 DEF Above
        <5>2. Precedes(g, f)'
          BY <2>4, <5>1 DEF Precedes
        <5>3. pager.type' = pager.type /\ g \in Indexed(pager.type)'
          BY <2>1, <2>3, <5>1
        <5> QED
          BY <5>2, <5>3 DEF Above
      <4> QED
        BY <4>1
    <3>4. IsFiniteSet(Above(f, pager.type)') /\ Cardinality(Above(f, pager.type)') \in Nat
      BY <3>2, FS_Subset, FS_CardinalityType
    <3> QED
      BY <3>1, <3>2, <3>3, <3>4, FS_Subset
  <2>6. pager.start \subseteq Indexed(pager.type)
    BY <1>8 DEF Ahead
  <2>7. pager'.start \subseteq Indexed(pager.type)'
    BY <2>1, <2>3, <2>6
  <2>8. ASSUME NEW f \in pager'.start \ pager'.rows PROVE Rank(f, pager.type)' >= pager'.offset
    <3>1. f \in pager.start \ pager.rows /\ f \in Indexed(pager.type)
      BY <2>1, <2>6, <2>8
    <3>2. Rank(f, pager.type) >= pager.offset
      BY <1>8, <3>1 DEF Ahead
    <3>3. Rank(f, pager.type) <= Rank(f, pager.type)'
          /\ Rank(f, pager.type) \in Nat /\ Rank(f, pager.type)' \in Nat /\ pager.offset \in Nat
      BY <2>5, <3>1 DEF PagerInv, PagerTypes
    <3> QED
      BY <2>1, <3>2, <3>3
  <2> QED
    BY <2>1, <2>7, <2>8 DEF Ahead
<1>9. ~Paging => ~spoiled
  BY DEF Paging
<1> HIDE DEF spoiled
<1> QED
  BY <1>7, <1>8, <1>9, NotedKeeps

LEMMA RemovePages ==
    ASSUME FolderInv, PagerInv, RemoveMissing
    PROVE  PagerInv'
<1> DEFINE gone == {f \in Files \ scan.present : index[f] # NoRow}
           removes == Paging /\ gone # {}
<1>1. /\ index' = [f \in Files |-> IF f \in gone THEN NoRow ELSE index[f]]
      /\ pager' = [pager EXCEPT !.changed = pager.changed \/ removes,
                                !.spoiled = pager.spoiled \/ removes]
  BY DEF RemoveMissing
<1>2. CASE gone = {}
  <2>1. index' = index
    BY <1>1, <1>2 DEF FolderInv, FolderTypes
  <2>2. removes <=> FALSE
    BY <1>2
  <2> HIDE DEF removes
  <2>3. pager' = pager
    BY <1>1, <2>2 DEF PagerInv, PagerTypes
  <2> QED
    BY <2>1, <2>3, StatusIsApart, RowsStay
<1>3. CASE gone # {}
  <2>1. removes <=> Paging
    BY <1>3
  <2>2. removes \in BOOLEAN
    BY DEF Paging
  <2> HIDE DEF removes
  <2>3. Noted(removes, removes)
    BY <1>1 DEF Noted
  <2> QED
    BY <2>1, <2>2, <2>3, NotedKeeps
<1> QED
  BY <1>2, <1>3

LEMMA StartPages ==
    ASSUME FolderInv, PagerInv, NEW type \in {"all", "photo"}, StartPaging(type)
    PROVE  PagerInv'
<1>1. /\ pager' = [IdlePager EXCEPT !.at = "count", !.type = type, !.start = Indexed(type)]
      /\ index' = index
  BY DEF StartPaging
<1>2. Indexed(type) \subseteq Files /\ Indexed(type)' = Indexed(type)
  BY <1>1 DEF Indexed
<1>3. /\ pager'.at = "count" /\ pager'.type = type /\ pager'.start = Indexed(type)
      /\ pager'.offset = 0 /\ pager'.rows = {} /\ pager'.shown = 0
      /\ pager'.spoiled = FALSE /\ pager'.changed = FALSE
  BY <1>1 DEF IdlePager
<1>4. PagerTypes'
  BY <1>1, <1>2 DEF IdlePager, PagerTypes
<1>5. \A f : Rank(f, type)' = Rank(f, type) /\ Rank(f, type) \in Nat
  <2>1. \A f : Rank(f, type)' = Rank(f, type)
    BY <1>1 DEF Rank, Indexed, Precedes
  <2> QED
    BY <2>1, Ranks DEF FolderInv, FolderTypes
<1>6. Indexed(pager.type)' = Indexed(type) /\ \A f : Rank(f, pager.type)' = Rank(f, type)
  BY <1>1, <1>3 DEF Rank, Indexed, Precedes
<1>7. Ahead'
  BY <1>3, <1>5, <1>6 DEF Ahead
<1>8. Behind'
  BY <1>3, <1>6, FS_EmptySet DEF Behind
<1> QED
  BY <1>3, <1>4, <1>7, <1>8 DEF PagerInv, PagesCoverIndex

LEMMA CountPages ==
    ASSUME FolderInv, PagerInv, CountRows
    PROVE  PagerInv'
<1> DEFINE total == Cardinality(Indexed(pager.type))
<1>1. /\ pager.at = "count" /\ index' = index
      /\ pager' = [pager EXCEPT !.at = "select", !.total = total]
  BY DEF CountRows
<1>2. total \in Nat
  BY Ranks, FS_CardinalityType DEF FolderInv, FolderTypes
<1>3. total = Cardinality(Indexed(pager.type))
  OBVIOUS
<1> HIDE DEF total
<1>4. /\ PagerTypes' /\ pager'.at = "select" /\ pager'.total = total
      /\ pager'.offset = pager.offset /\ pager'.rows = pager.rows /\ pager'.type = pager.type
      /\ pager'.shown = pager.shown /\ pager'.start = pager.start
      /\ pager'.changed = pager.changed /\ pager'.spoiled = pager.spoiled
  BY <1>1, <1>2 DEF PagerInv, PagerTypes
<1>5. Indexed(pager.type)' = Indexed(pager.type)
      /\ \A f : Rank(f, pager.type)' = Rank(f, pager.type)
  BY <1>1, <1>4 DEF Rank, Indexed, Precedes
<1>6. Ahead => Ahead'
  BY <1>3, <1>4, <1>5 DEF Ahead
<1>7. Behind => Behind'
  BY <1>4, <1>5 DEF Behind
<1> QED
  BY <1>1, <1>4, <1>6, <1>7 DEF PagerInv, PagesCoverIndex, Paging

LEMMA SelectPages ==
    ASSUME FolderInv, PagerInv, SelectRows
    PROVE  PagerInv'
<1> DEFINE all == Indexed(pager.type)
           rows == Page(pager.type, pager.offset)
           count == Cardinality(rows)
           next == NextOffset(pager.offset, count, pager.total)
           at == IF next = 0 THEN "done" ELSE "count"
           rank(f) == Rank(f, pager.type)
<1>1. /\ pager.at = "select" /\ index' = index
      /\ pager' = [pager EXCEPT !.rows = pager.rows \cup rows, !.shown = pager.shown + count,
                                !.offset = next, !.at = at]
  BY DEF SelectRows
<1>2. PagerTypes /\ pager.offset \in Nat /\ pager.total \in Nat /\ pager.shown \in Nat
      /\ pager.rows \subseteq Files
  BY DEF PagerInv, PagerTypes
<1>3. /\ IsFiniteSet(rows) /\ rows \subseteq all
      /\ count \in Nat
      /\ \A f \in rows : rank(f) >= pager.offset /\ rank(f) < pager.offset + count
      /\ \A f \in all : rank(f) >= pager.offset /\ f \notin rows =>
           /\ count > 0 /\ pager.offset + count < Cardinality(all)
           /\ rank(f) >= pager.offset + count
  BY <1>2, PageIs DEF FolderInv, FolderTypes
<1>4. /\ IsFiniteSet(all) /\ all \subseteq Files /\ \A f : rank(f) \in Nat
  BY Ranks DEF FolderInv, FolderTypes
<1>5. next = IF pager.offset + count < pager.total THEN pager.offset + count ELSE 0
  BY DEF NextOffset
<1> HIDE DEF all, rows, count, next
<1>6. next \in Nat
  BY <1>2, <1>3, <1>5
<1>7. at \in {"count", "done"} /\ (at = "done" <=> next = 0)
  OBVIOUS
<1> HIDE DEF at
<1>8. /\ PagerTypes' /\ pager'.at = at /\ pager'.offset = next
      /\ pager'.rows = pager.rows \cup rows /\ pager'.shown = pager.shown + count
      /\ pager'.type = pager.type /\ pager'.start = pager.start
      /\ pager'.changed = pager.changed /\ pager'.spoiled = pager.spoiled
  <2> DEFINE shown == pager.shown + count
             seen == pager.rows \cup rows
  <2>1. pager' = [pager EXCEPT !.rows = seen, !.shown = shown, !.offset = next, !.at = at]
    BY <1>1
  <2>2. /\ shown \in Nat /\ seen \subseteq Files
        /\ at \in {"idle", "count", "select", "done"}
    BY <1>2, <1>3, <1>4, <1>7
  <2>3. shown = pager.shown + count /\ seen = pager.rows \cup rows
    OBVIOUS
  <2> HIDE DEF shown, seen
  <2>4. /\ PagerTypes' /\ pager'.at = at /\ pager'.offset = next
        /\ pager'.rows = seen /\ pager'.shown = shown
        /\ pager'.type = pager.type /\ pager'.start = pager.start
        /\ pager'.changed = pager.changed /\ pager'.spoiled = pager.spoiled
    BY <1>2, <1>6, <2>1, <2>2 DEF PagerTypes
  <2> QED
    BY <2>3, <2>4
<1>9. Indexed(pager.type)' = all /\ \A f : Rank(f, pager.type)' = rank(f)
  BY <1>1, <1>8 DEF Rank, Indexed, Precedes, all
<1> HIDE DEF rank
<1>10. ASSUME ~pager.spoiled
       PROVE  /\ pager.start \subseteq all
              /\ next # 0 => \A f \in pager.start \ pager'.rows : rank(f) >= next
              /\ next = 0 => pager.start \subseteq pager'.rows
  <2>1. /\ pager.start \subseteq all /\ pager.total = Cardinality(all)
        /\ \A f \in pager.start \ pager.rows : rank(f) >= pager.offset
    BY <1>1, <1>10 DEF PagerInv, Paging, Ahead, all, rank
  <2>2. ASSUME NEW f \in pager.start \ pager'.rows
        PROVE  next = pager.offset + count /\ next # 0 /\ rank(f) >= next
    <3>1. f \in all /\ rank(f) >= pager.offset /\ f \notin rows
      BY <1>8, <2>1, <2>2
    <3>2. /\ count > 0 /\ pager.offset + count < pager.total /\ rank(f) >= pager.offset + count
      BY <1>3, <2>1, <3>1
    <3> QED
      BY <1>2, <1>3, <1>5, <3>2
  <2> QED
    BY <2>1, <2>2
<1>11. ASSUME ~pager.changed
       PROVE  /\ pager.start = all /\ pager'.rows \subseteq all
              /\ next # 0 => \A f \in pager'.rows : rank(f) < next
              /\ pager'.shown = Cardinality(pager'.rows)
  <2>1. /\ pager.start = all /\ pager.rows \subseteq all
        /\ \A f \in pager.rows : rank(f) < pager.offset
        /\ pager.shown = Cardinality(pager.rows)
    BY <1>1, <1>11 DEF PagerInv, Paging, Behind, all, rank
  <2>2. pager.rows \cap rows = {}
    BY <1>2, <1>3, <1>4, <2>1
  <2>3. IsFiniteSet(pager.rows)
    BY <1>4, <2>1, FS_Subset
  <2>4. Cardinality(pager.rows \cup rows) = Cardinality(pager.rows) + count
    <3>1. Cardinality(pager.rows \cup rows) = Cardinality(pager.rows) + Cardinality(rows)
                                              - Cardinality(pager.rows \cap rows)
      BY <1>3, <2>3, FS_Union
    <3>2. Cardinality(pager.rows \cap rows) = 0
      BY <2>2, FS_EmptySet
    <3>3. Cardinality(rows) = count /\ Cardinality(pager.rows) \in Nat
      BY <2>3, FS_CardinalityType DEF count
    <3> QED
      BY <1>3, <3>1, <3>2, <3>3
  <2>5. ASSUME next # 0, NEW f \in pager'.rows PROVE rank(f) < next
    <3>1. next = pager.offset + count
      BY <1>5, <2>5
    <3>2. CASE f \in pager.rows
      BY <1>2, <1>3, <1>4, <2>1, <3>1, <3>2
    <3>3. CASE f \in rows
      BY <1>3, <3>1, <3>3
    <3> QED
      BY <1>8, <2>5, <3>2, <3>3
  <2> QED
    BY <1>3, <1>8, <2>1, <2>4, <2>5
<1>12. ASSUME next # 0 PROVE PagerInv'
  <2>1. pager'.at = "count"
    BY <1>7, <1>8, <1>12
  <2>2. ~pager'.spoiled => Ahead'
    BY <1>8, <1>9, <1>10, <1>12, <2>1 DEF Ahead
  <2>3. ~pager'.changed => Behind'
    BY <1>8, <1>9, <1>11, <1>12 DEF Behind
  <2> QED
    BY <1>8, <2>1, <2>2, <2>3 DEF PagerInv, PagesCoverIndex
<1>13. ASSUME next = 0 PROVE PagerInv'
  <2>1. pager'.at = "done"
    BY <1>7, <1>8, <1>13
  <2>2. ~pager.changed => ~pager.spoiled
    BY DEF PagerInv
  <2>3. PagesCoverIndex'
    BY <1>8, <1>10, <1>11, <1>13, <2>2 DEF PagesCoverIndex
  <2> QED
    BY <1>8, <2>1, <2>2, <2>3 DEF PagerInv, Paging
<1> QED
  BY <1>12, <1>13

LEMMA PagerInit ==
    Init => PagerInv
<1> SUFFICES ASSUME Init PROVE PagerInv
  OBVIOUS
<1>1. pager = IdlePager
  BY DEF Init
<1> QED
  BY <1>1 DEF IdlePager, PagerInv, PagerTypes, Paging, PagesCoverIndex

LEMMA PagerStep ==
    FolderInv /\ PagerInv /\ [Next]_vars => PagerInv'
<1> SUFFICES ASSUME FolderInv, PagerInv, [Next]_vars PROVE PagerInv'
  OBVIOUS
<1>1. CASE Upsert \/ RemoveMissing \/ CountRows \/ SelectRows
  BY <1>1, UpsertPages, RemovePages, CountPages, SelectPages
<1>2. ASSUME NEW type \in {"all", "photo"}, StartPaging(type) PROVE PagerInv'
  BY <1>2, StartPages
<1>3. ASSUME \/ \E f \in Files : Change(f)
             \/ Refresh \/ ListRoot \/ Stat \/ StatFails \/ ProbeFile \/ ProbeFails
             \/ RefreshFails \/ UnlinkOld \/ UnlinkRemoved
             \/ UNCHANGED vars
      PROVE  PagerInv'
  <2>1. index' = index /\ pager' = pager
    BY <1>3 DEF Change, Refresh, ListRoot, Stat, StatFails, ProbeFile, ProbeFails, RefreshFails,
                UnlinkOld, UnlinkRemoved,
                vars
  <2> QED
    BY <2>1, StatusIsApart, RowsStay
<1>4. ASSUME NEW r \in Requests, Serve(r) PROVE PagerInv'
  BY <1>4, ServeIsApart, StatusIsApart, RowsStay
<1> QED
  BY <1>1, <1>2, <1>3, <1>4 DEF Next, Scan

(* A client that follows next_offset of GET /items to the end is shown     *)
(* every item that was there when it started, as long as none was removed  *)
(* or moved by a refresh while it paged and none was added between the     *)
(* count and the rows of a page; and if the refresh wrote nothing, each    *)
(* once.                                                                   *)
THEOREM PagesAreComplete == Spec => []PagesCoverIndex
<1>1. FolderInv /\ PagerInv /\ [Next]_vars => (FolderInv /\ PagerInv)'
  BY FolderStep, PagerStep
<1>2. PagerInv => PagesCoverIndex
  BY DEF PagerInv
<1> QED
  BY <1>1, <1>2, FolderInit, PagerInit, PTL DEF Spec

=============================================================================
