---------------------------- MODULE MediaLibrary ----------------------------
(***************************************************************************)
(* The media service (home_media): a scanner that brings an SQLite index   *)
(* up to date with two folders, clients that page through the index, and   *)
(* requests that make thumbnails on demand.  All of them run in threads of *)
(* one process; the folders are changed from outside.                      *)
(*                                                                         *)
(* A file is the number of its version, 0 when there is none; a later      *)
(* version has a later modification time.  A file that is being written    *)
(* has writers: a thumbnail is whole once it has none.                     *)
(***************************************************************************)
EXTENDS Naturals, Sequences, FiniteSets, SequencesExt

CONSTANTS
  Roots,         \* the files of the photo root and of the video root, sorted
  Kind,          \* "photo", "video", "unsupported" or "escaping" (a symlink)
  Dated,         \* the capture time in the metadata of <<file, version>>, or 0
  Broken,        \* <<file, version>> that can never be decoded
  Starts,        \* the folders to start from
  Requests,      \* thumbnail requests
  Limit,         \* rows of a page
  MaxVersion,    \* the last version of a file
  Plans          \* bounds: changes, refreshes, faults, thumbnail requests (serves),
                 \* and whether a client pages

Files == ToSet(Roots[1]) \cup ToSet(Roots[2])

ASSUME LibraryAssumption ==
  /\ Len(Roots) = 2 /\ Roots[1] \in Seq(Files) /\ Roots[2] \in Seq(Files)
  /\ IsFiniteSet(Files) /\ IsFiniteSet(Requests)
  /\ Limit \in Nat \ {0} /\ MaxVersion \in Nat
  /\ Starts \subseteq [Files -> 0 .. MaxVersion]
  /\ Dated \in [Files \X (1 .. MaxVersion) -> Nat]

Position(f) == CHOOSE i \in 1 .. Len(Roots[1]) + Len(Roots[2]) : (Roots[1] \o Roots[2])[i] = f

VARIABLES
  plan,          \* what is left of the chosen bounds
  disk,          \* the version of each file
  past,          \* the versions each file had before
  misread,       \* <<file, version>> of which a probe failed
  index,         \* the row of each file
  scan,          \* the refresh under way
  settled,       \* a refresh met every file of the folders as they still are
  pager,         \* the client that pages
  req,           \* the thumbnail requests
  locks,         \* the lock stored for each file, 0 for none
  temporary, target,      \* the .tmp and .jpg file of each thumbnail
  made, failed, dropped   \* thumbnails begun, failures, and thumbnails unlinked

vars == <<plan, disk, past, misread, index, scan, settled, pager, req, locks, temporary, target,
          made, failed, dropped>>
thumbs == <<req, locks, temporary, target, made, failed, dropped>>

NoRow == [stamp |-> 0, captured |-> 0, metadata |-> "", thumbnail |-> ""]
NoFile == [writers |-> {}, versions |-> {}]
IdleScan == [at |-> "idle", root |-> 0, queue |-> {}, present |-> {}, existing |-> <<>>,
             stamp |-> 0, metadata |-> NoRow, removed |-> <<>>, clean |-> TRUE]
IdlePager == [at |-> "idle", offset |-> 0, total |-> 0, rows |-> {}, shown |-> 0, start |-> {},
              type |-> "all", spoiled |-> FALSE, changed |-> FALSE]
IdleRequest == [at |-> "idle", file |-> "", lock |-> 0, version |-> 0, result |-> ""]

Init ==
  /\ plan \in Plans
  /\ disk \in Starts /\ past = [f \in Files |-> {}] /\ misread = {}
  /\ index = [f \in Files |-> NoRow]
  /\ scan = IdleScan /\ settled = FALSE
  /\ pager = IdlePager
  /\ req = [r \in Requests |-> IdleRequest]
  /\ locks = [f \in Files |-> 0]
  /\ temporary = [f \in Files |-> NoFile] /\ target = [f \in Files |-> NoFile]
  /\ made = [f \in Files |-> 0] /\ failed = [f \in Files |-> 0]
  /\ dropped = [f \in Files |-> 0]

(* The folders change: a file is added, replaced or removed. *)
Change(f) ==
  /\ plan.changes > 0
  /\ \E v \in {0} \cup (disk[f] + 1) .. MaxVersion : v # disk[f] /\ disk' = [disk EXCEPT ![f] = v]
  /\ past' = [past EXCEPT ![f] = @ \cup {disk[f]}]
  /\ plan' = [plan EXCEPT !.changes = @ - 1]
  /\ settled' = FALSE
  /\ scan' = [scan EXCEPT !.clean = FALSE]
  /\ UNCHANGED <<misread, index, pager, thumbs>>

----------------------------------------------------------------------------
(* What is known of a file.                                                *)

(* failed_metadata: nothing but the modification time. *)
FailedMetadata(v) == [captured |-> v, metadata |-> "error"]

(* probe: the capture time of the metadata, else the modification time. *)
Probe(f, v) ==
  IF <<f, v>> \in Broken THEN FailedMetadata(v)
  ELSE [captured |-> IF Dated[<<f, v>>] # 0 THEN Dated[<<f, v>>] ELSE v, metadata |-> "ok"]

(* What a probe of a version has found, or the failure of one. *)
Readings(f, v) ==
  {Probe(f, v)} \cup IF <<f, v>> \in misread THEN {FailedMetadata(v)} ELSE {}

(* resolve_media_path: the file is there and inside its root. *)
ResolveMediaPath(f) == disk[f] # 0 /\ Kind[f] # "escaping"

Indexed(type) == {f \in Files : index[f] # NoRow /\ type \in {"all", Kind[f]}}

(* ORDER BY captured_at DESC, id DESC: the rows that come before one. *)
Precedes(f, g) == \/ index[f].captured > index[g].captured
                  \/ index[f].captured = index[g].captured /\ Position(f) > Position(g)
Rank(f, type) == Cardinality({g \in Indexed(type) : Precedes(g, f)})

(* LIMIT and OFFSET *)
Page(type, offset) == {f \in Indexed(type) : Rank(f, type) \in offset .. offset + Limit - 1}

----------------------------------------------------------------------------
(* MediaScanner.refresh, one step per statement that meets other threads.  *)

(* A second refresh is refused while one is under way. *)
Refresh ==
  /\ scan.at = "idle" /\ plan.refreshes > 0
  /\ plan' = [plan EXCEPT !.refreshes = @ - 1]
  /\ scan' = [IdleScan EXCEPT !.at = "list", !.existing = index]
  /\ settled' = FALSE
  /\ UNCHANGED <<disk, past, misread, index, pager, thumbs>>

(* The next root is listed as a whole before its first file is looked at. *)
ListRoot ==
  /\ scan.at = "list"
  /\ IF scan.root = Len(Roots) THEN scan' = [scan EXCEPT !.at = "prune"]
     ELSE LET files == Roots[scan.root + 1]
              listed == {i \in 1 .. Len(files) : disk[files[i]] # 0}
          IN  scan' = [scan EXCEPT !.root = @ + 1, !.queue = listed,
                                   !.at = IF listed = {} THEN "list" ELSE "stat"]
  /\ UNCHANGED <<plan, disk, past, misread, index, settled, pager, thumbs>>

(* The place of the next file among those of its root. *)
First(s) == CHOOSE i \in s.queue : \A j \in s.queue : i <= j
Current == Roots[scan.root][First(scan)]

NextFile(s) == [s EXCEPT !.queue = @ \ {First(s)},
                         !.at = IF s.queue = {First(s)} THEN "list" ELSE "stat"]

(* Mutant: a file that was indexed before is taken to be unchanged. *)
UnchangedIfKnown(f) == scan.existing[f] # NoRow

Unchanged(f) == scan.existing[f] # NoRow /\ scan.existing[f].stamp = disk[f]

Stat ==
  /\ scan.at = "stat"
  /\ LET f == Current
         supported == disk[f] # 0 /\ Kind[f] \in {"photo", "video"}
         s == [scan EXCEPT !.present = @ \cup {f}, !.stamp = disk[f]]
     IN  scan' = IF ~supported THEN NextFile(scan)
                 ELSE IF Unchanged(f) THEN NextFile(s) ELSE [s EXCEPT !.at = "probe"]
  /\ UNCHANGED <<plan, disk, past, misread, index, settled, pager, thumbs>>

(* A file that cannot be resolved is counted, and is not present. *)
StatFails ==
  /\ scan.at = "stat" /\ plan.faults > 0
  /\ scan' = [NextFile(scan) EXCEPT !.clean = FALSE]
  /\ plan' = [plan EXCEPT !.faults = @ - 1]
  /\ UNCHANGED <<disk, past, misread, index, settled, pager, thumbs>>

(* The metadata of a file that has vanished cannot even be dated: the      *)
(* error leaves refresh(), which releases its lock.                        *)
ProbeFile ==
  /\ scan.at = "probe"
  /\ LET f == Current
     IN  scan' = IF disk[f] = 0 THEN IdleScan
                 ELSE [scan EXCEPT !.at = "upsert", !.metadata = Probe(f, disk[f])]
  /\ UNCHANGED <<plan, disk, past, misread, index, settled, pager, thumbs>>

(* ffprobe is missing or exceeds its time, or the file cannot be opened    *)
(* for a moment: the error is the metadata, and is stored like any other.  *)
ProbeFails ==
  /\ scan.at = "probe" /\ plan.faults > 0
  /\ plan' = [plan EXCEPT !.faults = @ - 1]
  /\ LET f == Current
     IN  /\ disk[f] # 0
         /\ misread' = misread \cup {<<f, disk[f]>>}
         /\ scan' = [scan EXCEPT !.at = "upsert", !.metadata = FailedMetadata(disk[f])]
  /\ UNCHANGED <<disk, past, index, settled, pager, thumbs>>

(* Any other error leaves refresh() where it is: what was written stays.   *)
RefreshFails ==
  /\ scan.at # "idle" /\ plan.faults > 0
  /\ plan' = [plan EXCEPT !.faults = @ - 1]
  /\ scan' = IdleScan
  /\ UNCHANGED <<disk, past, misread, index, settled, pager, thumbs>>

Paging == pager.at \in {"count", "select"}

Upsert ==
  /\ scan.at = "upsert"
  /\ LET f == Current
         row == [stamp |-> scan.stamp, captured |-> scan.metadata.captured,
                 metadata |-> scan.metadata.metadata, thumbnail |-> "missing"]
         moves == index[f] # NoRow /\ index[f].captured # row.captured
     IN  /\ index' = [index EXCEPT ![f] = row]
         /\ pager' = [pager EXCEPT !.changed = @ \/ Paging,
                                   !.spoiled = @ \/ (Paging /\ moves) \/ pager.at = "select"]
  /\ scan' = [scan EXCEPT !.at = "unlink"]
  /\ UNCHANGED <<plan, disk, past, misread, settled, thumbs>>

Drop(f) ==
  /\ target' = [target EXCEPT ![f] = NoFile]
  /\ dropped' = [dropped EXCEPT ![f] = IF target[f] = NoFile THEN @ ELSE @ + 1]
  /\ UNCHANGED <<req, locks, temporary, made, failed>>

UnlinkOld ==
  /\ scan.at = "unlink"
  /\ Drop(Current)
  /\ scan' = NextFile(scan)
  /\ UNCHANGED <<plan, disk, past, misread, index, settled, pager>>

RemoveMissing ==
  /\ scan.at = "prune"
  /\ LET gone == {f \in Files \ scan.present : index[f] # NoRow}
     IN  /\ index' = [f \in Files |-> IF f \in gone THEN NoRow ELSE index[f]]
         /\ scan' = [scan EXCEPT !.at = "clear", !.removed = SetToSeq(gone)]
         /\ pager' = [pager EXCEPT !.changed = @ \/ (Paging /\ gone # {}),
                                   !.spoiled = @ \/ (Paging /\ gone # {})]
  /\ UNCHANGED <<plan, disk, past, misread, settled, thumbs>>

UnlinkRemoved ==
  /\ scan.at = "clear"
  /\ IF scan.removed = <<>>
     THEN /\ scan' = IdleScan /\ settled' = scan.clean
          /\ UNCHANGED thumbs
     ELSE /\ Drop(Head(scan.removed)) /\ UNCHANGED settled
          /\ scan' = [scan EXCEPT !.removed = Tail(@)]
  /\ UNCHANGED <<plan, disk, past, misread, index, pager>>

----------------------------------------------------------------------------
(* GET /items, followed page by page.  The count and the rows are two      *)
(* statements with no transaction around them.                             *)

StartPaging(type) ==
  /\ pager.at = "idle" /\ plan.pages
  /\ pager' = [IdlePager EXCEPT !.at = "count", !.type = type, !.start = Indexed(type)]
  /\ UNCHANGED <<plan, disk, past, misread, index, scan, settled, thumbs>>

CountRows ==
  /\ pager.at = "count"
  /\ pager' = [pager EXCEPT !.at = "select", !.total = Cardinality(Indexed(pager.type))]
  /\ UNCHANGED <<plan, disk, past, misread, index, scan, settled, thumbs>>

(* Mutant: the last row is forgotten when it is alone on its page. *)
NextOffsetEarly(offset, count, total) == IF offset + count + 1 < total THEN offset + count ELSE 0

NextOffset(offset, count, total) == IF offset + count < total THEN offset + count ELSE 0

SelectRows ==
  /\ pager.at = "select"
  /\ LET rows == Page(pager.type, pager.offset)
         count == Cardinality(rows)
         next == NextOffset(pager.offset, count, pager.total)
     IN  pager' = [pager EXCEPT !.rows = @ \cup rows, !.shown = @ + count, !.offset = next,
                                !.at = IF next = 0 THEN "done" ELSE "count"]
  /\ UNCHANGED <<plan, disk, past, misread, index, scan, settled, thumbs>>

----------------------------------------------------------------------------
(* GET /items/{id}/thumbnail.                                              *)

Set(r, at) == req' = [req EXCEPT ![r].at = at]
Finish(r, result) == req' = [req EXCEPT ![r] = [IdleRequest EXCEPT !.at = "done",
                                                  !.file = req[r].file, !.result = result]]
Whole(file) == file.writers = {} /\ Cardinality(file.versions) = 1
Served(f) == IF Whole(target[f]) THEN "whole" ELSE "torn"

FindItem(r, f) ==
  /\ req[r].at = "idle" /\ plan.serves > 0
  /\ plan' = [plan EXCEPT !.serves = @ - 1]
  /\ IF index[f] = NoRow THEN req' = [req EXCEPT ![r].at = "done", ![r].result = "not_found"]
     ELSE req' = [req EXCEPT ![r].at = "look", ![r].file = f]
  /\ UNCHANGED <<disk, past, misread, index, scan, settled, pager, locks, temporary, target,
                 made, failed, dropped>>

Look(r) ==
  /\ req[r].at = "look"
  /\ IF target[req[r].file] # NoFile THEN Finish(r, Served(req[r].file)) ELSE Set(r, "guard")
  /\ UNCHANGED <<plan, disk, past, misread, index, scan, settled, pager, locks, temporary, target,
                 made, failed, dropped>>

InUse == {req[r].lock : r \in Requests} \cup {locks[f] : f \in Files}
FreshLock == CHOOSE n \in 1 .. Cardinality(Requests) + Cardinality(Files) + 1 : n \notin InUse

(* _locks.setdefault: the lock that is stored, or a new one. *)
GetLock(r) ==
  /\ req[r].at = "guard"
  /\ LET f == req[r].file
         lock == IF locks[f] # 0 THEN locks[f] ELSE FreshLock
     IN  /\ locks' = [locks EXCEPT ![f] = lock]
         /\ req' = [req EXCEPT ![r].at = "wait", ![r].lock = lock]
  /\ UNCHANGED <<plan, disk, past, misread, index, scan, settled, pager, temporary, target,
                 made, failed, dropped>>

Holds(r) == req[r].at \in {"again", "clean", "open", "write", "replace", "failed", "pop"}

Wait(r) ==
  /\ req[r].at = "wait"
  /\ \A o \in Requests \ {r} : req[o].lock = req[r].lock => ~Holds(o)
  /\ Set(r, "again")
  /\ UNCHANGED <<plan, disk, past, misread, index, scan, settled, pager, locks, temporary, target,
                 made, failed, dropped>>

(* Mutant: what another request made while this one waited is not seen. *)
LookAgainNever(r) ==
  /\ req[r].at = "again"
  /\ Set(r, "clean")
  /\ UNCHANGED <<plan, disk, past, misread, index, scan, settled, pager, locks, temporary, target,
                 made, failed, dropped>>

(* Returning here leaves the lock stored. *)
LookAgain(r) ==
  /\ req[r].at = "again"
  /\ IF target[req[r].file] # NoFile THEN Finish(r, Served(req[r].file)) ELSE Set(r, "clean")
  /\ UNCHANGED <<plan, disk, past, misread, index, scan, settled, pager, locks, temporary, target,
                 made, failed, dropped>>

CleanTemporary(r) ==
  /\ req[r].at = "clean"
  /\ temporary' = [temporary EXCEPT ![req[r].file] = NoFile]
  /\ Set(r, "open")
  /\ UNCHANGED <<plan, disk, past, misread, index, scan, settled, pager,
                 locks, target, made, failed, dropped>>

(* The source is decoded and the temporary file opened; one that another   *)
(* request has open is written by both.                                    *)
Open(r) ==
  /\ req[r].at = "open"
  /\ LET f == req[r].file
         v == disk[f]
         can == ResolveMediaPath(f) /\ <<f, v>> \notin Broken
     IN  /\ made' = [made EXCEPT ![f] = @ + 1]
         /\ req' = [req EXCEPT ![r].at = IF can THEN "write" ELSE "failed", ![r].version = v]
         /\ temporary' =
              IF can THEN [temporary EXCEPT ![f] = [writers |-> @.writers \cup {r},
                                                    versions |-> @.versions \cup {v}]]
              ELSE temporary
  /\ UNCHANGED <<plan, disk, past, misread, index, scan, settled, pager,
                 locks, target, failed, dropped>>

(* The source cannot be opened for a moment, or ffmpeg is missing. *)
OpenFails(r) ==
  /\ req[r].at = "open" /\ plan.faults > 0
  /\ plan' = [plan EXCEPT !.faults = @ - 1]
  /\ made' = [made EXCEPT ![req[r].file] = @ + 1]
  /\ Set(r, "failed")
  /\ UNCHANGED <<disk, past, misread, index, scan, settled, pager, locks, temporary, target,
                 failed, dropped>>

Written(file, r) == [file EXCEPT !.writers = @ \ {r}]

(* The file that was opened is complete, whatever its name is by now. *)
Write(r) ==
  /\ req[r].at = "write"
  /\ LET f == req[r].file
     IN  /\ temporary' = [temporary EXCEPT ![f] = Written(@, r)]
         /\ target' = [target EXCEPT ![f] = Written(@, r)]
         /\ Set(r, "replace")
  /\ UNCHANGED <<plan, disk, past, misread, index, scan, settled, pager,
                 locks, made, failed, dropped>>

(* The encoder fails, or ffmpeg exceeds its time: what is written stays. *)
WriteFails(r) ==
  /\ req[r].at = "write" /\ plan.faults > 0
  /\ plan' = [plan EXCEPT !.faults = @ - 1]
  /\ LET f == req[r].file
         torn(file) == IF r \in file.writers
                       THEN [Written(file, r) EXCEPT !.versions = @ \cup {0}] ELSE file
     IN  /\ temporary' = [temporary EXCEPT ![f] = torn(@)]
         /\ target' = [target EXCEPT ![f] = torn(@)]
         /\ Set(r, "failed")
  /\ UNCHANGED <<disk, past, misread, index, scan, settled, pager, locks, made, failed, dropped>>

SetStatus(f, status) ==
  index' = [index EXCEPT ![f] = IF @ = NoRow THEN @ ELSE [@ EXCEPT !.thumbnail = status]]

(* temporary.replace(target), then the status: the file goes by its name. *)
Replace(r) ==
  /\ req[r].at = "replace"
  /\ LET f == req[r].file
     IN  IF temporary[f] = NoFile THEN Set(r, "failed") /\ UNCHANGED <<index, temporary, target>>
         ELSE /\ target' = [target EXCEPT ![f] = temporary[f]]
              /\ temporary' = [temporary EXCEPT ![f] = NoFile]
              /\ SetStatus(f, "ready")
              /\ Set(r, "pop")
  /\ UNCHANGED <<plan, disk, past, misread, scan, settled, pager, locks, made, failed, dropped>>

GiveUp(r) ==
  /\ req[r].at = "failed"
  /\ LET f == req[r].file
     IN  /\ temporary' = [temporary EXCEPT ![f] = NoFile]
         /\ SetStatus(f, "error")
         /\ failed' = [failed EXCEPT ![f] = @ + 1]
         /\ req' = [req EXCEPT ![r].at = "pop", ![r].result = "failed"]
  /\ UNCHANGED <<plan, disk, past, misread, scan, settled, pager, locks, target, made, dropped>>

(* finally: the stored lock is dropped and the lock held is released; the  *)
(* file is sent by its name, or is gone again.                             *)
PopLock(r) ==
  /\ req[r].at = "pop"
  /\ LET f == req[r].file
     IN  /\ locks' = [locks EXCEPT ![f] = 0]
         /\ Finish(r, IF req[r].result = "failed" THEN "failed"
                      ELSE IF target[f] = NoFile THEN "gone" ELSE Served(f))
  /\ UNCHANGED <<plan, disk, past, misread, index, scan, settled, pager, temporary, target,
                 made, failed, dropped>>

----------------------------------------------------------------------------

Scan == \/ ListRoot \/ Stat \/ ProbeFile \/ Upsert \/ UnlinkOld \/ RemoveMissing
        \/ UnlinkRemoved

Serve(r) ==
  \/ \E f \in Files : Kind[f] \in {"photo", "video"} /\ FindItem(r, f)
  \/ Look(r) \/ GetLock(r) \/ Wait(r) \/ LookAgain(r) \/ CleanTemporary(r) \/ Open(r)
  \/ OpenFails(r)
  \/ Write(r) \/ WriteFails(r) \/ Replace(r) \/ GiveUp(r) \/ PopLock(r)

Next ==
  \/ \E f \in Files : Change(f)
  \/ Refresh \/ Scan \/ StatFails \/ ProbeFails \/ RefreshFails
  \/ \E type \in {"all", "photo"} : StartPaging(type)
  \/ CountRows \/ SelectRows
  \/ \E r \in Requests : Serve(r)

Spec == Init /\ [][Next]_vars

----------------------------------------------------------------------------

(* After a refresh that met every file, and until something changes, the   *)
(* index holds exactly the supported files inside the roots: no row is     *)
(* stale, missing or left over, whatever earlier refreshes that failed or  *)
(* met changes left behind.  A row says what the metadata of the file are, *)
(* or, if a probe of that version ever failed, that it did: a row with the *)
(* right stamp is never probed again, so a passing failure can stay.  If a *)
(* file came back as a version it had before, with its modification time,  *)
(* only the stamp is right: the rest may be of the version in between.     *)
IndexIsFolder ==
  settled => \A f \in Files :
    IF disk[f] # 0 /\ Kind[f] \in {"photo", "video"}
    THEN /\ index[f].stamp = disk[f]
         /\ disk[f] \notin past[f] => \E m \in Readings(f, disk[f]) :
              index[f].captured = m.captured /\ index[f].metadata = m.metadata
    ELSE index[f] = NoRow

(* A client that follows next_offset while rows are only added between its *)
(* pages is shown every item that was there when it started, and, if none  *)
(* was added, each exactly once.                                           *)
PagesCoverIndex ==
  pager.at = "done" =>
    /\ ~pager.spoiled => pager.start \subseteq pager.rows
    /\ ~pager.changed => /\ pager.rows = pager.start
                         /\ pager.shown = Cardinality(pager.start)

(* As long as no attempt failed and no thumbnail was invalidated, requests *)
(* at the same time share one generation, and each is served a whole file. *)
ThumbnailMadeOnce ==
  \A f \in Files : failed[f] = 0 /\ dropped[f] = 0 =>
    /\ made[f] <= 1
    /\ \A r \in Requests : req[r].file = f => req[r].result # "torn"

(* "Lazy, concurrency-safe JPEG thumbnail and video poster cache.": no     *)
(* request is served a file that another request is still writing.         *)
ServedWhole == \A r \in Requests : req[r].result # "torn"
============================================================================
