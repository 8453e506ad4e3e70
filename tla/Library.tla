------------------------------- MODULE Library -------------------------------
(***************************************************************************)
(* One library and its scanner: internal/scan's Scanner against the rows   *)
(* of internal/store, the locations an administrator adds and removes, the *)
(* handlers that take titles out, and disks that come and go.              *)
(*                                                                         *)
(* A scan is a goroutine: each of its database calls and each entry its    *)
(* walk visits is a step, and anything may happen in between.  A file is   *)
(* the only one of its directory; what its name means and what its tags    *)
(* say is left out, and so is everything the walk leaves aside by name.    *)
(***************************************************************************)
EXTENDS Naturals

CONSTANTS File, Root,
          FirstRoot, \* the location the library was made with
          RootOf,    \* File -> the location its path is in
          Episode,   \* the files that make one show; the others stand alone
          Drive,     \* locations that may come and go
          MountLike, \* what may become of them: a subset of MountState
          Blockable, \* files whose directory may stop being readable
          Moves      \* how many things happen around the scans, a bound

MountState == {"there", "gone", "blank"}  \* "blank": a readable, empty folder

ASSUME LibraryAssumption ==
  /\ FirstRoot \in Root /\ RootOf \in [File -> Root] /\ Episode \subseteq File
  /\ Drive \subseteq Root /\ MountLike \subseteq MountState
  /\ Blockable \subseteq File
  /\ Moves \in Nat

VARIABLES
  disk,      \* File -> its bytes: 0 when it is not there, else which they are
  mount,     \* Root -> MountState
  blocked,   \* files in a directory that cannot be read now
  row,       \* File -> its media_item: "none", "present" or "missing"
  bytes,     \* File -> the size and mtime that row was written with
  under,     \* the rows filed under the show
  show,      \* the show's own row
  ignored,   \* ignored_path
  root,      \* Root -> "unused", "kept" or "removed"
  taking,    \* File -> how far deleteItem got with it
  pc, state, \* the scan: where it is, and what Status says of it
  cancelled, \* its context
  snap,      \* what the scan read and has not read again: see Snap
  moves,     \* how many things happened around the scans
  stayed,    \* history: files that were there, and wanted, since the scan began
  unlisted,  \* history: files this scan's walk did not list although they are there
  followed   \* history: the show was made to follow its episodes by the last scan

disks == <<disk, mount, blocked>>
rows == <<row, bytes, under, show>>
scan == <<pc, state, cancelled, snap>>
notes == <<stayed, unlisted, followed>>
vars == <<disks, rows, ignored, root, taking, scan, moves, notes>>

Outcome == {"complete", "cancelled", "failed"}

\* roots: locations still to walk; ign: the ignore list; at: the location being
\* walked; known: its rows, and old: those of them that were missing; size: what
\* the known rows were written with; todo: entries to come; seen: this walk's;
\* any, some, skipped: FilesSeen, RootsScanned and RootsSkipped are not zero; end: how it
\* ended.
Snap == [roots: SUBSET Root, ign: SUBSET File, at: SUBSET Root, known: SUBSET File,
         old: SUBSET File, size: [File -> 0..2], todo: SUBSET File, seen: SUBSET File,
         any: BOOLEAN, some: BOOLEAN, skipped: BOOLEAN,
         end: Outcome \cup {"none"}]
NoSnap == [roots |-> {}, ign |-> {}, at |-> {}, known |-> {}, old |-> {},
           size |-> [f \in File |-> 0], todo |-> {}, seen |-> {},
           any |-> FALSE, some |-> FALSE, skipped |-> FALSE, end |-> "none"]

\* The files a listing of their directory shows.
Listed(f) == disk[f] # 0 /\ mount[RootOf[f]] = "there" /\ f \notin blocked

Init == /\ disk = [f \in File |-> 1]
        /\ mount = [r \in Root |-> "there"] /\ blocked = {}
        /\ row = [f \in File |-> "none"] /\ bytes = [f \in File |-> 0]
        /\ under = {} /\ show = "none" /\ ignored = {}
        /\ root = [r \in Root |-> IF r = FirstRoot THEN "kept" ELSE "unused"]
        /\ taking = [f \in File |-> "no"]
        /\ pc = "rest" /\ state = "idle" /\ cancelled = FALSE /\ snap = NoSnap
        /\ moves = 0
        /\ stayed = {} /\ unlisted = {} /\ followed = TRUE
---------------------------------------------------------------------------
(* Rows.                                                                   *)

\* Mutant: rows go and the show keeps counting them.
DropForgets(F) ==
  /\ row' = [f \in File |-> IF f \in F THEN "none" ELSE row[f]]
  /\ bytes' = [f \in File |-> IF f \in F THEN 0 ELSE bytes[f]]
  /\ under' = under
  /\ taking' = [f \in File |-> IF f \in F THEN "no" ELSE taking[f]]

\* Rows that go: ids are never given twice, so whoever was about to delete one
\* of them by its id deletes nothing any more.
Drop(F) ==
  /\ row' = [f \in File |-> IF f \in F THEN "none" ELSE row[f]]
  /\ bytes' = [f \in File |-> IF f \in F THEN 0 ELSE bytes[f]]
  /\ under' = under \ F
  /\ taking' = [f \in File |-> IF f \in F THEN "no" ELSE taking[f]]

\* UpsertItem: refused by the foreign key once the location is removed.
Upsert(f) ==
  /\ row' = IF root[RootOf[f]] = "kept" THEN [row EXCEPT ![f] = "present"] ELSE row
  /\ bytes' = IF root[RootOf[f]] = "kept" THEN [bytes EXCEPT ![f] = disk[f]] ELSE bytes
---------------------------------------------------------------------------
(* The scan.                                                               *)

Scanning == state = "running"
Go(next) == pc' = next /\ UNCHANGED <<state, cancelled>>

\* Mutant: the outcome is published as soon as it is known.
EndsPublished(S, outcome) ==
  /\ pc' = "trash" /\ state' = outcome /\ UNCHANGED cancelled
  /\ snap' = [S EXCEPT !.end = outcome]

\* The walk is over: its outcome is decided, and not yet published.
Ends(S, outcome) ==
  /\ pc' = "trash" /\ UNCHANGED <<state, cancelled>>
  /\ snap' = [S EXCEPT !.end = outcome]

\* A database call on the walk's context fails once that is cancelled.
Stopped == cancelled /\ Ends(snap, "cancelled") /\ UNCHANGED <<rows, taking, notes>>

\* On with the next location, or, when there is none, with the passes over the
\* whole library; a walk that read no location has failed.
Onward(S) == IF S.roots = {} /\ ~S.some THEN Ends(S, "failed")
             ELSE Go(IF S.roots = {} THEN "hierarchy" ELSE "next") /\ snap' = S

Start ==
  /\ pc = "rest"
  /\ pc' = "roots" /\ state' = "running" /\ cancelled' = FALSE /\ snap' = NoSnap
  /\ stayed' = {f \in File : disk[f] # 0 /\ f \notin ignored /\ taking[f] = "no"
                             /\ root[RootOf[f]] = "kept"}
  /\ unlisted' = {} /\ followed' = FALSE
  /\ UNCHANGED <<rows, taking>>

\* ListRoots and IgnoredPaths, read once for the whole scan.
ListRoots ==
  /\ pc = "roots"
  /\ \/ Stopped
     \/ /\ ~cancelled
        /\ Onward([NoSnap EXCEPT !.roots = {r \in Root : root[r] = "kept"}, !.ign = ignored])
        /\ UNCHANGED <<rows, taking, notes>>

\* checkRoot on the next location: one that is not there is skipped.  (They come
\* oldest first; any order is allowed here.)
NextRoot(r) ==
  /\ pc = "next" /\ r \in snap.roots
  /\ IF mount[r] = "gone"
     THEN Onward([snap EXCEPT !.roots = @ \ {r}, !.skipped = TRUE])
     ELSE Go("known") /\ snap' = [snap EXCEPT !.roots = @ \ {r}, !.at = {r}]
  /\ UNCHANGED <<rows, taking, notes>>

\* Mutant: what the library holds, not what this location does.
KnownAnywhere(r) == {f \in File : row[f] # "none"}

\* KnownFilesInRoot.
Known(r) == {f \in File : RootOf[f] = r /\ row[f] # "none"}

ReadKnown(r) ==
  /\ pc = "known" /\ r \in snap.at
  /\ \/ Stopped
     \/ /\ ~cancelled
        /\ snap' = [snap EXCEPT !.known = Known(r), !.old = {f \in Known(r) : row[f] = "missing"},
                                !.size = [f \in File |-> IF f \in Known(r) THEN bytes[f] ELSE 0],
                                !.todo = {f \in File : RootOf[f] = r}]
        /\ Go("walk")
        /\ UNCHANGED <<rows, taking, notes>>

\* Mutant: a file with the same bytes is left alone, missing or not.
UnchangedOnDisk(f) == f \in snap.known /\ snap.size[f] = disk[f]

\* A known file with the same bytes is left alone, unless it was missing.
Unchanged(f) == f \in snap.known \ snap.old /\ snap.size[f] = disk[f]

\* One entry of the walk: not listed, on the ignore list, unchanged, or upserted.
Visit(f) ==
  /\ pc = "walk" /\ f \in snap.todo
  /\ \/ Stopped
     \/ /\ ~cancelled /\ ~Listed(f)
        /\ unlisted' = IF f \in stayed THEN unlisted \cup {f} ELSE unlisted
        /\ snap' = [snap EXCEPT !.todo = @ \ {f}]
        /\ Go("walk") /\ UNCHANGED <<rows, taking, stayed, followed>>
     \/ /\ ~cancelled /\ Listed(f) /\ f \in snap.ign
        /\ snap' = [snap EXCEPT !.todo = @ \ {f}]
        /\ Go("walk") /\ UNCHANGED <<rows, taking, notes>>
     \/ /\ ~cancelled /\ Listed(f) /\ f \notin snap.ign
        /\ snap' = [snap EXCEPT !.todo = @ \ {f}, !.seen = @ \cup {f}, !.any = TRUE]
        /\ IF Unchanged(f) THEN UNCHANGED <<row, bytes>> ELSE Upsert(f)
        /\ Go("walk") /\ UNCHANGED <<under, show, taking, notes>>

\* The second checkRoot: a walk that lost its location says nothing, and then
\* what it did not list is not held against it.
Recheck(r) ==
  /\ pc = "walk" /\ snap.todo = {} /\ r \in snap.at
  /\ IF mount[r] = "gone"
     THEN Ends(snap, "failed") /\ unlisted' = {f \in unlisted : RootOf[f] # r}
     ELSE Go("mark") /\ UNCHANGED <<snap, unlisted>>
  /\ UNCHANGED <<rows, taking, stayed, followed>>

\* Mutant: a location with nothing to list is left alone.
GoneIfAny == IF snap.seen = {} THEN {} ELSE snap.known \ snap.seen

Gone == snap.known \ snap.seen

\* What is left of a location's walk once its rows are marked.
Walked == [NoSnap EXCEPT !.roots = snap.roots, !.ign = snap.ign, !.any = snap.any,
                         !.some = TRUE, !.skipped = snap.skipped]
MarkGone == /\ row' = [f \in File |-> IF f \in Gone /\ row[f] # "none" THEN "missing" ELSE row[f]]
            /\ UNCHANGED <<bytes, under, show, taking, notes>>

\* Mutant: the write does not belong to the walk's context.
MarkMissingDetached == pc = "mark" /\ MarkGone /\ Onward(Walked)

\* MarkMissing, by the ids read with the snapshot; nothing to mark is no call.
MarkMissing ==
  /\ pc = "mark"
  /\ \/ Gone # {} /\ Stopped
     \/ (Gone = {} \/ ~cancelled) /\ MarkGone /\ Onward(Walked)

\* reconcileLibrary's passes, none of which fails the scan.  Each may fail, and
\* on a cancelled context does.
PassFails(here, next) == pc = here /\ Go(next) /\ UNCHANGED <<rows, taking, snap, notes>>

\* reconcileHierarchy: the show is found or made, and its episodes filed under it.
Hierarchy ==
  \/ PassFails("hierarchy", "follow")
  \/ /\ pc = "hierarchy" /\ ~cancelled
     /\ under' = {f \in Episode : row[f] # "none"}
     /\ show' = IF under' # {} /\ show = "none" THEN "present" ELSE show
     /\ Go("follow")
     /\ UNCHANGED <<row, bytes, taking, snap, notes>>

\* Mutant: a show goes with its episodes and does not come back with them.
ShowAfterMarks == IF under = {} THEN "none"
                  ELSE IF \A f \in under : row[f] = "missing" THEN "missing" ELSE show

\* PruneEmptyContainers, and ReconcileMissingContainers: restore, then mark.
ShowAfter == IF under = {} THEN "none"
             ELSE IF \A f \in under : row[f] = "missing" THEN "missing" ELSE "present"

Follow ==
  \/ PassFails("follow", "touch")
  \/ /\ pc = "follow" /\ ~cancelled
     /\ show' = ShowAfter
     /\ followed' = TRUE
     /\ Go("touch")
     /\ UNCHANGED <<row, bytes, under, taking, snap, stayed, unlisted>>

\* TouchLibraryScanned ends the walk; a cancel that comes later comes too late.
Touch ==
  /\ pc = "touch"
  /\ \/ Stopped
     \/ ~cancelled /\ Ends(snap, "complete") /\ UNCHANGED <<rows, taking, notes>>

\* Mutant: a location that was skipped does not count.
MayEmptyTrashSkipped == snap.end = "complete" /\ snap.any

\* MayEmptyTrash, of what this scan reports.
MayEmptyTrash == snap.end = "complete" /\ ~snap.skipped /\ snap.any

\* EmptyTrash, when the setting, read now, asks for it: one statement over the missing rows,
\* refused as a whole while a missing show has an episode that is not.
Trash == {f \in File : row[f] = "missing"}
TrashRefused == show = "missing" /\ ~(under \subseteq Trash)

EmptyTrash ==
  /\ pc = "trash" /\ Go("publish")
  /\ \/ UNCHANGED <<rows, taking>>
     \/ /\ MayEmptyTrash /\ ~TrashRefused
        /\ Drop(Trash)
        /\ show' = IF show = "missing" THEN "none" ELSE show
  /\ UNCHANGED <<snap, notes>>

Publish ==
  /\ pc = "publish"
  /\ pc' = "rest" /\ state' = snap.end /\ cancelled' = FALSE /\ snap' = NoSnap
  /\ stayed' = {} /\ unlisted' = {}
  /\ UNCHANGED <<rows, taking, followed>>

Walking == \/ ListRoots \/ MarkMissing
           \/ \E r \in Root : NextRoot(r) \/ ReadKnown(r) \/ Recheck(r)
           \/ \E f \in File : Visit(f)
Finishing == Hierarchy \/ Follow \/ Touch \/ EmptyTrash \/ Publish
ScanStep == /\ Walking \/ Finishing
            /\ UNCHANGED <<disks, ignored, root, moves>>
StartScan == Start /\ UNCHANGED <<disks, ignored, root, moves>>
---------------------------------------------------------------------------
(* What happens around the scans, a bounded number of times.               *)

Move == moves < Moves /\ moves' = moves + 1
Leaves(F) == stayed' = stayed \ F /\ UNCHANGED <<unlisted, followed>>

\* A file is written, replaced or taken away.
Change(f) ==
  /\ Move
  /\ \E b \in 0..2 \ {disk[f]} : /\ disk' = [disk EXCEPT ![f] = b]
                                 /\ Leaves(IF b = 0 THEN {f} ELSE {})
  /\ UNCHANGED <<mount, blocked, rows, ignored, root, taking, scan>>

\* A drive goes, comes back, or leaves an empty folder where it was.
Remount(r) ==
  /\ Move
  /\ \E m \in MountLike \ {mount[r]} : mount' = [mount EXCEPT ![r] = m]
  /\ UNCHANGED <<disk, blocked, rows, ignored, root, taking, scan, notes>>

\* A directory stops being readable, or becomes so again.
Block(f) ==
  /\ Move
  /\ blocked' = IF f \in blocked THEN blocked \ {f} ELSE blocked \cup {f}
  /\ UNCHANGED <<disk, mount, rows, ignored, root, taking, scan, notes>>

\* deleteItem, in its three modes, up to the deletion of the row it read.
Ignore(f) ==
  /\ Move /\ row[f] # "none" /\ taking[f] = "no"
  /\ ignored' = ignored \cup {f}
  /\ taking' = [taking EXCEPT ![f] = "row"] /\ Leaves({f})
  /\ UNCHANGED <<disks, rows, root, scan>>

\* The file goes if it can; the row goes either way.
Delete(f) ==
  /\ Move /\ row[f] # "none" /\ taking[f] = "no"
  /\ mount[RootOf[f]] # "gone"
  /\ disk' \in {disk, IF mount[RootOf[f]] = "there" THEN [disk EXCEPT ![f] = 0] ELSE disk}
  /\ taking' = [taking EXCEPT ![f] = "row"] /\ Leaves({f})
  /\ UNCHANGED <<mount, blocked, rows, ignored, root, scan>>

\* Only a missing row of a location that can be read.
Forget(f) ==
  /\ Move /\ row[f] = "missing" /\ taking[f] = "no"
  /\ mount[RootOf[f]] # "gone"
  /\ taking' = [taking EXCEPT ![f] = "row"] /\ Leaves({f})
  /\ UNCHANGED <<disks, rows, ignored, root, scan>>

DeleteItems(f) ==
  /\ taking[f] = "row"
  /\ Drop({f})
  /\ UNCHANGED <<disks, show, ignored, root, scan, moves, notes>>

\* AddRoot, after checkDirectory; RemoveRoot, and its rows by cascade.
AddRoot(r) ==
  /\ root[r] = "unused" /\ mount[r] # "gone"
  /\ root' = [root EXCEPT ![r] = "kept"]
  /\ UNCHANGED <<disks, rows, ignored, taking, scan, moves, notes>>

RemoveRoot(r) ==
  /\ Move /\ root[r] = "kept" /\ \E k \in Root \ {r} : root[k] = "kept"
  /\ root' = [root EXCEPT ![r] = "removed"]
  /\ Drop({f \in File : RootOf[f] = r})
  /\ Leaves({f \in File : RootOf[f] = r})
  /\ UNCHANGED <<disks, show, ignored, scan>>

Cancel ==
  /\ Move /\ pc # "rest" /\ ~cancelled
  /\ cancelled' = TRUE
  /\ UNCHANGED <<disks, rows, ignored, root, taking, pc, state, snap, notes>>

\* The process ends and starts again: the scanner and the handlers are gone.
Restart ==
  /\ Move
  /\ pc' = "rest" /\ state' = "idle" /\ cancelled' = FALSE /\ snap' = NoSnap
  /\ taking' = [f \in File |-> "no"]
  /\ stayed' = {} /\ unlisted' = {}
  /\ UNCHANGED <<disks, rows, ignored, root, followed>>

Around == \/ \E f \in File : Change(f) \/ Ignore(f) \/ Delete(f) \/ Forget(f) \/ DeleteItems(f)
          \/ \E f \in Blockable : Block(f)
          \/ \E r \in Drive : Remount(r)
          \/ \E r \in Root : AddRoot(r) \/ RemoveRoot(r)
          \/ Cancel \/ Restart

Next == StartScan \/ ScanStep \/ Around
Spec == Init /\ [][Next]_vars

\* Scans are started again and again, and a running one goes on.
FairSpec == Spec /\ WF_vars(StartScan) /\ WF_vars(ScanStep)
---------------------------------------------------------------------------
TypeOK == /\ disk \in [File -> 0..2] /\ mount \in [Root -> MountState]
          /\ blocked \in SUBSET File
          /\ row \in [File -> {"none", "present", "missing"}]
          /\ bytes \in [File -> 0..2]
          /\ under \in SUBSET {f \in Episode : row[f] # "none"}
          /\ show \in {"none", "present", "missing"}
          /\ ignored \in SUBSET File
          /\ root \in [Root -> {"unused", "kept", "removed"}]
          /\ taking \in [File -> {"no", "row"}]
          /\ state \in {"idle", "running"} \cup Outcome /\ cancelled \in BOOLEAN
          /\ snap \in Snap /\ moves \in 0..Moves
          /\ stayed \in SUBSET File /\ unlisted \in SUBSET File /\ followed \in BOOLEAN

Marks(f) == row[f] = "present" /\ row'[f] = "missing"
Empties(f) == pc = "trash" /\ pc' = "publish" /\ row[f] # "none" /\ row'[f] = "none"

\* A file that stayed where it was goes, marked missing or emptied with the
\* trash, only if this very scan's walk of its own location could not list it and
\* found the location there at its end: not for another location's walk, a drive
\* that sleeps or one that went while it was walked, and not for what an earlier
\* scan missed (scanner.go:588-592 and :982-1005; trash.go, MayEmptyTrash).
OnlyUnlistedGo == [][\A f \in stayed : Marks(f) \/ Empties(f) => f \in unlisted]_vars

\* A cancelled scan marks nothing missing, wherever the cancel lands
\* (scanner.go:778-791).
CancelMarksNothing == [][cancelled => \A f \in File : ~Marks(f)]_vars

\* Once a scan is said to be over, it takes nothing more out of the library
\* (scanner.go:366-381).
NothingAfterFinished ==
  [][\A f \in File : Marks(f) \/ Empties(f) => Scanning]_vars

\* A show whose episode came back is not left hidden, once a scan made it follow
\* its episodes (missingcontainers.go).
NoHiddenEpisode ==
  followed => ~(show = "missing" /\ \E f \in under : row[f] = "present")

\* A file that is there to stay comes to be in the library as it is on disk,
\* whatever was missed, marked or emptied before.
EventuallyShown ==
  \A f \in File :
    <>[](Listed(f) /\ f \notin ignored /\ root[RootOf[f]] = "kept")
      => <>[](row[f] = "present" /\ bytes[f] = disk[f])

\* A file that is gone for good from a location that can be read, or that is on
\* the ignore list, does not stay in the library.
EventuallyGone ==
  \A f \in File :
    <>[](disk[f] = 0 \/ f \in ignored) /\ <>[](mount[RootOf[f]] # "gone")
      => <>[](row[f] # "present")

\* Scanned again and again, the library comes to be what is on disk.
ComesToMatch == EventuallyShown /\ EventuallyGone

\* A drive that is not there costs nothing, and an empty folder in its place is
\* no better evidence than none (trash.go:22-26, store.go:931-932).
UnmountedKeepsRows == [][\A f \in stayed : Empties(f) => mount[RootOf[f]] = "there"]_vars
=============================================================================
