---------------------------- MODULE LibraryProofs ----------------------------
(***************************************************************************)
(* What a scan of Library may take out of it, for any files and locations  *)
(* and whatever disks, handlers, cancels and restarts do meanwhile.        *)
(***************************************************************************)
EXTENDS Library, TLAPS

\* A scan that runs says so, and the show follows its episodes at its end only.
Running == /\ pc # "rest" => state = "running"
           /\ followed => pc \in {"rest", "touch", "trash", "publish"}

\* Whoever stayed is wanted, and where the scan looks for it.
Wanted == /\ snap.ign \subseteq ignored
          /\ \A f \in stayed : f \notin ignored /\ root[RootOf[f]] = "kept"

\* Only a scan marks, so a row it read as present is not missing while it walks;
\* what it walked past without listing is noted.
Accounted(f) == (f \in snap.seen /\ row[f] # "missing") \/ f \in unlisted
Walks ==
  pc \in {"walk", "mark"} =>
    /\ \A f \in snap.known : RootOf[f] \in snap.at
    /\ \A f \in snap.known \ snap.old : row[f] # "missing"
    /\ \A f \in stayed : RootOf[f] \in snap.at /\ f \notin snap.todo => Accounted(f)
    /\ pc = "mark" => snap.todo = {}

\* A location once walked leaves no row missing that was there to list, and when
\* the walk is complete that is all of them but those it skipped.
Complete == pc = "trash" /\ snap.end = "complete"
Finishes == pc \in {"hierarchy", "follow", "touch"} \/ Complete
Covered ==
  /\ \A r, q \in snap.at : r = q
  /\ pc = "next" => snap.at = {}
  /\ Finishes => snap.roots = {} /\ snap.at = {}
  /\ pc \in {"next", "known", "walk", "mark"} \/ Finishes =>
       \/ snap.skipped
       \/ \A f \in stayed : /\ RootOf[f] \notin snap.roots \cup snap.at
                            /\ row[f] = "missing"
                            => f \in unlisted

Course == Running /\ Wanted /\ Walks /\ Covered

---------------------------------------------------------------------------
(* Types.                                                                  *)

LEMMA Records ==
  /\ NoSnap \in Snap
  /\ \A S \in Snap : S.roots \subseteq Root /\ S.ign \subseteq File
  /\ snap \in Snap => Walked \in Snap
<1>1. NoSnap \in Snap
  BY DEF NoSnap, Snap
<1>2. ASSUME snap \in Snap PROVE Walked \in Snap
  BY <1>1, <1>2 DEF Walked, Snap
<1> QED BY <1>1, <1>2 DEF Snap

\* What is about to be published is decided.
Ended == pc \in {"trash", "publish"} => snap.end \in Outcome

LEMMA EndsScan ==
  ASSUME snap \in Snap, NEW o \in Outcome, Ends(snap, o)
  PROVE  snap' \in Snap /\ Ended' /\ UNCHANGED <<cancelled, state>>
  BY DEF Ends, Snap, Outcome, Ended

\* On to the next location, to the passes, or to the end.
LEMMA OnwardEffect ==
  ASSUME NEW S \in Snap, Onward(S)
  PROVE  /\ snap' \in Snap /\ UNCHANGED <<state, cancelled>>
         /\ \/ S.roots = {} /\ pc' = "trash" /\ snap'.end = "failed"
               /\ snap'.ign = S.ign /\ snap'.at = S.at
            \/ S.roots = {} /\ pc' = "hierarchy" /\ snap' = S
            \/ S.roots # {} /\ pc' = "next" /\ snap' = S
         /\ Ended'
  BY DEF Onward, Ends, Go, Snap, Outcome, Ended

LEMMA DropEffect ==
  ASSUME TypeOK, NEW F \in SUBSET File, Drop(F)
  PROVE  /\ row' \in [File -> {"none", "present", "missing"}]
         /\ bytes' \in [File -> 0..2]
         /\ under' \in SUBSET {f \in Episode : row'[f] # "none"}
         /\ taking' \in [File -> {"no", "row"}]
         /\ \A f \in File : row'[f] = IF f \in F THEN "none" ELSE row[f]
  BY LibraryAssumption DEF TypeOK, Drop

LEMMA UpsertEffect ==
  ASSUME TypeOK, NEW f \in File, Upsert(f)
  PROVE  /\ row' \in [File -> {"none", "present", "missing"}]
         /\ bytes' \in [File -> 0..2]
         /\ \A g \in File : row'[g] = row[g] \/ (g = f /\ row'[g] = "present")
         /\ root[RootOf[f]] = "kept" => row'[f] = "present"
  BY DEF TypeOK, Upsert

LEMMA TypeInit == Init => TypeOK
<1> SUFFICES ASSUME Init PROVE TypeOK
  OBVIOUS
<1>1. snap \in Snap
  BY Records DEF Init
<1>2. disk \in [File -> 0..2] /\ bytes \in [File -> 0..2] /\ moves \in 0..Moves
  BY LibraryAssumption DEF Init
<1>3. /\ mount \in [Root -> MountState] /\ root \in [Root -> {"unused", "kept", "removed"}]
      /\ row \in [File -> {"none", "present", "missing"}] /\ taking \in [File -> {"no", "row"}]
  BY DEF Init, MountState
<1> QED BY <1>1, <1>2, <1>3 DEF Init, TypeOK

\* What a step of the walk leaves in the scan's hands, ...
LEMMA WalkingScan ==
  ASSUME TypeOK, Walking
  PROVE  snap' \in Snap /\ Ended' /\ UNCHANGED <<cancelled, state>>
<1>0. snap \in Snap
  BY DEF TypeOK
<1>1. CASE Stopped
  BY <1>0, <1>1, EndsScan DEF Stopped, Outcome
<1>2. CASE ListRoots /\ ~Stopped
  <2>1. ignored \in SUBSET File
    BY DEF TypeOK
  <2>2. [NoSnap EXCEPT !.roots = {r \in Root : root[r] = "kept"}, !.ign = ignored] \in Snap
    BY <2>1, Records DEF Snap
  <2> QED BY <1>2, <2>2, OnwardEffect DEF ListRoots, Ended
<1>3. ASSUME NEW r \in Root, NextRoot(r) PROVE snap' \in Snap /\ Ended' /\ UNCHANGED <<cancelled, state>>
  <2>1. [snap EXCEPT !.roots = @ \ {r}, !.skipped = TRUE] \in Snap
    BY <1>0 DEF Snap
  <2>2. [snap EXCEPT !.roots = @ \ {r}, !.at = {r}] \in Snap
    BY <1>0 DEF Snap
  <2> QED BY <1>3, <2>1, <2>2, OnwardEffect DEF NextRoot, Go, Ended
<1>4. ASSUME NEW r \in Root, ReadKnown(r), ~Stopped
      PROVE snap' \in Snap /\ Ended' /\ UNCHANGED <<cancelled, state>>
  <2>1. /\ Known(r) \in SUBSET File /\ {f \in Known(r) : row[f] = "missing"} \in SUBSET File
        /\ {f \in File : RootOf[f] = r} \in SUBSET File
    BY DEF Known
  <2>2. [f \in File |-> IF f \in Known(r) THEN bytes[f] ELSE 0] \in [File -> 0..2]
    BY DEF TypeOK
  <2> DEFINE K == Known(r)
             O == {f \in Known(r) : row[f] = "missing"}
             Z == [f \in File |-> IF f \in Known(r) THEN bytes[f] ELSE 0]
             T == {f \in File : RootOf[f] = r}
  <2>3. [snap EXCEPT !.known = K, !.old = O, !.size = Z, !.todo = T] \in Snap
    <3> HIDE DEF K, O, Z, T
    <3>1. K \in SUBSET File /\ O \in SUBSET File /\ Z \in [File -> 0..2] /\ T \in SUBSET File
      BY <2>1, <2>2 DEF K, O, Z, T
    <3> QED BY <1>0, <3>1 DEF Snap
  <2>4. Ended' /\ UNCHANGED <<cancelled, state>>
    BY <1>4 DEF ReadKnown, Go, Ended
  <2> QED BY <1>4, <2>1, <2>2, <2>3, <2>4 DEF ReadKnown
<1>5. ASSUME NEW f \in File, Visit(f), ~Stopped
      PROVE snap' \in Snap /\ Ended' /\ UNCHANGED <<cancelled, state>>
  <2>1. [snap EXCEPT !.todo = @ \ {f}] \in Snap
    BY <1>0 DEF Snap
  <2>2. [snap EXCEPT !.todo = @ \ {f}, !.seen = @ \cup {f}, !.any = TRUE] \in Snap
    BY <1>0 DEF Snap
  <2> QED BY <1>5, <2>1, <2>2 DEF Visit, Go, Ended
<1>6. ASSUME NEW r \in Root, Recheck(r) PROVE snap' \in Snap /\ Ended' /\ UNCHANGED <<cancelled, state>>
  BY <1>0, <1>6, EndsScan DEF Recheck, Go, Outcome, Ended
<1>7. CASE MarkMissing /\ ~Stopped
  BY <1>0, <1>7, Records, OnwardEffect DEF MarkMissing, Ended
<1> QED BY <1>1, <1>2, <1>3, <1>4, <1>5, <1>6, <1>7
    DEF Walking, ListRoots, ReadKnown, Visit, MarkMissing

RowTypes == /\ row \in [File -> {"none", "present", "missing"}] /\ bytes \in [File -> 0..2]
            /\ under \in SUBSET {f \in Episode : row[f] # "none"}
            /\ show \in {"none", "present", "missing"}
            /\ taking \in [File -> {"no", "row"}]
NoteTypes == stayed \in SUBSET File /\ unlisted \in SUBSET File /\ followed \in BOOLEAN

\* ... and in the rows.
LEMMA WalkingRows == ASSUME TypeOK, Walking PROVE RowTypes' /\ NoteTypes'
<1>1. RowTypes /\ NoteTypes
  BY DEF TypeOK, RowTypes, NoteTypes
<1>2. CASE UNCHANGED <<rows, taking, notes>>
  BY <1>1, <1>2 DEF RowTypes, NoteTypes, rows, notes
<1>3. ASSUME NEW f \in File, Visit(f) PROVE RowTypes' /\ NoteTypes'
  <2>1. CASE UNCHANGED <<rows, taking>> /\ NoteTypes'
    BY <1>1, <2>1 DEF RowTypes, rows
  <2>2. CASE UNCHANGED <<row, bytes, under, show, taking, notes>>
    BY <1>1, <2>2 DEF RowTypes, NoteTypes, notes
  <2>3. CASE Upsert(f) /\ UNCHANGED <<under, show, taking, notes>>
    <3>1. \A g \in File : row[g] # "none" => row'[g] # "none"
      BY <2>3, UpsertEffect
    <3> QED BY <1>1, <2>3, <3>1, UpsertEffect, LibraryAssumption
        DEF RowTypes, NoteTypes, notes
  <2> QED BY <1>1, <1>2, <1>3, <2>1, <2>2, <2>3 DEF Visit, Stopped, NoteTypes, rows, notes
<1>4. ASSUME NEW r \in Root, Recheck(r) PROVE RowTypes' /\ NoteTypes'
  BY <1>1, <1>4 DEF Recheck, RowTypes, NoteTypes, rows
<1>5. CASE MarkMissing /\ MarkGone
  <2>1. /\ row' \in [File -> {"none", "present", "missing"}]
        /\ \A f \in File : row[f] # "none" => row'[f] # "none"
    BY <1>1, <1>5 DEF MarkGone, RowTypes
  <2> QED BY <1>1, <1>5, <2>1, LibraryAssumption DEF MarkGone, RowTypes, NoteTypes, notes
<1> QED BY <1>2, <1>3, <1>4, <1>5
    DEF Walking, ListRoots, NextRoot, ReadKnown, MarkMissing, Stopped

LEMMA FinishingScan ==
  ASSUME TypeOK, Ended, Finishing
  PROVE  /\ snap' \in Snap /\ Ended'
         /\ cancelled' \in BOOLEAN /\ state' \in {"idle", "running"} \cup Outcome
<1>1. snap \in Snap /\ cancelled \in BOOLEAN /\ state \in {"idle", "running"} \cup Outcome
  BY DEF TypeOK
<1>2. CASE Hierarchy \/ Follow \/ EmptyTrash
  BY <1>1, <1>2 DEF Hierarchy, Follow, EmptyTrash, PassFails, Go, Ended
<1>3. CASE Touch
  <2>1. Ends(snap, "complete") \/ Ends(snap, "cancelled")
    BY <1>3 DEF Touch, Stopped
  <2> QED BY <1>1, <2>1, EndsScan DEF Outcome
<1>4. CASE Publish
  BY <1>1, <1>4, Records DEF Publish, Ended
<1> QED BY <1>2, <1>3, <1>4 DEF Finishing

LEMMA FinishingRows == ASSUME TypeOK, Finishing PROVE RowTypes' /\ NoteTypes'
<1>1. RowTypes /\ NoteTypes
  BY DEF TypeOK, RowTypes, NoteTypes
<1>2. CASE UNCHANGED <<rows, taking, notes>>
  BY <1>1, <1>2 DEF RowTypes, NoteTypes, rows, notes
<1>3. CASE Hierarchy
  BY <1>1, <1>2, <1>3 DEF Hierarchy, PassFails, RowTypes, NoteTypes, notes
<1>4. CASE Follow
  BY <1>1, <1>2, <1>4 DEF Follow, PassFails, ShowAfter, RowTypes, NoteTypes
<1>5. CASE EmptyTrash
  <2>1. CASE Drop(Trash)
    <3>1. Trash \in SUBSET File
      BY DEF Trash
    <3>2. show' \in {"none", "present", "missing"} /\ NoteTypes'
      BY <1>1, <1>5 DEF EmptyTrash, RowTypes, NoteTypes, rows, notes
    <3> QED BY <2>1, <3>1, <3>2, DropEffect DEF RowTypes
  <2> QED BY <1>2, <1>5, <2>1 DEF EmptyTrash
<1>6. CASE Touch \/ Publish
  BY <1>1, <1>2, <1>6 DEF Touch, Stopped, Publish, RowTypes, NoteTypes, rows
<1> QED BY <1>3, <1>4, <1>5, <1>6 DEF Finishing

LEMMA ScanType ==
  ASSUME TypeOK, Ended, ScanStep \/ StartScan
  PROVE  TypeOK' /\ Ended'
<1>1. CASE ScanStep
  <2>1. /\ RowTypes' /\ NoteTypes' /\ snap' \in Snap /\ Ended'
        /\ cancelled' \in BOOLEAN /\ state' \in {"idle", "running"} \cup Outcome
    BY <1>1, WalkingScan, WalkingRows, FinishingScan, FinishingRows DEF ScanStep, TypeOK
  <2> QED BY <1>1, <2>1 DEF ScanStep, TypeOK, RowTypes, NoteTypes, disks
<1>2. CASE StartScan
  <2>1. snap' \in Snap /\ pc' = "roots" /\ stayed' \in SUBSET File
    BY <1>2, Records DEF StartScan, Start
  <2> QED BY <1>2, <2>1 DEF StartScan, Start, TypeOK, Ended, rows, disks
<1> QED BY <1>1, <1>2

LEMMA AroundType == ASSUME TypeOK, Ended, Around PROVE TypeOK' /\ Ended'
<1>1. moves' \in 0..Moves
  <2>1. UNCHANGED moves \/ Move
    BY DEF Around, Change, Ignore, Delete, Forget, DeleteItems, Block, Remount, AddRoot,
           RemoveRoot, Cancel, Restart
  <2> QED BY <2>1, LibraryAssumption DEF Move, TypeOK
<1> USE DEF TypeOK, Ended, rows, disks, scan, notes
<1>2. ASSUME NEW f \in File, Change(f) PROVE TypeOK' /\ Ended'
  BY <1>1, <1>2 DEF Change, Leaves
<1>3. ASSUME NEW f \in File, Ignore(f) \/ Delete(f) \/ Forget(f) PROVE TypeOK' /\ Ended'
  BY <1>1, <1>3 DEF Ignore, Delete, Forget, Leaves
<1>4. ASSUME NEW f \in File, DeleteItems(f) PROVE TypeOK' /\ Ended'
  BY <1>1, <1>4, DropEffect DEF DeleteItems
<1>5. ASSUME NEW f \in Blockable, Block(f) PROVE TypeOK' /\ Ended'
  BY <1>1, <1>5, LibraryAssumption DEF Block
<1>6. ASSUME NEW r \in Drive, Remount(r) PROVE TypeOK' /\ Ended'
  BY <1>1, <1>6, LibraryAssumption DEF Remount
<1>7. ASSUME NEW r \in Root, AddRoot(r) PROVE TypeOK' /\ Ended'
  BY <1>1, <1>7 DEF AddRoot
<1>8. ASSUME NEW r \in Root, RemoveRoot(r) PROVE TypeOK' /\ Ended'
  BY <1>1, <1>8, DropEffect DEF RemoveRoot, Leaves
<1>9. CASE Cancel
  BY <1>1, <1>9 DEF Cancel
<1>10. CASE Restart
  BY <1>1, <1>10, Records DEF Restart
<1> QED BY <1>2, <1>3, <1>4, <1>5, <1>6, <1>7, <1>8, <1>9, <1>10 DEF Around

LEMMA TypeStep == TypeOK /\ Ended /\ [Next]_vars => TypeOK' /\ Ended'
<1> SUFFICES ASSUME TypeOK, Ended, [Next]_vars PROVE TypeOK' /\ Ended'
  OBVIOUS
<1>1. CASE UNCHANGED vars
  BY <1>1 DEF vars, TypeOK, Ended, disks, rows, scan, notes
<1> QED BY <1>1, ScanType, AroundType DEF Next

\* Rows, locations, disks and what a scan has in hand keep their types, and a scan
\* that is over has an outcome to publish.
THEOREM LibraryTypeCorrect == Spec => []TypeOK
<1>1. Init => Ended
  BY DEF Init, Ended
<1> QED BY <1>1, TypeInit, TypeStep, PTL DEF Spec

---------------------------------------------------------------------------
(* Around a scan: rows go, files leave, and nothing comes back in between. *)

LEMMA Meanwhile ==
  ASSUME TypeOK, Course, UNCHANGED <<pc, state, snap, unlisted, followed>>,
         ignored \subseteq ignored', stayed' \subseteq stayed,
         \A f \in File : row'[f] \in {"none", row[f]},
         \A f \in stayed' : f \notin ignored' /\ root'[RootOf[f]] = "kept"
  PROVE  Course'
<1>1. Running' /\ Wanted'
  BY DEF Course, Running, Wanted
<1>2. /\ snap.known \subseteq File /\ stayed \subseteq File
      /\ \A f \in File : row'[f] = "missing" => row[f] = "missing"
  BY DEF TypeOK, Snap
<1>3. Walks'
  BY <1>2 DEF Course, Walks, Accounted
<1>4. Covered'
  BY <1>2 DEF Course, Covered, Finishes, Complete
<1> QED BY <1>1, <1>3, <1>4 DEF Course

LEMMA AroundCourse == ASSUME TypeOK, Course, Around PROVE Course'
<1> USE DEF rows, disks, scan, notes
<1>1. ASSUME NEW f \in File, Change(f) \/ Ignore(f) \/ Delete(f) \/ Forget(f) PROVE Course'
  <2>1. /\ UNCHANGED <<pc, state, snap, unlisted, followed, row, root>>
        /\ stayed' \subseteq stayed /\ ignored \subseteq ignored'
        /\ ignored' = ignored \/ (ignored' = ignored \cup {f} /\ f \notin stayed')
    BY <1>1 DEF Change, Ignore, Delete, Forget, Leaves
  <2> QED BY <2>1, Meanwhile DEF Course, Wanted
<1>2. ASSUME NEW f \in File, DeleteItems(f) PROVE Course'
  BY <1>2, DropEffect, Meanwhile DEF DeleteItems, Course, Wanted
<1>3. CASE \/ \E f \in Blockable : Block(f)
           \/ \E r \in Drive : Remount(r)
           \/ Cancel
  BY <1>3, Meanwhile DEF Block, Remount, Cancel, Course, Wanted
<1>4. ASSUME NEW r \in Root, AddRoot(r) PROVE Course'
  BY <1>4, Meanwhile DEF AddRoot, Course, Wanted, TypeOK
<1>5. ASSUME NEW r \in Root, RemoveRoot(r) PROVE Course'
  <2>1. /\ UNCHANGED <<pc, state, snap, unlisted, followed, ignored>>
        /\ stayed' = stayed \ {f \in File : RootOf[f] = r}
        /\ \A f \in File : row'[f] \in {"none", row[f]}
    BY <1>5, DropEffect DEF RemoveRoot, Leaves
  <2>2. \A f \in stayed' : root'[RootOf[f]] = root[RootOf[f]]
    BY <1>5, <2>1 DEF RemoveRoot, TypeOK
  <2> QED BY <2>1, <2>2, Meanwhile DEF Course, Wanted
<1>6. CASE Restart
  BY <1>6 DEF Restart, NoSnap, Course, Running, Wanted, Walks, Covered, Finishes, Complete
<1> QED BY <1>1, <1>2, <1>3, <1>4, <1>5, <1>6 DEF Around

---------------------------------------------------------------------------
(* The scan itself.                                                        *)

\* Whoever ends without having completed has nothing to answer for.
LEMMA EndsCourse ==
  ASSUME TypeOK, Course, NEW o \in Outcome \ {"complete"}, Ends(snap, o), pc # "rest",
         UNCHANGED <<ignored, root, stayed, followed>>
  PROVE  Course'
<1>1. pc' = "trash" /\ snap'.end = o /\ snap'.ign = snap.ign /\ snap'.at = snap.at
      /\ UNCHANGED state
  BY DEF Ends, TypeOK, Snap
<1> QED BY <1>1 DEF Course, Running, Wanted, Walks, Covered, Finishes, Complete, Outcome

\* Onward from S, which covers what was walked so far.
LEMMA OnwardCourse ==
  ASSUME TypeOK, Course, NEW S \in Snap, Onward(S), S.ign \subseteq ignored, S.at = {},
         UNCHANGED <<ignored, root, stayed, unlisted, followed>>, state = "running", ~followed,
         \/ S.skipped
         \/ \A f \in stayed : RootOf[f] \notin S.roots /\ row'[f] = "missing" => f \in unlisted
  PROVE  Course'
<1>1. CASE pc' = "trash"
  BY <1>1, OnwardEffect DEF Course, Running, Wanted, Walks, Covered, Finishes, Complete
<1>2. CASE pc' # "trash"
  BY <1>2, OnwardEffect DEF Course, Running, Wanted, Walks, Covered, Finishes, Complete
<1> QED BY <1>1, <1>2

LEMMA StoppedCourse ==
  ASSUME TypeOK, Course, Stopped, pc # "rest", UNCHANGED <<ignored, root>>
  PROVE  Course'
  BY EndsCourse DEF Stopped, Outcome, notes

LEMMA ListRootsCourse ==
  ASSUME TypeOK, Course, ListRoots, UNCHANGED <<ignored, root>>
  PROVE  Course'
<1> DEFINE R == {r \in Root : root[r] = "kept"}
           S == [NoSnap EXCEPT !.roots = R, !.ign = ignored]
<1>1. CASE Stopped
  BY <1>1, StoppedCourse DEF ListRoots
<1>2. CASE ~Stopped
  <2>1. ignored \in SUBSET File /\ R \in SUBSET Root
    BY DEF TypeOK
  <2>2. S \in Snap
    BY <2>1, Records DEF Snap
  <2>3. S.roots = R /\ S.ign = ignored /\ S.at = {}
    BY DEF NoSnap
  <2>4. \A f \in stayed : RootOf[f] \in R
    BY LibraryAssumption DEF Course, Wanted, TypeOK
  <2>5. Onward(S) /\ UNCHANGED <<stayed, unlisted, followed>> /\ state = "running" /\ ~followed
    BY <1>2 DEF ListRoots, notes, Course, Running
  <2> HIDE DEF S, R
  <2> QED BY <2>2, <2>3, <2>4, <2>5, OnwardCourse
<1> QED BY <1>1, <1>2

LEMMA NextRootCourse ==
  ASSUME TypeOK, Course, NEW r \in Root, NextRoot(r), UNCHANGED <<ignored, root>>
  PROVE  Course'
<1> DEFINE S == [snap EXCEPT !.roots = @ \ {r}, !.skipped = TRUE]
<1>1. snap \in Snap /\ pc = "next" /\ UNCHANGED <<rows, notes>>
  BY DEF TypeOK, NextRoot
<1>2. CASE Onward(S)
  <2>1. S \in Snap /\ S.skipped /\ S.at = snap.at /\ S.ign = snap.ign
    BY <1>1 DEF Snap
  <2> HIDE DEF S
  <2> QED BY <1>1, <1>2, <2>1, OnwardCourse DEF Course, Running, Wanted, Covered, notes
<1>3. CASE ~Onward(S)
  <2>1. /\ pc' = "known" /\ UNCHANGED state
        /\ snap' = [snap EXCEPT !.roots = @ \ {r}, !.at = {r}]
    BY <1>3 DEF NextRoot, Go
  <2>2. /\ snap'.roots = snap.roots \ {r} /\ snap'.at = {r} /\ snap'.ign = snap.ign
        /\ snap'.skipped = snap.skipped /\ r \in snap.roots
    BY <1>1, <2>1 DEF Snap, NextRoot
  <2> QED BY <1>1, <2>1, <2>2
      DEF Course, Running, Wanted, Walks, Covered, Finishes, Complete, rows, notes
<1> QED BY <1>2, <1>3

LEMMA ReadKnownCourse ==
  ASSUME TypeOK, Course, NEW r \in Root, ReadKnown(r), UNCHANGED <<ignored, root>>
  PROVE  Course'
<1>1. CASE Stopped
  BY <1>1, StoppedCourse DEF ReadKnown
<1>2. CASE ~Stopped
  <2>1. /\ pc = "known" /\ pc' = "walk" /\ r \in snap.at /\ UNCHANGED <<state, rows, notes>>
    BY <1>2 DEF ReadKnown, Go
  <2>2. /\ snap'.known = Known(r) /\ snap'.old = {f \in Known(r) : row[f] = "missing"}
        /\ snap'.todo = {f \in File : RootOf[f] = r} /\ snap'.at = snap.at
        /\ snap'.roots = snap.roots /\ snap'.ign = snap.ign /\ snap'.skipped = snap.skipped
    BY <1>2 DEF ReadKnown, TypeOK, Snap
  <2>3. Running' /\ Wanted' /\ Covered'
    BY <2>1, <2>2
    DEF Course, Running, Wanted, Covered, Finishes, Complete, rows, notes
  <2>4. \A q \in snap.at : q = r
    BY <2>1 DEF Course, Covered
  <2>5. Walks'
    BY <2>1, <2>2, <2>4 DEF Walks, Known, TypeOK, rows, notes
  <2> QED BY <2>3, <2>5 DEF Course
<1> QED BY <1>1, <1>2

LEMMA VisitCourse ==
  ASSUME TypeOK, Course, NEW g \in File, Visit(g), UNCHANGED <<ignored, root>>
  PROVE  Course'
<1>1. CASE Stopped
  BY <1>1, StoppedCourse DEF Visit
<1>2. CASE ~Stopped
  <2>0. stayed \subseteq File /\ snap.known \subseteq File
    BY DEF TypeOK, Snap
  <2>1. pc = "walk" /\ pc' = "walk" /\ UNCHANGED <<state, stayed, followed>> /\ g \in snap.todo
    BY <1>2 DEF Visit, Go, notes
  <2>2. /\ snap'.todo = snap.todo \ {g} /\ snap.seen \subseteq snap'.seen
        /\ snap'.at = snap.at /\ snap'.roots = snap.roots /\ snap'.ign = snap.ign
        /\ snap'.skipped = snap.skipped /\ snap'.known = snap.known /\ snap'.old = snap.old
    <3>1. snap \in Snap
      BY DEF TypeOK
    <3>2. \/ snap' = [snap EXCEPT !.todo = @ \ {g}]
          \/ snap' = [snap EXCEPT !.todo = @ \ {g}, !.seen = @ \cup {g}, !.any = TRUE]
      BY <1>2 DEF Visit
    <3> QED BY <3>1, <3>2 DEF Snap
  <2>3. Running' /\ Wanted'
    BY <2>1, <2>2 DEF Course, Running, Wanted
  <2>4. \A f \in File : row'[f] = row[f] \/ row'[f] = "present"
    BY <1>2, UpsertEffect DEF Visit, rows
  <2>5. unlisted \subseteq unlisted'
    BY <1>2 DEF Visit, notes
  <2>6. Covered'
    BY <2>0, <2>1, <2>2, <2>4, <2>5 DEF Course, Covered, Finishes, Complete
  <2>7. CASE ~Listed(g)
    BY <1>2, <2>1, <2>2, <2>3, <2>6, <2>7 DEF Visit, Course, Walks, Accounted, rows
  <2>8. CASE g \in snap.ign
    <3>1. g \notin stayed
      BY <2>8 DEF Course, Wanted
    <3> QED BY <2>0, <2>1, <2>2, <2>3, <2>4, <2>5, <2>6, <3>1 DEF Course, Walks, Accounted
  <2>9. CASE Listed(g) /\ g \notin snap.ign
    <3>0. snap \in Snap
      BY DEF TypeOK
    <3>1. snap' = [snap EXCEPT !.todo = @ \ {g}, !.seen = @ \cup {g}, !.any = TRUE]
      BY <1>2, <2>9 DEF Visit
    <3>2. g \in snap'.seen
      BY <3>0, <3>1 DEF Snap
    <3>3. CASE Unchanged(g)
      <4>1. row' = row /\ row[g] # "missing"
        BY <1>2, <2>1, <2>9, <3>3 DEF Visit, Unchanged, Course, Walks
      <4> QED BY <2>0, <2>1, <2>2, <2>3, <2>5, <2>6, <3>2, <4>1 DEF Course, Walks, Accounted
    <3>4. CASE Upsert(g)
      <4>1. g \in stayed => row'[g] = "present"
        BY <3>4, UpsertEffect DEF Course, Wanted
      <4> QED BY <2>0, <2>1, <2>2, <2>3, <2>4, <2>5, <2>6, <3>2, <4>1
          DEF Course, Walks, Accounted
    <3> QED BY <1>2, <2>9, <3>3, <3>4 DEF Visit
  <2> QED BY <2>7, <2>8, <2>9
<1> QED BY <1>1, <1>2

LEMMA RecheckCourse ==
  ASSUME TypeOK, Course, NEW r \in Root, Recheck(r), UNCHANGED <<ignored, root>>
  PROVE  Course'
<1>1. CASE mount[r] = "gone"
  BY <1>1, EndsCourse DEF Recheck, Outcome
<1>2. CASE mount[r] # "gone"
  BY <1>2
    DEF Recheck, Go, Course, Running, Wanted, Walks, Accounted, Covered, Finishes, Complete,
        rows
<1> QED BY <1>1, <1>2

\* What goes missing here was walked past without being listed.
LEMMA MarksUnlisted ==
  ASSUME TypeOK, Course, MarkMissing, MarkGone
  PROVE  \A f \in stayed : row'[f] = "missing" /\ row[f] # "missing" => f \in unlisted
<1>1. pc = "mark" /\ \A f \in File : row'[f] = "missing" => row[f] = "missing" \/ f \in Gone
  BY DEF MarkMissing, MarkGone
<1>2. \A f \in Gone \cap stayed : f \in unlisted
  BY <1>1 DEF Gone, Course, Walks, Accounted
<1> QED BY <1>1, <1>2 DEF TypeOK

LEMMA MarkMissingCourse ==
  ASSUME TypeOK, Course, MarkMissing, UNCHANGED <<ignored, root>>
  PROVE  Course'
<1>1. CASE Stopped
  BY <1>1, StoppedCourse DEF MarkMissing
<1>2. CASE ~Stopped
  <2>1. pc = "mark" /\ MarkGone /\ Onward(Walked) /\ UNCHANGED notes
    BY <1>2 DEF MarkMissing, MarkGone
  <2>2. /\ Walked \in Snap /\ Walked.roots = snap.roots /\ Walked.ign = snap.ign
        /\ Walked.at = {} /\ Walked.skipped = snap.skipped
    BY Records DEF Walked, NoSnap, TypeOK
  <2>3. \A f \in File : row'[f] = "missing" => row[f] = "missing" \/ f \in Gone
    BY <2>1 DEF MarkGone
  <2>4. ASSUME NEW f \in stayed, ~snap.skipped, RootOf[f] \notin snap.roots, row'[f] = "missing"
        PROVE  f \in unlisted
    <3>1. CASE RootOf[f] \in snap.at
      BY <2>1, <2>3, <2>4, <3>1 DEF Gone, Course, Walks, Accounted, TypeOK
    <3>2. CASE RootOf[f] \notin snap.at
      <4>1. f \notin Gone /\ f \in File
        BY <2>1, <3>2 DEF Gone, Course, Walks, TypeOK
      <4> QED BY <2>1, <2>3, <2>4, <3>2, <4>1 DEF Course, Covered
    <3> QED BY <3>1, <3>2
  <2> QED BY <2>1, <2>2, <2>4, OnwardCourse DEF Course, Running, Wanted, notes
<1> QED BY <1>1, <1>2

LEMMA FinishingCourse ==
  ASSUME TypeOK, Course, Finishing, UNCHANGED <<ignored, root>>
  PROVE  Course'
<1>1. stayed \subseteq File
  BY DEF TypeOK
<1>2. CASE Hierarchy \/ Follow
  <2>1. /\ \/ pc = "hierarchy" /\ pc' = "follow" /\ UNCHANGED followed
           \/ pc = "follow" /\ pc' = "touch"
        /\ UNCHANGED <<state, snap, stayed, unlisted, row>>
    BY <1>2 DEF Hierarchy, Follow, PassFails, Go, rows, notes
  <2> QED BY <2>1 DEF Course, Running, Wanted, Walks, Covered, Finishes, Complete
<1>3. CASE Touch
  <2>1. CASE Stopped
    BY <1>3, <2>1, StoppedCourse DEF Touch
  <2>2. CASE ~Stopped
    <3>1. pc = "touch" /\ Ends(snap, "complete") /\ UNCHANGED <<rows, notes>>
      BY <1>3, <2>2 DEF Touch
    <3>2. /\ pc' = "trash" /\ snap'.roots = snap.roots /\ snap'.at = snap.at
          /\ snap'.ign = snap.ign /\ snap'.skipped = snap.skipped /\ UNCHANGED state
      BY <3>1 DEF Ends, TypeOK, Snap
    <3> QED BY <3>1, <3>2
        DEF Course, Running, Wanted, Walks, Covered, Finishes, Complete, rows, notes
  <2> QED BY <2>1, <2>2
<1>4. CASE EmptyTrash
  <2>1. pc = "trash" /\ pc' = "publish" /\ UNCHANGED <<state, snap, notes>>
    BY <1>4 DEF EmptyTrash, Go
  <2> QED BY <2>1 DEF Course, Running, Wanted, Walks, Covered, Finishes, Complete, notes
<1>5. CASE Publish
  BY <1>5 DEF Publish, NoSnap, Course, Running, Wanted, Walks, Covered, Finishes, Complete
<1> QED BY <1>2, <1>3, <1>4, <1>5 DEF Finishing

LEMMA StartCourse == ASSUME TypeOK, Course, StartScan PROVE Course'
  BY DEF StartScan, Start, NoSnap, Course, Running, Wanted, Walks, Covered, Finishes,
         Complete

\* The inductive invariant.
Inv == TypeOK /\ Ended /\ Course

LEMMA InvInit == Init => Inv
  BY TypeInit DEF Init, Inv, Ended, NoSnap, Course, Running, Wanted, Walks, Covered,
     Finishes, Complete

LEMMA InvStep == Inv /\ [Next]_vars => Inv'
<1> SUFFICES ASSUME Inv, [Next]_vars PROVE Inv'
  OBVIOUS
<1>1. TypeOK' /\ Ended'
  BY TypeStep DEF Inv
<1>2. CASE ScanStep
  <2>1. TypeOK /\ Course /\ UNCHANGED <<ignored, root>>
    BY <1>2 DEF ScanStep, Inv
  <2>2. CASE Walking
    <3>1. Course'
      BY <2>1, <2>2, ListRootsCourse, NextRootCourse, ReadKnownCourse, VisitCourse,
         RecheckCourse, MarkMissingCourse DEF Walking
    <3> QED BY <1>1, <3>1 DEF Inv
  <2> QED BY <1>1, <1>2, <2>1, <2>2, FinishingCourse DEF ScanStep, Inv
<1>3. CASE UNCHANGED vars
  BY <1>1, <1>3 DEF vars, rows, scan, notes, Inv, Course, Running, Wanted, Walks, Accounted,
     Covered, Finishes, Complete
<1> QED BY <1>1, <1>2, <1>3, StartCourse, AroundCourse DEF Next, Inv

---------------------------------------------------------------------------
\* Only MarkMissing marks, ...
LEMMA OnlyMarkMissing ==
  ASSUME TypeOK, Next, NEW f \in File, Marks(f)
  PROVE  MarkMissing /\ MarkGone
<1> USE DEF Marks
<1>1. CASE Around
  <2>1. row' = row \/ \E F \in SUBSET File : Drop(F)
    BY <1>1
      DEF Around, Change, Ignore, Delete, Forget, DeleteItems, Block, Remount, AddRoot,
       RemoveRoot, Cancel, Restart, rows
  <2> QED BY <2>1, DropEffect
<1>2. CASE StartScan
  BY <1>2 DEF StartScan, Start, rows
<1>3. CASE Finishing
  <2>1. row' = row \/ Drop(Trash)
    BY <1>3
      DEF Finishing, Hierarchy, Follow, Touch, EmptyTrash, Publish, PassFails, Stopped, rows
  <2>2. Trash \in SUBSET File
    BY DEF Trash
  <2> QED BY <2>1, <2>2, DropEffect
<1>4. CASE \E g \in File : Visit(g)
  <2>1. PICK g \in File : Visit(g)
    BY <1>4
  <2>2. row' = row \/ Upsert(g)
    BY <2>1 DEF Visit, Stopped, rows
  <2> QED BY <2>2, UpsertEffect
<1>5. CASE MarkMissing
  BY <1>5 DEF MarkMissing, Stopped, rows
<1>6. CASE ListRoots \/ \E r \in Root : NextRoot(r) \/ ReadKnown(r) \/ Recheck(r)
  BY <1>6 DEF ListRoots, NextRoot, ReadKnown, Recheck, Stopped, rows
<1> QED BY <1>1, <1>2, <1>3, <1>4, <1>5, <1>6 DEF Next, ScanStep, Walking

\* ... and only EmptyTrash empties, what is missing.
LEMMA OnlyEmptyTrash ==
  ASSUME TypeOK, Next, NEW f \in File, Empties(f)
  PROVE  EmptyTrash /\ Drop(Trash) /\ MayEmptyTrash /\ row[f] = "missing"
<1> USE DEF Empties
<1>1. CASE EmptyTrash
  <2>1. Drop(Trash) /\ MayEmptyTrash
    BY <1>1 DEF EmptyTrash, rows
  <2>2. Trash \in SUBSET File
    BY DEF Trash
  <2> QED BY <1>1, <2>1, <2>2, DropEffect DEF Trash
<1>2. CASE ~EmptyTrash
  BY <1>2 DEF Next, StartScan, Start, ScanStep, Walking, Finishing, ListRoots, NextRoot,
     ReadKnown, Visit, Recheck, MarkMissing, Hierarchy, Follow, Touch, Publish, PassFails,
     Around, Change, Ignore, Delete, Forget, DeleteItems, Block, Remount, AddRoot, RemoveRoot,
     Cancel, Restart, scan
<1> QED BY <1>1, <1>2

\* A file that stayed goes, by a mark or with the trash, only when this scan's walk of
\* its location did not list it: every other location's walk, and every walk that
\* was skipped, lost its drive or was cancelled, leaves it alone.
THEOREM GoneWereUnlisted == Spec => OnlyUnlistedGo
<1>1. Inv /\ [Next]_vars => [\A f \in stayed : Marks(f) \/ Empties(f) => f \in unlisted]_vars
  <2> SUFFICES ASSUME Inv, Next, NEW f \in stayed, Marks(f) \/ Empties(f)
               PROVE  f \in unlisted
    OBVIOUS
  <2>1. TypeOK /\ Course /\ f \in File
    BY DEF Inv, TypeOK
  <2>2. CASE Marks(f)
    BY <2>1, <2>2, OnlyMarkMissing, MarksUnlisted DEF Marks
  <2>3. CASE Empties(f)
    <3>1. EmptyTrash /\ Drop(Trash) /\ MayEmptyTrash /\ row[f] = "missing"
      BY <2>1, <2>3, OnlyEmptyTrash
    <3> QED BY <2>1, <3>1 DEF EmptyTrash, MayEmptyTrash, Course, Covered, Finishes, Complete
  <2> QED BY <2>2, <2>3
<1> QED BY <1>1, InvInit, InvStep, PTL DEF Spec, OnlyUnlistedGo

\* No step of a cancelled scan marks anything missing.
THEOREM CancelledMarksNothing == Spec => CancelMarksNothing
<1>1. Inv /\ [Next]_vars => [cancelled => \A f \in File : ~Marks(f)]_vars
  <2> SUFFICES ASSUME Inv, Next, cancelled, NEW f \in File, Marks(f)
               PROVE  FALSE
    OBVIOUS
  <2>1. MarkMissing /\ MarkGone
    BY OnlyMarkMissing DEF Inv
  <2>2. Gone # {}
    BY <2>1 DEF MarkGone, Marks
  <2> QED BY <2>1, <2>2 DEF MarkMissing, Stopped, MarkGone, Marks, rows
<1> QED BY <1>1, InvInit, InvStep, PTL DEF Spec, CancelMarksNothing

\* Nothing is marked or emptied once everybody was told that the scan is over.
THEOREM SilentAfterwards == Spec => NothingAfterFinished
<1>1. Inv /\ [Next]_vars => [\A f \in File : Marks(f) \/ Empties(f) => Scanning]_vars
  <2> SUFFICES ASSUME Inv, Next, NEW f \in File, Marks(f) \/ Empties(f)
               PROVE  Scanning
    OBVIOUS
  <2>1. pc # "rest"
    BY OnlyMarkMissing DEF Inv, MarkMissing, Empties
  <2> QED BY <2>1 DEF Inv, Course, Running, Scanning
<1> QED BY <1>1, InvInit, InvStep, PTL DEF Spec, NothingAfterFinished

---------------------------------------------------------------------------
LEMMA HiddenStep == ASSUME Inv, NoHiddenEpisode, Next PROVE NoHiddenEpisode'
<1> USE DEF NoHiddenEpisode
<1>1. TypeOK /\ Running
  BY DEF Inv, Course
<1>2. CASE Walking
  <2>1. ~followed' \/ pc = "rest"
    BY <1>1, <1>2 DEF Running, Walking, ListRoots, NextRoot, ReadKnown, Visit, Recheck,
       MarkMissing, MarkGone, Stopped, notes
  <2> QED BY <1>2, <2>1
      DEF Walking, ListRoots, NextRoot, ReadKnown, Visit, Recheck, MarkMissing
<1>3. CASE Hierarchy
  BY <1>1, <1>3 DEF Hierarchy, PassFails, Running, notes
<1>4. CASE Follow
  BY <1>1, <1>4 DEF Follow, PassFails, ShowAfter, Running, rows, notes
<1>5. CASE EmptyTrash
  <2>1. Trash \in SUBSET File
    BY DEF Trash
  <2>2. show' = "missing" => UNCHANGED <<rows, notes>>
    BY <1>1, <1>5 DEF EmptyTrash, notes
  <2> QED BY <2>2 DEF rows, notes
<1>6. CASE Touch \/ Publish
  BY <1>6 DEF Touch, Stopped, Publish, rows, notes
<1>7. CASE StartScan
  BY <1>7 DEF StartScan, Start
<1>8. CASE Around
  <2>1. UNCHANGED <<show, followed>>
    BY <1>8
      DEF Around, Change, Ignore, Delete, Forget, DeleteItems, Block, Remount, AddRoot,
       RemoveRoot, Cancel, Restart, Leaves, rows, notes
  <2>2. UNCHANGED <<row, under>> \/ \E F \in SUBSET File : Drop(F)
    BY <1>8
      DEF Around, Change, Ignore, Delete, Forget, DeleteItems, Block, Remount, AddRoot,
       RemoveRoot, Cancel, Restart, rows
  <2>3. ASSUME NEW F \in SUBSET File, Drop(F) PROVE NoHiddenEpisode'
    <3>1. under' \subseteq under /\ \A f \in under : row'[f] \in {"none", row[f]}
      BY <1>1, <2>3, LibraryAssumption, DropEffect DEF Drop, TypeOK
    <3> QED BY <2>1, <3>1
  <2> QED BY <2>1, <2>2, <2>3
<1> QED BY <1>2, <1>3, <1>4, <1>5, <1>6, <1>7, <1>8 DEF Next, ScanStep, Finishing

\* Once a scan made a show follow its episodes, it is not hidden with one that is
\* there, whatever is deleted, refiled or emptied until the next scan.
THEOREM EpisodesShow == Spec => []NoHiddenEpisode
<1>1. Init => NoHiddenEpisode
  BY DEF Init, NoHiddenEpisode
<1>2. Inv /\ NoHiddenEpisode /\ [Next]_vars => NoHiddenEpisode'
  BY HiddenStep DEF vars, rows, notes, NoHiddenEpisode
<1> QED BY <1>1, <1>2, InvInit, InvStep, PTL DEF Spec

---------------------------------------------------------------------------
(* What a complete scan shows.                                             *)

\* When a scan that skipped no location completes, every file that was there, and
\* wanted, since it began and that its walk could list has its row, and shows:
\* whatever else was added, taken out, cancelled or deleted meanwhile.
CompleteHasAll ==
  Complete /\ ~snap.skipped => \A f \in stayed \ unlisted : row[f] = "present"

\* Nobody is deleting a file that stayed, and what this scan knew or saw of such
\* files, or walked past, has a row still.
Far == pc \in {"next", "known", "walk", "mark"} \/ Finishes
HasRows ==
  /\ \A f \in stayed : taking[f] = "no"
  /\ pc \in {"walk", "mark"} => \A f \in stayed \cap snap.known : row[f] # "none"
  /\ pc \in {"next", "known", "walk", "mark"} =>
       \A f \in stayed \cap snap.seen : row[f] # "none"
  /\ Far => \/ snap.skipped
            \/ \A f \in stayed \ unlisted :
                 RootOf[f] \notin snap.roots \cup snap.at => row[f] # "none"

\* Around a scan, whoever loses its row, or is about to, has not stayed.
LEMMA AroundHasRows == ASSUME Inv, HasRows, Around PROVE HasRows'
<1> USE DEF Inv, rows, disks, scan, notes
<1>0. stayed \subseteq File
  BY DEF TypeOK
<1>1. ASSUME UNCHANGED <<pc, snap, unlisted>>, stayed' \subseteq stayed,
             \A f \in stayed' : taking'[f] = taking[f] /\ row'[f] = row[f]
      PROVE  HasRows'
  BY <1>1 DEF HasRows, Far, Finishes, Complete
<1>2. ASSUME NEW f \in File, Change(f) \/ Ignore(f) \/ Delete(f) \/ Forget(f) PROVE HasRows'
  <2>1. /\ UNCHANGED <<pc, snap, unlisted, row>> /\ stayed' \subseteq stayed
        /\ taking' = taking \/ (taking' = [taking EXCEPT ![f] = "row"] /\ f \notin stayed')
    BY <1>2 DEF Change, Ignore, Delete, Forget, Leaves
  <2>2. \A g \in stayed' : taking'[g] = taking[g]
    BY <1>0, <2>1 DEF TypeOK
  <2> QED BY <1>1, <2>1, <2>2
<1>3. ASSUME NEW f \in File, DeleteItems(f) PROVE HasRows'
  <2>1. f \notin stayed
    BY <1>3 DEF DeleteItems, HasRows
  <2>2. \A g \in stayed : taking'[g] = taking[g] /\ row'[g] = row[g]
    BY <1>0, <1>3, <2>1 DEF DeleteItems, Drop
  <2> QED BY <1>1, <1>3, <2>2 DEF DeleteItems
<1>4. CASE \/ \E f \in Blockable : Block(f)
           \/ \E r \in Drive : Remount(r)
           \/ \E r \in Root : AddRoot(r)
           \/ Cancel
  BY <1>1, <1>4 DEF Block, Remount, AddRoot, Cancel
<1>5. ASSUME NEW r \in Root, RemoveRoot(r) PROVE HasRows'
  <2>1. \A g \in stayed' : taking'[g] = taking[g] /\ row'[g] = row[g]
    BY <1>0, <1>5 DEF RemoveRoot, Leaves, Drop
  <2> QED BY <1>1, <1>5, <2>1 DEF RemoveRoot, Leaves
<1>6. CASE Restart
  BY <1>6 DEF Restart, HasRows, Far, Finishes, Complete
<1> QED BY <1>2, <1>3, <1>4, <1>5, <1>6 DEF Around

\* Onward from S, which covers what was walked so far.
LEMMA OnwardHasRows ==
  ASSUME HasRows, NEW S \in Snap, Onward(S), UNCHANGED <<taking, stayed, unlisted>>, S.at = {},
         \A f \in stayed \cap S.seen : row'[f] # "none",
         \/ S.skipped
         \/ \A f \in stayed \ unlisted : RootOf[f] \notin S.roots => row'[f] # "none"
  PROVE  HasRows'
  BY OnwardEffect DEF HasRows, Far, Finishes, Complete

LEMMA StoppedHasRows == ASSUME Inv, HasRows, Stopped PROVE HasRows'
<1>1. pc' = "trash" /\ snap'.end = "cancelled"
  BY DEF Stopped, Ends, Inv, TypeOK, Snap
<1> QED BY <1>1 DEF Stopped, HasRows, Far, Finishes, Complete, notes

\* A walk ends with a row for whatever it could list of its location.
LEMMA VisitHasRows == ASSUME Inv, HasRows, NEW g \in File, Visit(g) PROVE HasRows'
<1>1. CASE Stopped
  BY <1>1, StoppedHasRows
<1>2. CASE ~Stopped
  <2>0. snap \in Snap /\ stayed \subseteq File /\ TypeOK
    BY DEF Inv, TypeOK
  <2>1. /\ pc = "walk" /\ pc' = "walk" /\ UNCHANGED <<taking, stayed>>
        /\ unlisted \subseteq unlisted'
        /\ \/ snap' = [snap EXCEPT !.todo = @ \ {g}]
           \/ /\ snap' = [snap EXCEPT !.todo = @ \ {g}, !.seen = @ \cup {g}, !.any = TRUE]
              /\ g \notin snap.ign /\ (Unchanged(g) \/ Upsert(g))
    BY <1>2 DEF Visit, Go, notes
  <2>2. /\ snap'.at = snap.at /\ snap'.roots = snap.roots /\ snap'.skipped = snap.skipped
        /\ snap'.known = snap.known
        /\ snap'.seen = snap.seen \/ (snap'.seen = snap.seen \cup {g} /\ (Unchanged(g) \/ Upsert(g)))
    BY <2>0, <2>1 DEF Snap
  <2>3. \A f \in File : row[f] # "none" => row'[f] # "none"
    BY <1>2, <2>0, UpsertEffect DEF Visit, rows
  <2>4. g \in stayed /\ Unchanged(g) => row[g] # "none"
    BY <2>1 DEF Unchanged, HasRows
  <2>5. g \in stayed /\ Upsert(g) => row'[g] # "none"
    BY <2>0, UpsertEffect DEF Inv, Course, Wanted
  <2> QED BY <2>0, <2>1, <2>2, <2>3, <2>4, <2>5 DEF HasRows, Far, Finishes, Complete
<1> QED BY <1>1, <1>2

LEMMA WalkingHasRows ==
  ASSUME Inv, HasRows, Walking, UNCHANGED <<ignored, root>> PROVE HasRows'
<1> USE DEF rows, notes
<1>0. snap \in Snap /\ stayed \subseteq File /\ TypeOK
  BY DEF Inv, TypeOK
<1>1. CASE Stopped
  BY <1>1, StoppedHasRows
<1>2. CASE ListRoots /\ ~Stopped
  <2> DEFINE R == {r \in Root : root[r] = "kept"}
             S == [NoSnap EXCEPT !.roots = R, !.ign = ignored]
  <2>1. ignored \in SUBSET File /\ R \in SUBSET Root
    BY DEF Inv, TypeOK
  <2>2. S \in Snap /\ S.roots = R /\ S.at = {} /\ S.seen = {}
    BY <2>1, Records DEF Snap, NoSnap
  <2>3. \A f \in stayed : RootOf[f] \in R
    BY <1>0, LibraryAssumption DEF Inv, Course, Wanted
  <2>4. Onward(S) /\ UNCHANGED <<rows, taking, notes>>
    BY <1>2 DEF ListRoots
  <2> HIDE DEF S, R
  <2> QED BY <2>2, <2>3, <2>4, OnwardHasRows
<1>3. ASSUME NEW r \in Root, NextRoot(r) PROVE HasRows'
  <2> DEFINE S == [snap EXCEPT !.roots = @ \ {r}, !.skipped = TRUE]
  <2>1. pc = "next" /\ snap.at = {} /\ UNCHANGED <<rows, taking, notes>>
    BY <1>3 DEF NextRoot, Inv, Course, Covered
  <2>2. CASE Onward(S)
    <3>1. S \in Snap /\ S.skipped /\ S.at = {} /\ S.seen = snap.seen
      BY <1>0, <2>1 DEF Snap
    <3> HIDE DEF S
    <3> QED BY <2>1, <2>2, <3>1, OnwardHasRows DEF HasRows
  <2>3. CASE ~Onward(S)
    <3>1. pc' = "known" /\ snap' = [snap EXCEPT !.roots = @ \ {r}, !.at = {r}]
      BY <1>3, <2>3 DEF NextRoot, Go
    <3>2. /\ snap'.roots = snap.roots \ {r} /\ snap'.at = {r}
          /\ snap'.skipped = snap.skipped /\ snap'.seen = snap.seen
      BY <1>0, <3>1 DEF Snap
    <3> QED BY <2>1, <3>1, <3>2 DEF HasRows, Far, Finishes, Complete
  <2> QED BY <2>2, <2>3
<1>4. ASSUME NEW r \in Root, ReadKnown(r), ~Stopped PROVE HasRows'
  <2>1. pc = "known" /\ pc' = "walk" /\ UNCHANGED <<rows, taking, notes>>
    BY <1>4 DEF ReadKnown, Go
  <2>2. /\ snap'.known = Known(r) /\ snap'.at = snap.at /\ snap'.roots = snap.roots
        /\ snap'.skipped = snap.skipped /\ snap'.seen = snap.seen
    BY <1>0, <1>4 DEF ReadKnown, Snap
  <2> QED BY <2>1, <2>2 DEF Known, HasRows, Far, Finishes, Complete
<1>5. ASSUME NEW r \in Root, Recheck(r) PROVE HasRows'
  <2>1. CASE mount[r] = "gone"
    <3>1. pc' = "trash" /\ snap'.end = "failed"
      BY <1>0, <1>5, <2>1 DEF Recheck, Ends, Snap
    <3> QED BY <1>5, <3>1 DEF Recheck, HasRows, Far, Finishes, Complete
  <2>2. CASE mount[r] # "gone"
    BY <1>5, <2>2 DEF Recheck, Go, HasRows, Far, Finishes, Complete
  <2> QED BY <2>1, <2>2
<1>6. CASE MarkMissing /\ ~Stopped
  <2>1. pc = "mark" /\ MarkGone /\ Onward(Walked) /\ UNCHANGED <<taking, notes>>
    BY <1>6 DEF MarkMissing, MarkGone
  <2>2. /\ Walked \in Snap /\ Walked.roots = snap.roots /\ Walked.at = {}
        /\ Walked.skipped = snap.skipped /\ Walked.seen = {}
    BY <1>0, Records DEF Walked, NoSnap
  <2>3. \A f \in File : row[f] # "none" => row'[f] # "none"
    BY <2>1 DEF MarkGone
  <2>4. ASSUME ~snap.skipped, NEW f \in stayed \ unlisted, RootOf[f] \notin snap.roots
        PROVE  row'[f] # "none"
    <3>1. CASE RootOf[f] \in snap.at
      <4>1. f \in snap.seen
        BY <2>1, <2>4, <3>1 DEF Inv, Course, Walks, Accounted
      <4> QED BY <1>0, <2>1, <2>3, <4>1 DEF HasRows
    <3>2. CASE RootOf[f] \notin snap.at
      BY <1>0, <2>1, <2>3, <2>4, <3>2 DEF HasRows, Far
    <3> QED BY <3>1, <3>2
  <2> QED BY <2>1, <2>2, <2>4, OnwardHasRows
<1> QED BY <1>1, <1>2, <1>3, <1>4, <1>5, <1>6, VisitHasRows DEF Walking

LEMMA FinishingHasRows == ASSUME Inv, HasRows, Finishing PROVE HasRows'
<1> USE DEF rows, notes
<1>1. CASE Hierarchy \/ Follow
  <2>1. /\ Finishes /\ UNCHANGED <<snap, row, taking, stayed, unlisted>>
        /\ pc' \in {"follow", "touch"}
    BY <1>1 DEF Hierarchy, Follow, PassFails, Go, Finishes
  <2> QED BY <2>1 DEF HasRows, Far, Finishes, Complete
<1>2. CASE Touch
  <2>1. CASE ~Stopped
    <3>1. /\ pc = "touch" /\ pc' = "trash" /\ UNCHANGED <<rows, taking, notes>>
          /\ snap'.roots = snap.roots /\ snap'.at = snap.at /\ snap'.skipped = snap.skipped
      BY <1>2, <2>1 DEF Touch, Ends, Inv, TypeOK, Snap
    <3> QED BY <3>1 DEF HasRows, Far, Finishes, Complete
  <2> QED BY <2>1, StoppedHasRows
<1>3. CASE EmptyTrash
  <2>1. /\ pc' = "publish" /\ UNCHANGED <<stayed, unlisted>>
        /\ taking' = taking \/ \A f \in File : taking'[f] \in {"no", taking[f]}
    BY <1>3 DEF EmptyTrash, Go, Drop
  <2>2. stayed \subseteq File
    BY DEF Inv, TypeOK
  <2> QED BY <2>1, <2>2 DEF HasRows, Far, Finishes, Complete
<1>4. CASE Publish
  BY <1>4 DEF Publish, HasRows, Far, Finishes, Complete
<1> QED BY <1>1, <1>2, <1>3, <1>4 DEF Finishing

LEMMA HasRowsStep == Inv /\ HasRows /\ [Next]_vars => HasRows'
<1> SUFFICES ASSUME Inv, HasRows, [Next]_vars PROVE HasRows'
  OBVIOUS
<1>1. CASE StartScan
  BY <1>1 DEF StartScan, Start, HasRows, Far, Finishes, Complete
<1>2. CASE UNCHANGED vars
  BY <1>2 DEF vars, rows, scan, notes, HasRows, Far, Finishes, Complete
<1> QED
  BY <1>1, <1>2, AroundHasRows, WalkingHasRows, FinishingHasRows DEF Next, ScanStep

\* A scan that completes, with no location skipped, has missed nothing that was there
\* to find.
THEOREM CompleteScansMissNothing == Spec => []CompleteHasAll
<1>1. Init => HasRows
  BY DEF Init, HasRows, Far, Finishes, Complete
<1>2. Inv /\ HasRows => CompleteHasAll
  BY DEF Inv, TypeOK, Course, Covered, Finishes, Complete, HasRows, Far, CompleteHasAll
<1> QED BY <1>1, <1>2, InvInit, InvStep, HasRowsStep, PTL DEF Spec
=============================================================================
