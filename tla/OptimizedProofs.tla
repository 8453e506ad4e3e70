--------------------------- MODULE OptimizedProofs ---------------------------
(***************************************************************************)
(* What a row of Optimized that says ready can be relied upon for, however *)
(* many titles there are and whatever falls between the worker's steps.    *)
(***************************************************************************)
EXTENDS Optimized, FiniteSetTheorems, TLAPS

\* The row and the two files of every title, and who works on which.
Typed == /\ row \in [Title -> State]
         /\ copy \in [Title -> File] /\ part \in [Title -> File]
         /\ pc \in Working => job \in Title
         /\ unheld \subseteq Title

\* What the sweep removes belongs to titles that cannot be ready before it ends.
Sweeping == /\ unheld # {} => pc = "clear"
            /\ \A t \in unheld : row[t] \in {"none", "queued"}

\* The conversion in hand is of a title that is not ready, and its file is whole
\* from the moment ffmpeg ends until the row says so.
Converting == /\ pc \in Working \ {"tidy"} => row[job] # "ready"
              /\ pc \in {"probe", "rename"} => part[job] = "whole"
              /\ pc = "ready" => copy[job] = "whole"

Inv == Typed /\ Sweeping /\ Converting /\ ReadyIsWhole

---------------------------------------------------------------------------
LEMMA InvInit == Init => Inv
  BY DEF Init, Inv, Typed, Sweeping, Converting, ReadyIsWhole, State, File, Working

\* A mark moves the row of one title, and no file.
LEMMA Marking ==
  ASSUME row \in [Title -> State], NEW t \in Title, NEW s \in State, NEW b,
         MarkOptimized(t, s, b)
  PROVE  /\ row' \in [Title -> State] /\ row'[t] = s
         /\ \A u \in Title \ {t} : row'[u] = row[u]
  BY DEF MarkOptimized

LEMMA SweepStep == ASSUME Inv, Sweep PROVE Inv'
<1> USE DEF Inv, Typed, Sweeping, Converting, ReadyIsWhole, Working, files, rows
<1>1. CASE SweepList
  BY <1>1 DEF SweepList
<1>2. CASE SweepEnds
  BY <1>2 DEF SweepEnds, Go
<1>3. CASE \E t \in Title : SweepFile(t)
  <2>1. PICK t \in Title : SweepFile(t)
    BY <1>3
  <2>2. copy' \in [Title -> File] /\ part' \in [Title -> File] /\ UNCHANGED <<row, pc, job>>
    BY <2>1 DEF SweepFile, File
  <2>3. row[t] # "ready" /\ \A u \in Title \ {t} : copy'[u] = copy[u]
    BY <2>1 DEF SweepFile
  <2> QED BY <2>1, <2>2, <2>3 DEF SweepFile
<1> QED BY <1>1, <1>2, <1>3 DEF Sweep

LEMMA ChooseStep == ASSUME Inv, Choose PROVE Inv'
<1> USE DEF Inv, Typed, Sweeping, Converting, ReadyIsWhole, Working, files, rows
<1>1. CASE Yield
  BY <1>1 DEF Yield, Rest, Go
<1>2. CASE Take
  BY <1>2 DEF Take, Rest, Oldest
<1>3. CASE Room
  BY <1>3 DEF Room, Rest, Go
<1> QED BY <1>1, <1>2, <1>3 DEF Choose
\* The steps of convertOne up to the end of ffmpeg.
LEMMA ConvertStep ==
  ASSUME Inv, Mark \/ Read \/ Converted \/ Broken \/ Cancelled
  PROVE  Inv'
<1> USE DEF Inv, Typed, Sweeping, Converting, ReadyIsWhole, Working, files, rows
<1>1. CASE Mark
  <2>1. CASE Marks(job)
    <3>1. row' \in [Title -> State] /\ row'[job] = "converting"
          /\ \A u \in Title \ {job} : row'[u] = row[u]
      BY <1>1, <2>1, Marking DEF Mark, State
    <3> QED BY <1>1, <2>1, <3>1 DEF Mark, Go
  <2>2. CASE ~Marks(job)
    BY <1>1, <2>2 DEF Mark, Rest
  <2> QED BY <2>1, <2>2
<1>2. CASE Read
  BY <1>2 DEF Read, Go, File
<1>3. CASE Converted
  BY <1>3 DEF Converted, Go, File
<1>4. CASE Broken \/ Cancelled
  BY <1>4 DEF Broken, Cancelled, Go
<1> QED BY <1>1, <1>2, <1>3, <1>4

\* Its ends: the one that makes the title ready finds the file in place.
LEMMA EndStep ==
  ASSUME Inv, Requeue \/ Probe \/ Rename \/ Ready \/ Unlink \/ Fail \/ Tidy
  PROVE  Inv'
<1> USE DEF Inv, Typed, Sweeping, Converting, ReadyIsWhole, Working, files, rows
<1>1. CASE Requeue
  <2>1. row' = row \/ (row' \in [Title -> State] /\ row'[job] = "queued"
                        /\ \A u \in Title \ {job} : row'[u] = row[u])
    BY <1>1, Marking DEF Requeue, State
  <2> QED BY <1>1, <2>1 DEF Requeue, Go
<1>2. CASE Probe
  BY <1>2 DEF Probe, Go
<1>3. CASE Rename
  BY <1>3 DEF Rename, Go, File
<1>4. CASE Ready
  <2>1. CASE Marks(job)
    <3>1. row' \in [Title -> State] /\ row'[job] = "ready"
          /\ \A u \in Title \ {job} : row'[u] = row[u]
      BY <1>4, <2>1, Marking DEF Ready, State
    <3> QED BY <1>4, <2>1, <3>1 DEF Ready, Go
  <2>2. CASE ~Marks(job)
    BY <1>4, <2>2 DEF Ready, Go
  <2> QED BY <2>1, <2>2
<1>5. CASE Unlink
  BY <1>5 DEF Unlink, Go, File
<1>6. CASE Fail
  <2>1. row' = row \/ (row' \in [Title -> State] /\ row'[job] = "failed"
                        /\ \A u \in Title \ {job} : row'[u] = row[u])
    BY <1>6, Marking DEF Fail, State
  <2> QED BY <1>6, <2>1 DEF Fail, Go, Rest
<1>7. CASE Tidy
  BY <1>7 DEF Tidy, Rest, File
<1> QED BY <1>1, <1>2, <1>3, <1>4, <1>5, <1>6, <1>7

LEMMA LoopStep == ASSUME Inv, Loop PROVE Inv'
<1>1. CASE Resume
  <2>1. /\ pc = "resume" /\ pc' = "sweep" /\ UNCHANGED <<copy, part, job, unheld>>
        /\ row' \in [Title -> State]
        /\ \A t \in Title : row'[t] = "ready" <=> row[t] = "ready"
    BY <1>1 DEF Resume, Go, Inv, Typed, State, files
  <2> QED BY <2>1 DEF Inv, Typed, Sweeping, Converting, ReadyIsWhole, Working
<1>2. CASE Again
  BY <1>2
    DEF Again, Go, Inv, Typed, Sweeping, Converting, ReadyIsWhole, Working, files, rows
<1> QED BY <1>1, <1>2, SweepStep, ChooseStep, ConvertStep, EndStep DEF Loop, Convert

---------------------------------------------------------------------------
\* Requests come as queued and go as none, and no file moves under the worker.
LEMMA AroundStep == ASSUME Inv, Around PROVE Inv'
<1> USE DEF Inv, Typed, Sweeping, Converting, ReadyIsWhole, Working, files, rows, worker
<1>1. CASE \E t \in Title : RequestOptimized(t)
  BY <1>1 DEF RequestOptimized, State
<1>2. CASE \E t \in Title : RemoveOptimized(t)
  BY <1>2 DEF RemoveOptimized, State
<1>3. CASE Play \/ Stop
  BY <1>3 DEF Play, Stop
<1>4. CASE Held
  BY <1>4 DEF Held, SweepHeld
<1>5. CASE Crash
  BY <1>5 DEF Crash, Over
<1> QED BY <1>1, <1>2, <1>3, <1>4, <1>5 DEF Around

LEMMA InvStep == Inv /\ [Next]_vars => Inv'
<1> SUFFICES ASSUME Inv, [Next]_vars PROVE Inv'
  OBVIOUS
<1> USE DEF Inv, Typed, Sweeping, Converting, ReadyIsWhole, Working, files, rows, worker
<1>1. CASE Loop \/ Around
  BY <1>1, LoopStep, AroundStep
<1>2. CASE Watch
  BY <1>2 DEF Watch, WatchRow
<1>3. CASE Return
  BY <1>3 DEF Return, Done, Go
<1>4. CASE Exit
  BY <1>4 DEF Exit, Over
<1>5. CASE Boot
  BY <1>5 DEF Boot, Go
<1>6. CASE UNCHANGED vars
  BY <1>6 DEF vars
<1> QED BY <1>1, <1>2, <1>3, <1>4, <1>5, <1>6 DEF Next

\* A copy that is said to be ready has its whole file in the folder: a request
\* withdrawn and made again while its conversion runs, a crash between rename and
\* row, or a sweep that runs over them does not make it half, or none.
THEOREM ReadyCopiesAreWhole == Spec => []ReadyIsWhole
<1>1. Inv => ReadyIsWhole
  BY DEF Inv
<1> QED BY <1>1, InvInit, InvStep, PTL DEF Spec
---------------------------------------------------------------------------
(* Types, and the line the requests stand in.                              *)

\* Who has a row and in which order does not change.
LEMMA SameLine ==
  ASSUME InLine, Asked' = Asked, older' = older
  PROVE  InLine'
  BY DEF InLine

\* A mark leaves every row where it was: there, or not.
LEMMA MarkTypes ==
  ASSUME TypeOK, NEW t \in Title, row[t] # "none", NEW s \in State \ {"none"}, NEW b \in Nat,
         MarkOptimized(t, s, b)
  PROVE  row' \in [Title -> State] /\ size' \in [Title -> Nat] /\ InLine'
<1>1. row' \in [Title -> State] /\ size' \in [Title -> Nat] /\ older' = older
  BY DEF TypeOK, MarkOptimized
<1>2. Asked' = Asked
  BY DEF TypeOK, MarkOptimized, Asked
<1> QED BY <1>1, <1>2, SameLine DEF TypeOK

\* A step of the worker that marks nothing.
LEMMA UnmarkedTypes ==
  ASSUME TypeOK, UNCHANGED rows, copy' \in [Title -> File], part' \in [Title -> File],
         pc' \in Pcs, job' \in Title \cup {NoTitle}, (job' \in Title <=> pc' \in Working),
         unheld' \in SUBSET Title, unheld' # {} => pc' = "clear", stopped' \in BOOLEAN,
         UNCHANGED <<ending, live, moves>>
  PROVE  TypeOK'
<1>1. InLine'
  BY SameLine DEF TypeOK, rows, Asked
<1> QED BY <1>1 DEF TypeOK, rows

LEMMA SweepTypes == ASSUME TypeOK, Sweep, UNCHANGED <<ending, live, moves>> PROVE TypeOK'
<1> USE DEF files, Go, Pcs, Working, File
<1>1. CASE SweepList
  BY <1>1, UnmarkedTypes DEF SweepList, TypeOK
<1>2. CASE SweepEnds
  BY <1>2, UnmarkedTypes DEF SweepEnds, TypeOK
<1>3. CASE \E t \in Title : SweepFile(t)
  BY <1>3, UnmarkedTypes DEF SweepFile, TypeOK
<1> QED BY <1>1, <1>2, <1>3 DEF Sweep

LEMMA ChooseTypes == ASSUME TypeOK, Choose, UNCHANGED <<ending, live, moves>> PROVE TypeOK'
<1> USE OptimizedAssumption DEF files, Go, Rest, Pcs, Working
<1>1. CASE Yield
  BY <1>1, UnmarkedTypes DEF Yield, TypeOK
<1>2. CASE Take
  BY <1>2, UnmarkedTypes DEF Take, TypeOK
<1>3. CASE Room
  BY <1>3, UnmarkedTypes DEF Room, TypeOK
<1> QED BY <1>1, <1>2, <1>3 DEF Choose

\* The steps of convertOne that mark the row.
LEMMA MarkingTypes ==
  ASSUME TypeOK, Mark \/ Requeue \/ Ready \/ Fail, UNCHANGED <<ending, live, moves>>
  PROVE  TypeOK'
<1> USE OptimizedAssumption DEF files, Go, Rest, Pcs, Working
<1>1. CASE UNCHANGED rows
  BY <1>1, UnmarkedTypes DEF Mark, Requeue, Ready, Fail, TypeOK
<1>2. CASE \E s \in State \ {"none"}, b \in Nat : row[job] # "none" /\ MarkOptimized(job, s, b)
  <2>1. row' \in [Title -> State] /\ size' \in [Title -> Nat] /\ InLine'
    BY <1>2, MarkTypes DEF Mark, Requeue, Ready, Fail, TypeOK
  <2> QED BY <2>1 DEF Mark, Requeue, Ready, Fail, TypeOK
<1>3. UNCHANGED rows \/ \E s \in State \ {"none"}, b \in Nat :
                          row[job] # "none" /\ MarkOptimized(job, s, b)
  <2>1. \A s \in SizesOf(job) : s \in Nat
    BY DEF SizesOf
  <2> QED BY <2>1 DEF Mark, Requeue, Ready, Fail, Marks, State
<1> QED BY <1>1, <1>2, <1>3

\* ... and those that do not.
LEMMA OtherTypes ==
  ASSUME TypeOK, UNCHANGED <<ending, live, moves>>,
         \/ Read \/ Converted \/ Broken \/ Cancelled \/ Probe \/ Rename \/ Unlink \/ Tidy
         \/ Again \/ WatchRow \/ Done
  PROVE  TypeOK'
<1> USE OptimizedAssumption DEF files, Go, Rest, Pcs, Working, File
<1>1. CASE Read \/ Converted \/ Rename
  BY <1>1, UnmarkedTypes DEF Read, Converted, Rename, TypeOK
<1>2. CASE Broken \/ Cancelled \/ Probe
  BY <1>2, UnmarkedTypes DEF Broken, Cancelled, Probe, TypeOK
<1>3. CASE Unlink \/ Tidy
  BY <1>3, UnmarkedTypes DEF Unlink, Tidy, TypeOK
<1>4. CASE Again \/ WatchRow \/ Done
  BY <1>4, UnmarkedTypes DEF Again, WatchRow, Done, TypeOK
<1> QED BY <1>1, <1>2, <1>3, <1>4

LEMMA ResumeTypes == ASSUME TypeOK, Resume, UNCHANGED <<ending, live, moves>> PROVE TypeOK'
<1>1. row' \in [Title -> State] /\ Asked' = Asked /\ older' = older
  BY DEF Resume, TypeOK, State, Asked
<1>2. InLine'
  BY <1>1, SameLine DEF TypeOK
<1> QED BY <1>1, <1>2 DEF Resume, TypeOK, files, Go, Pcs, Working

\* Who asks stands behind everybody, who withdraws leaves the line.
LEMMA RequestTypes ==
  ASSUME TypeOK, NEW t \in Title, RequestOptimized(t) \/ RemoveOptimized(t)
  PROVE  TypeOK'
<1>1. CASE RequestOptimized(t)
  <2>1. row' = [row EXCEPT ![t] = "queued"] /\ older' = Without(t) \cup {<<u, t>> : u \in Asked \ {t}}
    BY <1>1 DEF RequestOptimized
  <2>2. Asked' = Asked \cup {t}
    BY <2>1 DEF Asked, TypeOK
  <2>3. \A u, v \in Asked' :
          <<u, v>> \in older' <=> \/ u # t /\ v # t /\ <<u, v>> \in older
                                  \/ v = t /\ u # t
    BY <2>1, <2>2 DEF Without
  <2>4. older' \subseteq Asked' \X Asked'
    BY <2>1, <2>2 DEF Without, TypeOK, InLine
  <2>5. InLine'
    BY <2>2, <2>3, <2>4 DEF InLine, TypeOK
  <2>6. moves' \in 0..Moves
    BY <1>1, OptimizedAssumption DEF RequestOptimized, Move, TypeOK
  <2> QED BY <1>1, <2>1, <2>5, <2>6 DEF RequestOptimized, TypeOK, State, files, worker
<1>2. CASE RemoveOptimized(t)
  <2>1. row' = [row EXCEPT ![t] = "none"] /\ older' = Without(t)
    BY <1>2 DEF RemoveOptimized
  <2>2. Asked' = Asked \ {t}
    BY <2>1 DEF Asked, TypeOK
  <2>3. older' \subseteq Asked' \X Asked' /\ \A u, v \in Asked' : <<u, v>> \in older' <=> <<u, v>> \in older
    BY <2>1, <2>2 DEF Without, TypeOK, InLine
  <2>4. InLine'
    BY <2>2, <2>3 DEF InLine, TypeOK
  <2>5. moves' \in 0..Moves
    BY <1>2, OptimizedAssumption DEF RemoveOptimized, Move, TypeOK
  <2> QED BY <1>2, <2>1, <2>4, <2>5 DEF RemoveOptimized, TypeOK, State, files, worker
<1> QED BY <1>1, <1>2

\* What happens around the worker and leaves the rows.
LEMMA AroundTypes ==
  ASSUME TypeOK, Play \/ Held \/ Stop \/ Crash \/ Exit \/ Boot
  PROVE  TypeOK'
<1>1. UNCHANGED <<row, size, older, copy, part>>
  BY DEF Play, Held, SweepHeld, Stop, Crash, Exit, Over, Boot, rows, files
<1>2. InLine'
  BY <1>1, SameLine DEF TypeOK, Asked
<1>3. moves' \in 0..Moves
  BY OptimizedAssumption DEF Play, Held, Stop, Crash, Exit, Boot, Move, SweepHeld, TypeOK
<1>4. CASE Play \/ Stop
  BY <1>1, <1>2, <1>3, <1>4 DEF Play, Stop, TypeOK, worker
<1>5. CASE Held
  BY <1>1, <1>2, <1>3, <1>5 DEF Held, SweepHeld, TypeOK
<1>6. CASE Crash \/ Exit \/ Boot
  BY <1>1, <1>2, <1>3, <1>6, OptimizedAssumption
    DEF Crash, Exit, Over, Boot, Go, TypeOK, Pcs, Working
<1> QED BY <1>4, <1>5, <1>6

LEMMA TypesStep == TypeOK /\ [Next]_vars => TypeOK'
<1> SUFFICES ASSUME TypeOK, [Next]_vars PROVE TypeOK'
  OBVIOUS
<1>1. CASE UNCHANGED vars
  BY <1>1, SameLine DEF vars, rows, files, worker, TypeOK, Asked
<1>2. CASE Loop \/ Watch \/ Return
  BY <1>2, ResumeTypes, SweepTypes, ChooseTypes, MarkingTypes, OtherTypes
    DEF Loop, Watch, Return, Convert
<1>3. CASE Exit \/ Boot \/ Around
  BY <1>3, RequestTypes, AroundTypes DEF Around
<1> QED BY <1>1, <1>2, <1>3 DEF Next

LEMMA TypesInit == Init => TypeOK
<1> SUFFICES ASSUME Init PROVE TypeOK
  OBVIOUS
<1>1. Asked = {} /\ older = {}
  BY DEF Init, Asked
<1>2. InLine
  BY <1>1 DEF InLine
<1>3. row \in [Title -> State] /\ size \in [Title -> Nat]
      /\ copy \in [Title -> File] /\ part \in [Title -> File]
  BY DEF Init, State, File
<1>4. /\ pc \in Pcs /\ job \in Title \cup {NoTitle} /\ (job \in Title <=> pc \in Working)
      /\ unheld \in SUBSET Title /\ (unheld # {} => pc = "clear")
  BY OptimizedAssumption DEF Init, Pcs, Working
<1>5. stopped \in BOOLEAN /\ ending \in BOOLEAN /\ live \in BOOLEAN
  BY DEF Init
<1>6. moves \in 0..Moves
  BY OptimizedAssumption DEF Init
<1> QED BY <1>2, <1>3, <1>4, <1>5, <1>6 DEF TypeOK

\* The queue is a line in every state: whoever has a row stands in it once, the
\* oldest request is one, and a withdrawal or a second asking leaves no place behind.
THEOREM OptimizedTypeCorrect == Spec => []TypeOK
  BY TypesInit, TypesStep, PTL DEF Spec
---------------------------------------------------------------------------
(* The limit.                                                              *)

\* What some titles take: finite, and none of it when there are none.
LEMMA BytesFinite ==
  ASSUME NEW R \in SUBSET Title, NEW f \in [Title -> Nat]
  PROVE  IsFiniteSet(BytesOf(R, f)) /\ Cardinality(BytesOf(R, f)) \in Nat
<1> DEFINE Byte(t) == {t} \X (1..f[t])
           T == {Byte(t) : t \in R}
           g == [t \in R |-> Byte(t)]
<1>1. IsFiniteSet(R)
  BY OptimizedAssumption, FS_Subset
<1>2. g \in Surjection(R, T)
  BY DEF Surjection
<1>3. IsFiniteSet(T)
  BY <1>1, <1>2, FS_Surjection
<1>4. \A t \in R : IsFiniteSet(Byte(t))
  <2> SUFFICES ASSUME NEW t \in R PROVE IsFiniteSet(Byte(t))
    OBVIOUS
  <2>1. f[t] \in Nat
    OBVIOUS
  <2>2. IsFiniteSet(1..f[t])
    BY <2>1, FS_Interval
  <2>3. IsFiniteSet({t})
    BY FS_Singleton
  <2> QED BY <2>2, <2>3, FS_Product
<1>5. IsFiniteSet(UNION T)
  BY <1>3, <1>4, FS_UNION
<1> QED BY <1>5, FS_CardinalityType DEF BytesOf

\* One title's copy adds its size, as the sum of the column does.
LEMMA BytesAdd ==
  ASSUME NEW R \in SUBSET Title, NEW f \in [Title -> Nat], NEW t \in Title \ R
  PROVE  Cardinality(BytesOf(R \cup {t}, f)) = Cardinality(BytesOf(R, f)) + f[t]
<1> DEFINE A == BytesOf(R, f)
           B == {t} \X (1..f[t])
<1>1. BytesOf(R \cup {t}, f) = A \cup B
  BY DEF BytesOf
<1>2. IsFiniteSet(A) /\ Cardinality(A) \in Nat
  BY BytesFinite
<1>3. IsFiniteSet(B) /\ Cardinality(B) = f[t]
  <2>1. IsFiniteSet({t}) /\ Cardinality({t}) = 1
    BY FS_Singleton
  <2>2. IsFiniteSet(1..f[t]) /\ Cardinality(1..f[t]) = f[t]
    BY FS_Interval
  <2>3. IsFiniteSet(B) /\ Cardinality(B) = Cardinality({t}) * Cardinality(1..f[t])
    BY <2>1, <2>2, FS_Product
  <2> QED BY <2>1, <2>2, <2>3
<1>4. A \cap B = {}
  BY DEF BytesOf
<1>5. Cardinality(A \cap B) = 0
  BY <1>4, FS_EmptySet
<1>6. Cardinality(A \cup B) = Cardinality(A) + Cardinality(B) - Cardinality(A \cap B)
  BY <1>2, <1>3, FS_Union
<1>7. Cardinality(A \cup B) = Cardinality(A) + f[t]
  <2> HIDE DEF A, B
  <2> QED BY <1>2, <1>3, <1>5, <1>6
<1> QED BY <1>1, <1>7

\* Only the sizes of the titles counted matter.
LEMMA BytesSame ==
  ASSUME NEW R, NEW f, NEW g, \A t \in R : f[t] = g[t]
  PROVE  BytesOf(R, f) = BytesOf(R, g)
  BY DEF BytesOf

\* Between the look at the limit and the row that says ready, no other copy is
\* finished: what there was room for, there still is.
Roomy == /\ pc = "mark" => ending \/ HasRoom(job)
         /\ pc \in {"read", "convert", "probe", "rename", "ready"} => HasRoom(job)

\* No copy is finished by this step, and those that stay keep their size.
NoneFinished == Kept' \subseteq Kept /\ \A t \in Kept' : size'[t] = size[t]

\* A title that is no longer kept gives back what it took.
LEMMA UsedFalls ==
  ASSUME TypeOK, TypeOK', NoneFinished
  PROVE  Used' <= Used /\ Used \in Nat /\ Used' \in Nat
<1>1. Kept' \subseteq Title /\ Kept \subseteq Title /\ size \in [Title -> Nat]
  BY DEF Kept, TypeOK
<1>2. BytesOf(Kept, size)' = BytesOf(Kept', size)
  BY BytesSame DEF NoneFinished, BytesOf
<1>3. BytesOf(Kept', size) \subseteq BytesOf(Kept, size)
  BY DEF NoneFinished, BytesOf
<1>4. IsFiniteSet(BytesOf(Kept, size)) /\ Cardinality(BytesOf(Kept, size)) \in Nat
  BY <1>1, BytesFinite
<1>5. Cardinality(BytesOf(Kept', size)) <= Cardinality(BytesOf(Kept, size))
      /\ Cardinality(BytesOf(Kept', size)) \in Nat
  BY <1>1, <1>3, <1>4, FS_Subset, BytesFinite
<1> QED BY <1>2, <1>4, <1>5 DEF Used

LEMMA LimitFalls ==
  ASSUME TypeOK, TypeOK', NoneFinished, LimitKept
  PROVE  LimitKept'
<1>1. Used' <= Used /\ Used \in Nat /\ Used' \in Nat
  BY UsedFalls
<1>2. CASE Used <= Limit
  BY <1>1, <1>2, OptimizedAssumption DEF LimitKept
<1>3. ASSUME NEW t \in Title, row[t] = "ready", ~Bounded(t), Used - size[t] <= Limit
      PROVE  LimitKept'
  <2>0. size[t] \in Nat /\ t \in Kept
    BY <1>3 DEF TypeOK, Kept
  <2>1. CASE t \in Kept'
    <3>1. row'[t] = "ready" /\ size'[t] = size[t]
      BY <2>1 DEF Kept, NoneFinished
    <3>2. Used' - size'[t] <= Limit
      BY <1>1, <1>3, <2>0, <3>1, OptimizedAssumption
    <3> QED BY <1>3, <3>1, <3>2 DEF LimitKept
  <2>2. CASE t \notin Kept'
    <3>1. Kept' \subseteq Title /\ Kept \subseteq Title /\ size \in [Title -> Nat]
      BY DEF Kept, TypeOK
    <3>2. Used' = Cardinality(BytesOf(Kept', size))
      BY BytesSame DEF NoneFinished, BytesOf, Used
    <3>3. Cardinality(BytesOf(Kept' \cup {t}, size)) = Used' + size[t]
      BY <2>2, <3>1, <3>2, BytesAdd
    <3>4. BytesOf(Kept' \cup {t}, size) \subseteq BytesOf(Kept, size)
      BY <2>0 DEF NoneFinished, BytesOf
    <3>5. Cardinality(BytesOf(Kept' \cup {t}, size)) <= Used
      BY <3>1, <3>4, BytesFinite, FS_Subset DEF Used
    <3>6. Used' <= Limit
      BY <1>1, <1>3, <2>0, <3>3, <3>5, OptimizedAssumption
    <3> QED BY <3>6 DEF LimitKept
  <2> QED BY <2>1, <2>2
<1> QED BY <1>2, <1>3 DEF LimitKept

\* A copy that is finished fits, or is one that its estimate does not bound.
LEMMA FinishedFits ==
  ASSUME TypeOK, TypeOK', Converting, Roomy, Ready, Marks(job)
  PROVE  LimitKept'
<1>1. PICK s \in SizesOf(job) : MarkOptimized(job, "ready", s)
  BY DEF Ready, Marks
<1>2. /\ job \in Title /\ job \notin Kept /\ HasRoom(job) /\ pc = "ready"
      /\ Kept \subseteq Title /\ size' \in [Title -> Nat]
  BY DEF Ready, TypeOK, Kept, Converting, Roomy, Working
<1>3. /\ row'[job] = "ready" /\ size'[job] = s /\ Kept' = Kept \cup {job}
      /\ \A t \in Kept : size'[t] = size[t]
  BY <1>1, <1>2 DEF MarkOptimized, TypeOK, Kept
<1>4. Used' = Cardinality(BytesOf(Kept \cup {job}, size'))
  BY <1>3 DEF Used, BytesOf
<1>5. Used' = Cardinality(BytesOf(Kept, size')) + s
  BY <1>2, <1>3, <1>4, BytesAdd
<1>6. Cardinality(BytesOf(Kept, size')) = Used
  BY <1>3, BytesSame DEF Used
<1>7. Used \in Nat /\ s \in Nat /\ Estimate[job] \in Nat
  <2>1. Used \in Nat
    BY <1>2, BytesFinite DEF Used, TypeOK
  <2> QED BY <2>1, <1>1, <1>2, OptimizedAssumption DEF SizesOf
<1>8. CASE ~Bounded(job)
  <2>1. Used' - size'[job] <= Limit
    BY <1>2, <1>3, <1>5, <1>6, <1>7, <1>8, OptimizedAssumption DEF HasRoom
  <2> QED BY <1>2, <1>3, <1>8, <2>1 DEF LimitKept
<1>9. CASE Bounded(job)
  <2>1. s <= Estimate[job]
    BY <1>9, <1>2, OptimizedAssumption DEF SizesOf
  <2>2. Used' <= Limit
    BY <1>2, <1>5, <1>6, <1>7, <2>1, OptimizedAssumption DEF HasRoom
  <2> QED BY <2>2 DEF LimitKept
<1> QED BY <1>8, <1>9

LEMMA OnlyReadyFinishes ==
  ASSUME TypeOK, Converting, [Next]_vars, ~(Ready /\ Marks(job))
  PROVE  NoneFinished
<1> USE DEF NoneFinished, Kept, TypeOK, rows, State
<1>1. CASE UNCHANGED rows
  BY <1>1
<1>2. CASE Resume
  BY <1>2 DEF Resume
<1>3. CASE Mark \/ Requeue \/ Fail
  BY <1>1, <1>3 DEF Mark, Requeue, Fail, Marks, MarkOptimized, Converting, Working
<1>4. CASE \E t \in Title : RequestOptimized(t) \/ RemoveOptimized(t)
  BY <1>4 DEF RequestOptimized, RemoveOptimized
<1>5. CASE Ready
  BY <1>1, <1>5 DEF Ready
<1>6. UNCHANGED rows \/ Resume \/ Mark \/ Requeue \/ Fail \/ Ready
        \/ \E t \in Title : RequestOptimized(t) \/ RemoveOptimized(t)
  <2>1. CASE Sweep
    BY <2>1 DEF Sweep, SweepList, SweepEnds, SweepFile
  <2>2. CASE Choose
    BY <2>2 DEF Choose, Yield, Take, Room
  <2>3. CASE Convert
    BY <2>3 DEF Convert, Read, Converted, Broken, Cancelled, Probe, Rename, Unlink, Tidy
  <2>4. CASE Again \/ Watch \/ Return \/ Exit \/ Boot
    BY <2>4 DEF Again, Watch, WatchRow, Return, Done, Exit, Over, Boot
  <2>5. CASE Play \/ Held \/ Stop \/ Crash
    BY <2>5 DEF Play, Held, SweepHeld, Stop, Crash, Over
  <2>6. CASE UNCHANGED vars
    BY <2>6 DEF vars
  <2> QED BY <2>1, <2>2, <2>3, <2>4, <2>5, <2>6 DEF Next, Loop, Around
<1> QED BY <1>1, <1>2, <1>3, <1>4, <1>5, <1>6

LEMMA RoomyStep ==
  ASSUME TypeOK, TypeOK', Converting, Roomy, [Next]_vars
  PROVE  Roomy'
<1> DEFINE In == {"read", "convert", "probe", "rename", "ready"}
<1>1. CASE Ready
  BY <1>1 DEF Ready, Go, Roomy
<1>2. CASE ~Ready
  <2>1. NoneFinished
    BY <1>2, OnlyReadyFinishes
  <2>2. \A t \in Title : HasRoom(t) => HasRoom(t)'
    BY <2>1, UsedFalls, OptimizedAssumption DEF HasRoom
  <2>3. pc' = "mark" => \/ pc = "mark" /\ job' = job /\ (ending => ending')
                        \/ job' = job /\ pc = "room" /\ (ending \/ HasRoom(job)) /\ ending' = ending
    BY DEF Next, Loop, Resume, Sweep, SweepList, SweepEnds, SweepFile, Choose, Yield, Take, Room,
       Rest, Convert, Mark, Read, Converted, Broken, Cancelled, Requeue, Probe, Rename, Ready,
       Unlink, Fail, Tidy, Again, Watch, WatchRow, Return, Done, Exit, Over, Boot, Around, Go,
       RequestOptimized, RemoveOptimized, Play, Held, SweepHeld, Stop, Crash, vars, worker
  <2>4. pc' \in In => job' = job /\ (pc \in In \/ (pc = "mark" /\ ~ending))
    BY DEF Next, Loop, Resume, Sweep, SweepList, SweepEnds, SweepFile, Choose, Yield, Take, Room,
       Rest, Convert, Mark, Marks, Read, Converted, Broken, Cancelled, Requeue, Probe, Rename,
       Ready, Unlink, Fail, Tidy, Again, Watch, WatchRow, Return, Done, Exit, Over, Boot, Around,
       Go, RequestOptimized, RemoveOptimized, Play, Held, SweepHeld, Stop, Crash, vars, worker
  <2>5. pc \in {"room", "mark"} \cup In => job \in Title
    BY DEF TypeOK, Working
  <2>6. pc' = "mark" => ending' \/ HasRoom(job)'
    BY <2>2, <2>3, <2>5 DEF Roomy, HasRoom
  <2>7. pc' \in In => HasRoom(job)'
    BY <2>2, <2>4, <2>5 DEF Roomy, HasRoom
  <2> QED BY <2>6, <2>7 DEF Roomy
<1> QED BY <1>1, <1>2

\* However requests, withdrawals, stops and crashes fall between the look at the
\* limit and the finished row, the finished copies stay within the limit, but for
\* one whose length nobody knew when it was looked at.
THEOREM CopiesWithinLimit == Spec => []LimitKept
<1>1. Init => Roomy /\ LimitKept
  <2> SUFFICES ASSUME Init PROVE Roomy /\ LimitKept
    OBVIOUS
  <2>1. BytesOf(Kept, size) = {}
    BY DEF Init, Kept, BytesOf
  <2>2. Used = 0
    BY <2>1, FS_EmptySet DEF Used
  <2> QED BY <2>2, OptimizedAssumption DEF Init, Roomy, LimitKept
<1>2. /\ TypeOK /\ TypeOK' /\ Inv /\ Roomy /\ LimitKept /\ [Next]_vars
      => Roomy' /\ LimitKept'
  BY RoomyStep, OnlyReadyFinishes, FinishedFits, LimitFalls DEF Inv
<1> QED BY <1>1, <1>2, InvInit, InvStep, OptimizedTypeCorrect, PTL DEF Spec

---------------------------------------------------------------------------
(* No request is left saying that it converts.                             *)

\* Where the worker has a title whose row may say so.
Hands == {"read", "convert", "probe", "rename", "ready", "fail", "refuse"}

\* A request that says it converts is the one in the worker's hands; unless the
\* process is going down or is not up yet, and the next one resumes it. Nothing else
\* ever puts such a row back in the queue.
ConvertingIsInHand ==
  \A t \in Title : row[t] = "converting" =>
    ending \/ pc \in {"down", "resume"} \/ (job = t /\ pc \in Hands)

\* What was stopped because its row had gone does not say so, asked for again or not.
StoppedIsGone ==
  stopped => /\ pc \in Working \ {"room", "mark", "read", "refuse"}
             /\ row[job] # "converting"

LEMMA HandMarks ==
  ASSUME Typed, StoppedIsGone, ConvertingIsInHand, UNCHANGED ending,
         Resume \/ Mark \/ Requeue \/ Ready \/ Fail
  PROVE  ConvertingIsInHand' /\ StoppedIsGone'
<1> USE DEF Typed, ConvertingIsInHand, StoppedIsGone, Hands, Working, Go, Rest, Marks, rows
<1>1. CASE Resume
  BY <1>1 DEF Resume
<1>2. CASE Mark
  BY <1>2 DEF Mark, MarkOptimized
<1>3. CASE Requeue
  BY <1>3 DEF Requeue, MarkOptimized
<1>4. CASE Ready
  <2>1. job \in Title /\ (ending \/ row[job] = "none" \/ row' = [row EXCEPT ![job] = "ready"])
    BY <1>4 DEF Ready, MarkOptimized
  <2> QED BY <1>4, <2>1 DEF Ready, MarkOptimized
<1>5. CASE Fail
  BY <1>5 DEF Fail, MarkOptimized
<1> QED BY <1>1, <1>2, <1>3, <1>4, <1>5

LEMMA HandSteps ==
  ASSUME Typed, StoppedIsGone, ConvertingIsInHand, UNCHANGED <<ending, row>>,
         \/ Sweep \/ Choose \/ Read \/ Converted \/ Broken \/ Probe \/ Rename \/ Tidy
         \/ Again \/ Return \/ Boot
  PROVE  ConvertingIsInHand' /\ StoppedIsGone'
<1> USE DEF Typed, ConvertingIsInHand, StoppedIsGone, Hands, Working, Go, Rest
<1>1. CASE Sweep \/ Choose
  BY <1>1 DEF Sweep, SweepList, SweepFile, SweepEnds, Choose, Yield, Take, Room
<1>2. CASE Read \/ Converted \/ Broken \/ Probe \/ Rename
  BY <1>2 DEF Read, Converted, Broken, Probe, Rename
<1>3. CASE Tidy \/ Again \/ Return \/ Boot
  BY <1>3 DEF Tidy, Again, Return, Done, Boot
<1> QED BY <1>1, <1>2, <1>3

LEMMA HandStep ==
  ASSUME Typed, StoppedIsGone, ConvertingIsInHand, [Next]_vars
  PROVE  ConvertingIsInHand' /\ StoppedIsGone'
<1> USE DEF Typed, ConvertingIsInHand, StoppedIsGone, Working, rows, worker
<1>1. CASE Loop /\ (Resume \/ Mark \/ Requeue \/ Ready \/ Fail)
  BY <1>1, HandMarks DEF Loop
<1>2. CASE \/ Sweep /\ Loop
           \/ Choose /\ Loop
           \/ (Read \/ Converted \/ Broken \/ Probe \/ Rename \/ Tidy \/ Again) /\ Loop
           \/ Return \/ Boot
  <2>1. UNCHANGED <<ending, row>>
    BY <1>2 DEF Loop, Sweep, SweepList, SweepFile, SweepEnds, Choose, Yield, Take, Room, Read,
       Converted, Broken, Probe, Rename, Tidy, Again, Return, Done, Boot
  <2> QED BY <1>2, <2>1, HandSteps
<1>3. CASE Loop /\ (Cancelled \/ Unlink)
  BY <1>3 DEF Loop, Cancelled, Unlink, Go, Hands
<1>4. CASE Watch
  BY <1>4 DEF Watch, WatchRow
<1>5. CASE Exit \/ Crash
  BY <1>5 DEF Exit, Crash, Over
<1>6. CASE Play \/ Held \/ Stop
  BY <1>6 DEF Play, Held, SweepHeld, Stop, Hands
<1>7. CASE \E t \in Title : RequestOptimized(t) \/ RemoveOptimized(t)
  BY <1>7 DEF RequestOptimized, RemoveOptimized
<1>8. CASE UNCHANGED vars
  BY <1>8 DEF vars
<1> QED BY <1>1, <1>2, <1>3, <1>4, <1>5, <1>6, <1>7, <1>8 DEF Next, Loop, Convert, Around

\* Whatever is withdrawn, asked for again, refused or interrupted, a running server has
\* no request that says it converts and that nobody converts.
THEOREM NoRequestStuck == Spec => []ConvertingIsInHand
<1>1. Init => ConvertingIsInHand /\ StoppedIsGone
  BY DEF Init, ConvertingIsInHand, StoppedIsGone
<1>2. Inv /\ ConvertingIsInHand /\ StoppedIsGone /\ [Next]_vars
        => ConvertingIsInHand' /\ StoppedIsGone'
  BY HandStep DEF Inv
<1> QED BY <1>1, <1>2, InvInit, InvStep, PTL DEF Spec
=============================================================================
