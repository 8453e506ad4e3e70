------------------------------ MODULE Optimized ------------------------------
(***************************************************************************)
(* Optimized copies: the one worker that makes them (internal/api's        *)
(* RunOptimizer), the rows that ask for them (internal/store's             *)
(* optimized_version), the requests that come and go while it works, and   *)
(* the process that ends under it.                                         *)
(*                                                                         *)
(* Every database call and every file operation of the worker is a step.   *)
(* A database call fails only when its context is cancelled.  The folder   *)
(* and the limit are settings, and do not change here.                     *)
(***************************************************************************)
EXTENDS Naturals, FiniteSets

CONSTANTS Title,
          Estimate, \* Title -> EstimateBytes of its length, 0 when that is not known
          Copied,   \* titles with a stream that the decision copies as it is
          Largest,  \* how big a copy may turn out that its estimate does not bound
          Limit,    \* optimizedLimit
          NoTitle,
          Moves     \* how many things happen around the worker, a bound

\* RateKbps caps what ffmpeg encodes, and only that (-maxrate; none of -c:v copy and
\* -c:a copy): a stream of unknown rate is copied whatever its rate is.
Bounded(t) == Estimate[t] # 0 /\ t \notin Copied
SizesOf(t) == 1..(IF Bounded(t) THEN Estimate[t] ELSE Largest)

ASSUME OptimizedAssumption ==
  /\ IsFiniteSet(Title) /\ Estimate \in [Title -> Nat] /\ Copied \subseteq Title /\ Largest \in Nat \ {0} /\ Limit \in Nat
  /\ NoTitle \notin Title /\ Moves \in Nat

VARIABLES
  row,     \* Title -> its optimized_version: a state, or "none"
  size,    \* Title -> size_bytes
  older,   \* <<t, u>>: both have a row, and t's requested_at comes first
  copy,    \* Title -> its file: "none", "half" or "whole"
  part,    \* Title -> its .part file
  pc, job, \* the worker: where it is, and with which title
  unheld,  \* the titles its sweep has found no row for and not come to yet
  stopped, \* the conversion's own context: the request was withdrawn
  ending,  \* the process's context
  live,    \* something is being converted for playback
  moves

rows == <<row, size, older>>
files == <<copy, part>>
worker == <<pc, job, unheld, stopped>>
vars == <<rows, files, worker, ending, live, moves>>

State == {"none", "queued", "converting", "ready", "failed"}
File == {"none", "half", "whole"}

Init == /\ row = [t \in Title |-> "none"] /\ size = [t \in Title |-> 0] /\ older = {}
        /\ copy = [t \in Title |-> "none"] /\ part = [t \in Title |-> "none"]
        /\ pc = "resume" /\ job = NoTitle /\ unheld = {} /\ stopped = FALSE
        /\ ending = FALSE /\ live = FALSE /\ moves = 0
---------------------------------------------------------------------------
(* The worker.                                                             *)

Go(next) == pc' = next /\ UNCHANGED <<job, unheld, stopped>>

\* MarkOptimized, on a context that may be cancelled: only a row that is there
\* moves.  The size goes with every mark.
Marks(t) == ~ending /\ row[t] # "none"
MarkOptimized(t, state, bytes) ==
  /\ row' = [row EXCEPT ![t] = state]
  /\ size' = [size EXCEPT ![t] = bytes]
  /\ UNCHANGED older

\* Mutant: what a restart interrupted is left as it was.
ResumeNothing == pc = "resume" /\ Go("sweep") /\ UNCHANGED <<rows, files>>

\* ResumeOptimized, once at the start.
Resume == /\ pc = "resume" /\ Go("sweep")
          /\ row' = IF ending THEN row
                    ELSE [t \in Title |-> IF row[t] = "converting" THEN "queued" ELSE row[t]]
          /\ UNCHANGED <<size, older, files>>

\* Mutant: a read that failed says there are no rows.
SweepListBlind == /\ pc = "sweep" /\ pc' = "clear"
                  /\ unheld' = IF ending THEN Title ELSE {t \in Title : row[t] = "none"}
                  /\ UNCHANGED <<rows, files, job, stopped>>

\* sweepOptimized: the folder and then OptimizedIDs are read; a read that fails
\* ends the sweep.
SweepList == /\ pc = "sweep" /\ pc' = "clear"
             /\ unheld' = IF ending THEN {} ELSE {t \in Title : row[t] = "none"}
             /\ UNCHANGED <<rows, files, job, stopped>>

\* Mutant: only finished copies are swept.
SweepFileWhole(t) == /\ pc = "clear" /\ t \in unheld
                     /\ unheld' = unheld \ {t}
                     /\ copy' = [copy EXCEPT ![t] = "none"]
                     /\ UNCHANGED <<rows, part, pc, job, stopped>>

\* Each of those files is removed, or cannot be: it is open.
SweepFile(t) == /\ pc = "clear" /\ t \in unheld
                /\ unheld' = unheld \ {t}
                /\ copy' = [copy EXCEPT ![t] = "none"] /\ part' = [part EXCEPT ![t] = "none"]
                /\ UNCHANGED <<rows, pc, job, stopped>>
SweepHeld(t) == /\ pc = "clear" /\ t \in unheld /\ copy[t] # "none" /\ moves < Moves
                /\ unheld' = unheld \ {t}
                /\ UNCHANGED <<rows, files, pc, job, stopped>>
SweepEnds == pc = "clear" /\ unheld = {} /\ Go("next") /\ UNCHANGED <<rows, files>>

\* NextOptimized: the oldest request in the queue (no two of one second).
Oldest(t) ==
  /\ row[t] = "queued"
  /\ \A u \in Title : row[u] = "queued" => <<u, t>> \notin older

\* OptimizedBytes: what the finished copies take, each byte of each counted.
BytesOf(R, sizeOf) == UNION {{t} \X (1..sizeOf[t]) : t \in R}
Kept == {t \in Title : row[t] = "ready"}
Used == Cardinality(BytesOf(Kept, size))

\* Mutant: what the copies take now, whatever the next one will.
HasRoomNow(t) == Used < Limit

HasRoom(t) == Used + Estimate[t] <= Limit

Rest == pc' = "idle" /\ job' = NoTitle /\ stopped' = FALSE /\ UNCHANGED unheld

\* optimizeNext: nothing while somebody watches something converted live, ...
Yield == /\ pc = "next"
         /\ IF live THEN Rest ELSE Go("take")
         /\ UNCHANGED <<rows, files>>

\* ... nothing while nothing is queued ...
Take == /\ pc = "take"
        /\ \/ (ending \/ \A t \in Title : row[t] # "queued") /\ Rest
           \/ ~ending /\ \E t \in Title : Oldest(t) /\ job' = t
              /\ pc' = "room" /\ UNCHANGED <<unheld, stopped>>
        /\ UNCHANGED <<rows, files>>

\* ... and nothing while the oldest request does not fit.  (Reading what is used
\* fails as no bytes used, and the mark after it fails too.)
Room == /\ pc = "room"
        /\ IF ending \/ HasRoom(job) THEN Go("mark") ELSE Rest
        /\ UNCHANGED <<rows, files>>

\* convertOne.
Mark == /\ pc = "mark"
        /\ IF Marks(job) THEN MarkOptimized(job, "converting", 0) /\ Go("read")
                         ELSE UNCHANGED rows /\ Rest
        /\ UNCHANGED files

\* The title, its location and its streams are read and the folder made.  When
\* one of them cannot be, or it already plays everywhere, there is no copy.
Read == /\ pc = "read"
        /\ \/ Go("refuse") /\ UNCHANGED part
           \/ ~ending /\ Go("convert") /\ part' = [part EXCEPT ![job] = "half"]
        /\ UNCHANGED <<rows, copy>>

\* The request's row is looked for every few seconds.
WatchRow == /\ pc = "convert" /\ row[job] = "none" /\ ~ending
            /\ stopped' = TRUE
            /\ UNCHANGED <<rows, files, pc, job, unheld>>

\* ConvertFile ends: with the whole copy, with an error, or because one of the
\* contexts was cancelled.
Converted == /\ pc = "convert" /\ Go("probe")
             /\ part' = [part EXCEPT ![job] = "whole"]
             /\ UNCHANGED <<rows, copy>>
Broken == pc = "convert" /\ ~ending /\ ~stopped /\ Go("fail") /\ UNCHANGED <<rows, files>>
Cancelled == /\ pc = "convert" /\ (ending \/ stopped)
             /\ Go(IF ending THEN "requeue" ELSE "tidy")
             /\ UNCHANGED <<rows, files>>

\* The server is stopping: the request goes back in the queue, on a context of its own.
Requeue == /\ pc = "requeue" /\ Go("tidy")
           /\ IF row[job] # "none" THEN MarkOptimized(job, "queued", 0) ELSE UNCHANGED rows
           /\ UNCHANGED files

\* ProbeFile and Stat.
Probe == /\ pc = "probe"
         /\ \/ Go("fail")
            \/ ~ending /\ Go("rename")
         /\ UNCHANGED <<rows, files>>

Rename == /\ pc = "rename"
          /\ \/ Go("fail") /\ UNCHANGED files
             \/ /\ Go("ready")
                /\ copy' = [copy EXCEPT ![job] = part[job]]
                /\ part' = [part EXCEPT ![job] = "none"]
          /\ UNCHANGED rows

Ready == /\ pc = "ready"
         /\ IF Marks(job)
            THEN (\E s \in SizesOf(job) : MarkOptimized(job, "ready", s)) /\ Go("tidy")
            ELSE UNCHANGED rows /\ Go("unlink")
         /\ UNCHANGED files

\* Withdrawn in the last moment, or the context was: the file goes too, if it can.
Unlink == /\ pc = "unlink" /\ Go("tidy")
          /\ copy' \in {copy, [copy EXCEPT ![job] = "none"]}
          /\ UNCHANGED <<rows, part>>

\* The .part file is not yet this call's to remove when it refuses.
Fail == /\ pc \in {"fail", "refuse"}
        /\ IF Marks(job) THEN MarkOptimized(job, "failed", 0) ELSE UNCHANGED rows
        /\ IF pc = "fail" THEN Go("tidy") ELSE Rest
        /\ UNCHANGED files

Tidy == pc = "tidy" /\ Rest /\ part' = [part EXCEPT ![job] = "none"] /\ UNCHANGED <<rows, copy>>

\* The ticker or a wake; or the end of the process's context.
Again == pc = "idle" /\ Go("sweep") /\ UNCHANGED <<rows, files>>
Done == pc = "idle" /\ ending /\ Go("down") /\ UNCHANGED <<rows, files>>

Sweep == SweepList \/ SweepEnds \/ \E t \in Title : SweepFile(t)
Choose == Yield \/ Take \/ Room
Convert == \/ Mark \/ Read \/ Converted \/ Broken \/ Cancelled
           \/ Requeue \/ Probe \/ Rename \/ Ready \/ Unlink \/ Fail \/ Tidy
Loop == (Resume \/ Sweep \/ Choose \/ Convert \/ Again) /\ UNCHANGED <<ending, live, moves>>
Watch == WatchRow /\ UNCHANGED <<ending, live, moves>>
Return == Done /\ UNCHANGED <<ending, live, moves>>
---------------------------------------------------------------------------
(* What happens around it.                                                 *)

Move == moves < Moves /\ moves' = moves + 1
Up == pc # "down" \/ ending

Asked == {t \in Title : row[t] # "none"}
Without(t) == {p \in older : t \notin {p[1], p[2]}}

\* A failed one is queued again, behind the others; any other is left alone.
RequestOptimized(t) ==
  /\ Up /\ Move /\ row[t] \in {"none", "failed"}
  /\ row' = [row EXCEPT ![t] = "queued"]
  /\ older' = Without(t) \cup {<<u, t>> : u \in Asked \ {t}}
  /\ UNCHANGED <<size, files, worker, ending, live>>

\* Mutant: the row goes and its place in the queue stays.
RemoveOptimizedKeepsPlace(t) ==
  /\ Up /\ Move /\ row[t] # "none"
  /\ row' = [row EXCEPT ![t] = "none"] /\ size' = [size EXCEPT ![t] = 0]
  /\ UNCHANGED <<older, files, worker, ending, live>>

\* The request, or the title's own row and this one by cascade.
RemoveOptimized(t) ==
  /\ Up /\ Move /\ row[t] # "none"
  /\ row' = [row EXCEPT ![t] = "none"] /\ size' = [size EXCEPT ![t] = 0]
  /\ older' = Without(t)
  /\ UNCHANGED <<files, worker, ending, live>>

\* A live conversion starts, or the last one ends.
Play == Move /\ live' = ~live /\ UNCHANGED <<rows, files, worker, ending>>

\* A file that is being sent cannot be removed.
Held == \E t \in Title : SweepHeld(t) /\ moves' = moves + 1 /\ UNCHANGED <<ending, live>>

\* The process is told to stop; it ends, then or without being told; it starts again.
Stop == Up /\ Move /\ ~ending /\ ending' = TRUE /\ UNCHANGED <<rows, files, worker, live>>
Over == /\ pc' = "down" /\ job' = NoTitle /\ unheld' = {} /\ stopped' = FALSE
        /\ ending' = FALSE /\ live' = FALSE
        /\ UNCHANGED <<rows, files>>
Exit == ending /\ Over /\ UNCHANGED moves
Crash == Up /\ Move /\ Over
Boot == pc = "down" /\ ~ending /\ Go("resume") /\ UNCHANGED <<rows, files, ending, live, moves>>

Around == \/ \E t \in Title : RequestOptimized(t) \/ RemoveOptimized(t)
          \/ Play \/ Held \/ Stop \/ Crash

Next == Loop \/ Watch \/ Return \/ Exit \/ Boot \/ Around
Spec == Init /\ [][Next]_vars

\* The worker goes on, a cancelled context is noticed between two passes, the
\* process told to stop does, and its service manager starts it again.
FairSpec == /\ Spec
            /\ WF_vars(Loop) /\ WF_vars(Watch) /\ SF_vars(Return)
            /\ WF_vars(Exit) /\ WF_vars(Boot)
---------------------------------------------------------------------------
Pcs == {"resume", "sweep", "clear", "next", "take", "room", "mark", "read", "convert",
        "probe", "rename", "ready", "unlink", "fail", "refuse", "requeue", "tidy",
        "idle", "down"}
Working == {"room", "mark", "read", "convert", "probe", "rename", "ready", "unlink",
            "fail", "refuse", "requeue", "tidy"}

\* The requests stand in one line: any two of them, once each way round.
InLine == /\ older \subseteq Asked \X Asked
          /\ \A t, u \in Asked : t # u => (<<t, u>> \in older <=> <<u, t>> \notin older)
          /\ \A t \in Asked : <<t, t>> \notin older
          /\ \A t, u, v \in Asked :
               <<t, u>> \in older /\ <<u, v>> \in older => <<t, v>> \in older

TypeOK == /\ row \in [Title -> State] /\ size \in [Title -> Nat] /\ InLine
          /\ copy \in [Title -> File] /\ part \in [Title -> File]
          /\ pc \in Pcs /\ job \in Title \cup {NoTitle}
          /\ (job \in Title <=> pc \in Working)
          /\ unheld \in SUBSET Title /\ (unheld # {} => pc = "clear")
          /\ stopped \in BOOLEAN /\ ending \in BOOLEAN /\ live \in BOOLEAN
          /\ moves \in 0..Moves

\* A copy that is said to be ready has its whole file in the folder, whatever was
\* withdrawn, asked for again or interrupted on the way (ADR 0087, decision 1;
\* optimized.go:290-297).
ReadyIsWhole == \A t \in Title : row[t] = "ready" => copy[t] = "whole"

\* The copies never take more than the limit, but for one whose estimate did not
\* bound it: however the requests fall, a second never follows it past the limit, and
\* without it the others keep to it (optimized.go:25-28, optimize.go:49-57).
LimitKept == \/ Used <= Limit
             \/ \E t \in Title : /\ row[t] = "ready" /\ ~Bounded(t)
                                 /\ Used - size[t] <= Limit

\* What no row asks for does not stay in the folder: neither a copy nor a half
\* one that a crash left (optimized.go:303-339).
UnheldGoes ==
  \A t \in Title : <>[](row[t] = "none") => <>[](copy[t] = "none" /\ part[t] = "none")

\* Where nobody watches anything converted live and the oldest request fits, no
\* title stays asked for without an answer (optimized.go:111-172).
RequestsSettle ==
  \A t \in Title :
    <>[](~live /\ \A o \in Title : Oldest(o) => HasRoom(o))
      => []<>(row[t] \notin {"queued", "converting"})

Settles == RequestsSettle /\ UnheldGoes
=============================================================================
