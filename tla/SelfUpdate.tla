------------------------------ MODULE SelfUpdate ------------------------------
(***************************************************************************)
(* Self-update: a release is downloaded and staged in the data directory   *)
(* while the server runs, and swapped in by renames as it goes down.       *)
(* (internal/selfupdate/stage.go, internal/update/download.go, as          *)
(* internal/api/update.go and internal/serverapp/main.go drive them.)      *)
(*                                                                         *)
(* The file system is that of Windows, the one system whose archives the   *)
(* updater can open: a file that is being written cannot be renamed.  Each *)
(* rename and each file written is a step.  What a file holds is the       *)
(* release it is of.                                                       *)
(***************************************************************************)
EXTENDS Naturals

CONSTANTS File, Exe, \* what releases install; the program itself
          Latest,    \* the last release there will be, a bound
          Ships,     \* release -> the files its archive has
          Download,  \* goroutines downloadUpdate may start
          Moves      \* how many faults, kills and installs there are, a bound

Release == 1..Latest
None == 0
Half == Latest + 1 \* being written, or left like that
Content == {None, Half} \cup Release

ASSUME UpdateAssumption ==
  /\ Exe \in File /\ Latest \in Nat \ {0} /\ Moves \in Nat
  /\ Ships \in [Release -> SUBSET File] /\ \A v \in Release : Exe \in Ships[v]

VARIABLES
  released,  \* the newest release
  installed, \* File -> what the install directory has under that name
  dir,       \* the staging directory exists
  manifest,  \* the release its manifest names, or None
  staged,    \* File -> what lies in it
  pc,        \* the process: "down", starting, "up", or where its Apply is
  version,   \* the release it is running, or ran
  left,      \* Apply: the manifest's files still to move
  here,      \* Apply: the file moved aside and not replaced yet
  aside,     \* Apply: File -> its backup; one of an earlier Apply is never read
  active,    \* Progress.Active
  dpc,       \* Download -> where it is
  fetched,   \* Download -> the release it brings
  todo,      \* Download -> files it has yet to write
  open,      \* Download -> the file it is writing
  moves,
  cut,       \* history: the installed files are as a kill in an Apply left them
  raced      \* history: two downloads have been under way at once, or one has
             \* staged in a process that was going down

staging == <<dir, manifest, staged>>
apply == <<left, here, aside>>
downloads == <<active, dpc, fetched, todo, open>>
bounds == <<released, moves>>
notes == <<cut, raced>>
vars == <<released, installed, staging, pc, version, apply, downloads, moves, notes>>

Init == /\ released = 1
        /\ installed = [f \in File |-> IF f \in Ships[1] THEN 1 ELSE None]
        /\ dir = FALSE /\ manifest = None /\ staged = [f \in File |-> None]
        /\ pc = "up" /\ version = 1
        /\ left = {} /\ here = {} /\ aside = [f \in File |-> None]
        /\ active = FALSE /\ dpc = [d \in Download |-> "none"]
        /\ fetched = [d \in Download |-> None]
        /\ todo = [d \in Download |-> {}] /\ open = [d \in Download |-> {}]
        /\ moves = 0 /\ cut = FALSE /\ raced = FALSE

Move == moves < Moves /\ moves' = moves + 1
RemoveAll == dir' = FALSE /\ manifest' = None /\ staged' = [f \in File |-> None]

\* A kill in the middle of RemoveAll leaves some of it.
RemoveSome == /\ UNCHANGED dir /\ manifest' \in {manifest, None}
              /\ \E F \in SUBSET File :
                   staged' = [f \in File |-> IF f \in F THEN None ELSE staged[f]]

Written(f) == \E d \in Download : f \in open[d]
Newer(current, tag) == tag > current
---------------------------------------------------------------------------
(* A download.                                                             *)

GoDownload(d, next) == dpc' = [dpc EXCEPT ![d] = next]

\* downloadUpdate, which refuses only while Progress says that one is active.
DownloadUpdate(d) ==
  /\ pc = "up" /\ dpc[d] = "none" /\ ~active
  /\ GoDownload(d, "asked")
  /\ raced' = (raced \/ \E e \in Download : dpc[e] # "none")
  /\ UNCHANGED <<installed, staging, pc, version, apply, active, fetched, todo, open, released, cut>>

\* The panel offers it for a newer release, and while none is staged.  A page that is
\* out of date, or a caller without one, may ask whenever it likes.
Ask(d) == Newer(version, released) /\ manifest = None /\ DownloadUpdate(d) /\ UNCHANGED moves
AskAnyway(d) == Move /\ DownloadUpdate(d)

\* The goroutine it started says that it is active only now.
Begin(d) ==
  /\ dpc[d] = "asked" /\ GoDownload(d, "fetch") /\ active' = TRUE
  /\ UNCHANGED <<installed, staging, pc, version, apply, fetched, todo, open, bounds, notes>>

\* The release looked up, verified and read into memory.
Fetch(d) ==
  /\ dpc[d] = "fetch" /\ Newer(version, released)
  /\ GoDownload(d, "stage") /\ fetched' = [fetched EXCEPT ![d] = released]
  /\ UNCHANGED <<installed, staging, pc, version, apply, active, todo, open, bounds, notes>>

\* Mutant: only a download that went well says that it is over.
EndDownloadActive(d) ==
  /\ GoDownload(d, "none") /\ active' = (active /\ todo[d] # {})
  /\ fetched' = [fetched EXCEPT ![d] = None]
  /\ todo' = [todo EXCEPT ![d] = {}] /\ open' = [open EXCEPT ![d] = {}]

EndDownload(d) ==
  /\ GoDownload(d, "none") /\ active' = FALSE
  /\ fetched' = [fetched EXCEPT ![d] = None]
  /\ todo' = [todo EXCEPT ![d] = {}] /\ open' = [open EXCEPT ![d] = {}]

\* Mutant: the manifest goes first.
StageMarked(d) ==
  /\ dpc[d] = "stage" /\ \A f \in File : ~Written(f)
  /\ dir' = TRUE /\ manifest' = fetched[d] /\ staged' = [f \in File |-> None]
  /\ GoDownload(d, "write") /\ todo' = [todo EXCEPT ![d] = Ships[fetched[d]]]
  /\ raced' = (raced \/ pc # "up")
  /\ UNCHANGED <<installed, pc, version, apply, active, fetched, open, bounds, cut>>

\* Stage: the directory is cleared, which a file being written prevents, and made.
\* A release staged before is gone, also from under an Apply.
Stage(d) ==
  /\ dpc[d] = "stage" /\ \A f \in File : ~Written(f)
  /\ dir' = TRUE /\ manifest' = None /\ staged' = [f \in File |-> None]
  /\ GoDownload(d, "write") /\ todo' = [todo EXCEPT ![d] = Ships[fetched[d]]]
  /\ raced' = (raced \/ pc # "up")
  /\ UNCHANGED <<installed, pc, version, apply, active, fetched, open, bounds, cut>>

\* WriteFile makes or truncates each file, in any order, ...
Create(d, f) ==
  /\ dpc[d] = "write" /\ open[d] = {} /\ f \in todo[d] /\ dir
  /\ open' = [open EXCEPT ![d] = {f}]
  /\ staged' = [staged EXCEPT ![f] = Half]
  /\ UNCHANGED <<installed, dir, manifest, pc, version, apply, active, dpc, fetched, todo,
                 bounds, notes>>

\* ... and fills it.
Fill(d, f) ==
  /\ dpc[d] = "write" /\ f \in open[d]
  /\ open' = [open EXCEPT ![d] = {}] /\ todo' = [todo EXCEPT ![d] = @ \ {f}]
  /\ staged' = [staged EXCEPT ![f] = fetched[d]]
  /\ UNCHANGED <<installed, dir, manifest, pc, version, apply, active, dpc, fetched, bounds, notes>>

\* The manifest goes last.
Mark(d) ==
  /\ dpc[d] = "write" /\ todo[d] = {} /\ dir
  /\ manifest' = fetched[d]
  /\ EndDownload(d)
  /\ UNCHANGED <<installed, dir, staged, pc, version, apply, bounds, notes>>

\* There is nothing newer any more, or the staging directory is not to be had.
Refused(d) ==
  /\ \/ dpc[d] = "fetch" /\ ~Newer(version, released)
     \/ dpc[d] = "stage" /\ \E f \in File : Written(f)
     \/ dpc[d] = "write" /\ open[d] = {} /\ ~dir
  /\ EndDownload(d)
  /\ UNCHANGED <<installed, staging, pc, version, apply, bounds, notes>>

\* The network, the signature, the disk.
Broken(d) ==
  /\ Move /\ dpc[d] \in {"fetch", "write"}
  /\ EndDownload(d)
  /\ UNCHANGED <<installed, staging, pc, version, apply, released, notes>>

DownloadStep(d) == \/ Begin(d) \/ Fetch(d) \/ Stage(d) \/ Mark(d) \/ Refused(d)
                   \/ \E f \in File : Create(d, f) \/ Fill(d, f)
---------------------------------------------------------------------------
(* The process.                                                            *)

\* It starts if its program is there and whole, and sweeps what it can of the
\* backups, which nothing else reads.
Boot ==
  /\ pc = "down" /\ installed[Exe] \in Release
  /\ pc' = "start" /\ version' = installed[Exe]
  /\ UNCHANGED <<installed, staging, apply, downloads, bounds, notes>>

Overtaken == manifest # None /\ ~Newer(version, manifest)

\* Mutant: what an installer overtook stays staged.
DiscardNothing ==
  /\ pc = "start" /\ pc' = "up" /\ UNCHANGED staging
  /\ UNCHANGED <<installed, version, apply, downloads, bounds, notes>>

\* A staged release that the one running has overtaken is thrown away.
Discard ==
  /\ pc = "start" /\ pc' = "up"
  /\ IF Overtaken THEN RemoveAll ELSE UNCHANGED staging
  /\ UNCHANGED <<installed, version, apply, downloads, bounds, notes>>

\* A shutdown waits for no download; its last act is Apply.
Shutdown == /\ pc = "up" /\ pc' = "check"
            /\ UNCHANGED <<installed, staging, version, apply, downloads, released, notes>>

\* restartForUpdate needs something staged; anything else may stop it too.
Restart == manifest # None /\ Shutdown /\ UNCHANGED moves
Stop == Move /\ Shutdown

\* The process is gone, and its goroutines with it.
Over ==
  /\ pc' = "down" /\ left' = {} /\ here' = {} /\ aside' = [f \in File |-> None]
  /\ active' = FALSE /\ dpc' = [d \in Download |-> "none"]
  /\ fetched' = [d \in Download |-> None]
  /\ todo' = [d \in Download |-> {}] /\ open' = [d \in Download |-> {}]
  /\ UNCHANGED <<version, released>>

Missing == \E f \in Ships[manifest] : staged[f] = None

\* Mutant: a staging that can never be satisfied is left there.
CheckKeeps ==
  /\ pc = "check"
  /\ IF manifest # None /\ ~Missing
     THEN /\ pc' = "move" /\ left' = Ships[manifest]
          /\ UNCHANGED <<staging, version, here, aside, downloads, bounds>>
     ELSE Over /\ UNCHANGED <<staging, moves>>
  /\ UNCHANGED <<installed, notes>>

\* Apply: Pending, and every file looked for before any is moved.
Check ==
  /\ pc = "check"
  /\ IF manifest = None THEN Over /\ UNCHANGED <<staging, moves>>
     ELSE IF Missing THEN Over /\ RemoveAll /\ UNCHANGED moves
     ELSE /\ pc' = "move" /\ left' = Ships[manifest]
          /\ UNCHANGED <<staging, version, here, aside, downloads, bounds>>
  /\ UNCHANGED <<installed, notes>>

\* One file is renamed out of the way, if there is one, ...
Aside(f) ==
  /\ pc = "move" /\ here = {} /\ f \in left
  /\ here' = {f}
  /\ aside' = [aside EXCEPT ![f] = installed[f]]
  /\ installed' = [installed EXCEPT ![f] = None]
  /\ UNCHANGED <<staging, pc, version, left, downloads, bounds, notes>>

\* ... and the staged one into its place.
Place(f) ==
  /\ pc = "move" /\ f \in here /\ staged[f] # None /\ ~Written(f)
  /\ here' = {} /\ left' = left \ {f}
  /\ installed' = [installed EXCEPT ![f] = staged[f]]
  /\ staged' = [staged EXCEPT ![f] = None]
  /\ UNCHANGED <<dir, manifest, pc, version, aside, downloads, bounds, notes>>

GivesUp == /\ pc' = "undo"
           /\ UNCHANGED <<installed, staging, version, apply, downloads, released, notes>>

\* A rename finds nothing to move, or a file that is being written; or it fails
\* for reasons of the file system's.
RenameBlocked == /\ pc = "move" /\ \E f \in here : staged[f] = None \/ Written(f)
                 /\ GivesUp /\ UNCHANGED moves
RenameFails == /\ pc = "move" /\ left # {}
               /\ here # {} \/ \E f \in left : installed[f] # None
               /\ Move /\ GivesUp

\* Mutant: only what was replaced is put back.
PutBackReplaced(f) ==
  /\ pc = "undo" /\ aside[f] # None
  /\ installed' = IF f \in here THEN installed ELSE [installed EXCEPT ![f] = aside[f]]
  /\ aside' = [aside EXCEPT ![f] = None]
  /\ UNCHANGED <<staging, pc, version, left, here, downloads, bounds, notes>>

\* rollback, over whatever was put in its place.  (Last aside first; any order is
\* allowed here.  A rename that puts a file back does not fail.)
PutBack(f) ==
  /\ pc = "undo" /\ aside[f] # None
  /\ installed' = [installed EXCEPT ![f] = aside[f]]
  /\ aside' = [aside EXCEPT ![f] = None]
  /\ UNCHANGED <<staging, pc, version, left, here, downloads, bounds, notes>>

RolledBack == /\ pc = "undo" /\ \A f \in File : aside[f] = None
              /\ Over /\ UNCHANGED <<installed, staging, moves, notes>>

Commit == /\ pc = "move" /\ left = {} /\ RemoveAll /\ Over
          /\ UNCHANGED <<installed, moves, notes>>

ApplyStep == \/ Check \/ RenameBlocked \/ RolledBack \/ Commit
             \/ \E f \in File : Aside(f) \/ Place(f) \/ PutBack(f)
---------------------------------------------------------------------------
(* What happens around it.                                                 *)

Publish == /\ released < Latest /\ released' = released + 1
           /\ UNCHANGED <<installed, staging, pc, version, apply, downloads, moves, notes>>

\* Where the process is in a RemoveAll, or about to be.
Clearing == \/ pc = "start" /\ Overtaken
            \/ pc = "check" /\ manifest # None /\ Missing
            \/ pc = "move" /\ left = {}
            \/ \E d \in Download : dpc[d] = "stage"

Killed == /\ pc # "down" /\ Over
          /\ \/ UNCHANGED staging
             \/ Clearing /\ RemoveSome
Kill == /\ Move /\ Killed
        /\ cut' = (cut \/ pc = "undo" \/ (pc = "move" /\ left # {}))
        /\ UNCHANGED <<installed, raced>>

\* An installer, of any release: it kills the process first.
Install ==
  /\ Move /\ (Killed \/ (pc = "down" /\ Over /\ UNCHANGED staging))
  /\ \E v \in 1..released :
       installed' = [f \in File |-> IF f \in Ships[v] THEN v ELSE installed[f]]
  /\ cut' = FALSE /\ UNCHANGED raced

Around == \/ Publish \/ Stop \/ RenameFails \/ Kill \/ Install
          \/ \E d \in Download : AskAnyway(d) \/ Broken(d)

Next == \/ \E d \in Download : Ask(d) \/ DownloadStep(d)
        \/ Boot \/ Discard \/ Restart \/ ApplyStep
        \/ Around
Spec == Init /\ [][Next]_vars

\* The goroutines run on, an administrator takes what the panel offers, and the
\* service manager, the helper or a person starts a process that ended.
FairSpec == /\ Spec
            /\ WF_vars(Boot) /\ WF_vars(Discard) /\ WF_vars(Restart) /\ WF_vars(ApplyStep)
            /\ \A d \in Download : WF_vars(Ask(d)) /\ WF_vars(DownloadStep(d))
---------------------------------------------------------------------------
TypeOK ==
  /\ released \in Release /\ installed \in [File -> Content]
  /\ dir \in BOOLEAN /\ manifest \in Release \cup {None} /\ staged \in [File -> Content]
  /\ pc \in {"down", "start", "up", "check", "move", "undo"} /\ version \in Release
  /\ left \subseteq File /\ here \subseteq left /\ aside \in [File -> Content]
  /\ pc \notin {"move", "undo"} => left = {}
  /\ active \in BOOLEAN /\ dpc \in [Download -> {"none", "asked", "fetch", "stage", "write"}]
  /\ fetched \in [Download -> Release \cup {None}]
  /\ todo \in [Download -> SUBSET File] /\ open \in [Download -> SUBSET File]
  /\ \A d \in Download : open[d] \subseteq todo[d] /\ (todo[d] # {} => dpc[d] = "write")
  /\ \A d \in Download : dpc[d] \in {"stage", "write"} => fetched[d] \in Release
  /\ active => \E d \in Download : dpc[d] # "none"
  /\ moves \in 0..Moves /\ cut \in BOOLEAN /\ raced \in BOOLEAN

Whole(v) == \A f \in Ships[v] : installed[f] = v

\* Outside an Apply the installed files are those of one release, its program
\* among them: whatever was downloaded by half, failed to move or was killed,
\* unless the kill was in the middle of an Apply's renames, two downloads passed the
\* check for one under way together, or one staged as the process went down
\* (stage.go:33-35, :74-79, :134-140).
WholeRelease ==
  pc \notin {"move", "undo"} /\ ~cut /\ ~raced => \E v \in Release : Whole(v) /\ installed[Exe] = v

\* An Apply never puts a program in the place of a newer one, whoever installed
\* that (main.go:837-851).
NeverDowngrades == [][Place(Exe) /\ ~raced => ~Newer(installed'[Exe], aside[Exe])]_vars

\* However often a download broke, a rename failed or the process was killed, an
\* administrator who takes what the panel offers comes to run the newest release,
\* also when what is staged is asked for again: no staged leftover stands in the way
\* for ever (stage.go:147-160).
Updated == Whole(released) /\ version = released
UpdatesAtLast == <>[]~cut /\ []~raced => <>[]Updated

-----------------------------------------------------------------------------
(* What the comments say, and the code does not do.                        *)

\* "the worst outcome is an install that did not update, never one that cannot
\* start" (stage.go:34-35).
StartsAgain == pc = "down" => installed[Exe] \in Release

\* "Wasteful, and recoverable" (stage.go:239), of a kill between the moves.
RecoversFromCut == <>[](installed[Exe] \in Release) /\ []~raced => <>[]Updated
=============================================================================
