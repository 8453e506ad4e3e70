--------------------------- MODULE SelfUpdateProofs ---------------------------
(***************************************************************************)
(* The staging and the swap of SelfUpdate, for every set of files, every   *)
(* number of releases and of downloads, and however much goes wrong.       *)
(***************************************************************************)
EXTENDS SelfUpdate, TLAPS

LEMMA Constants == /\ Exe \in File /\ Latest \in Nat /\ Moves \in Nat
                   /\ None \notin Release /\ Half \notin Release /\ None # Half
                   /\ 1 \in Release /\ Release \subseteq Nat
                   /\ Ships \in [Release -> SUBSET File]
                   /\ \A v \in Release : Exe \in Ships[v]
  BY UpdateAssumption DEF Release, None, Half

(* A step of a download, whichever it is.                                  *)
Downloads(d) == Ask(d) \/ AskAnyway(d) \/ DownloadStep(d) \/ Broken(d)

LEMMA DownloadFrame ==
  ASSUME NEW d \in Download, Downloads(d)
  PROVE  UNCHANGED <<installed, pc, version, apply, released, cut>> /\ (raced => raced')
<1> USE DEF bounds, apply, staging, notes
<1>1. CASE Ask(d) \/ AskAnyway(d)
  BY <1>1 DEF Ask, AskAnyway, DownloadUpdate
<1>2. CASE DownloadStep(d)
  <2>1. CASE Stage(d)
    <3>1. UNCHANGED <<installed, pc, version, apply, released, cut>>
      BY <2>1 DEF Stage
    <3>2. raced' = (raced \/ pc # "up")
      BY <2>1 DEF Stage
    <3> QED BY <3>1, <3>2
  <2>2. CASE ~Stage(d)
    BY <1>2, <2>2 DEF DownloadStep, Begin, Fetch, Create, Fill, Mark, Refused
  <2> QED BY <2>1, <2>2
<1>3. CASE Broken(d)
  BY <1>3 DEF Broken
<1> QED BY <1>1, <1>2, <1>3 DEF Downloads

\* What a step can be.
LEMMA Steps ==
  Next <=> \/ \E d \in Download : Downloads(d)
           \/ Boot \/ Discard \/ Restart \/ ApplyStep
           \/ Publish \/ Stop \/ RenameFails \/ Kill \/ Install
  BY DEF Next, Around, Downloads
---------------------------------------------------------------------------
(* Types.                                                                  *)

LEMMA DownloadTypes ==
  ASSUME TypeOK, NEW d \in Download, Downloads(d)
  PROVE  TypeOK'
<1> USE Constants DEF TypeOK, bounds, apply, staging, notes, downloads, Content, Move
<1>1. CASE Ask(d) \/ AskAnyway(d)
  <2>1. moves' \in 0..Moves
    BY <1>1 DEF Ask, AskAnyway
  <2>2. raced' = (raced \/ \E e \in Download : dpc[e] # "none")
    BY <1>1 DEF Ask, AskAnyway, DownloadUpdate
  <2>3. raced' \in BOOLEAN
    BY <2>2
  <2> QED BY <1>1, <2>1, <2>3 DEF Ask, AskAnyway, DownloadUpdate, GoDownload
<1>2. CASE Begin(d)
  <2>1. /\ dpc' \in [Download -> {"none", "asked", "fetch", "stage", "write"}]
        /\ dpc'[d] = "fetch" /\ \A e \in Download \ {d} : dpc'[e] = dpc[e]
    BY <1>2 DEF Begin, GoDownload
  <2>2. \A e \in Download : dpc'[e] \in {"stage", "write"} => fetched'[e] \in Release
    BY <1>2, <2>1 DEF Begin
  <2>3. active' \in BOOLEAN /\ \E e \in Download : dpc'[e] # "none"
    BY <1>2, <2>1 DEF Begin
  <2> QED BY <1>2, <2>1, <2>2, <2>3 DEF Begin
<1>3. CASE Fetch(d)
  BY <1>3 DEF Fetch, GoDownload
<1>4. CASE Stage(d)
  <2>1. /\ dpc' \in [Download -> {"none", "asked", "fetch", "stage", "write"}]
        /\ dpc'[d] = "write" /\ \A e \in Download \ {d} : dpc'[e] = dpc[e]
    BY <1>4 DEF Stage, GoDownload
  <2>2. fetched[d] \in Release /\ Ships[fetched[d]] \in SUBSET File
    BY <1>4 DEF Stage
  <2>3. /\ todo' \in [Download -> SUBSET File]
        /\ \A e \in Download :
             open'[e] \subseteq todo'[e] /\ (todo'[e] # {} => dpc'[e] = "write")
    BY <1>4, <2>2, <2>1 DEF Stage
  <2>4. staged' \in [File -> Content] /\ dir' \in BOOLEAN /\ manifest' \in Release \cup {None}
    BY <1>4 DEF Stage
  <2>5. \A e \in Download : dpc'[e] \in {"stage", "write"} => fetched'[e] \in Release
    BY <1>4, <2>1, <2>2 DEF Stage
  <2>6. active' \in BOOLEAN /\ raced' \in BOOLEAN /\ \E e \in Download : dpc'[e] # "none"
    BY <1>4, <2>1 DEF Stage
  <2> QED BY <1>4, <2>1, <2>3, <2>4, <2>5, <2>6 DEF Stage
<1>5. ASSUME NEW f \in File, Create(d, f) PROVE TypeOK'
  BY <1>5 DEF Create
<1>6. ASSUME NEW f \in File, Fill(d, f) PROVE TypeOK'
  BY <1>6 DEF Fill
<1>7. CASE Mark(d)
  <2>1. manifest' \in Release \cup {None} /\ active' = FALSE
    BY <1>7 DEF Mark, EndDownload
  <2> QED BY <1>7, <2>1 DEF Mark, EndDownload, GoDownload
<1>8. CASE Refused(d)
  BY <1>8 DEF Refused, EndDownload, GoDownload
<1>9. CASE Broken(d)
  <2>1. moves' \in 0..Moves /\ active' = FALSE
    BY <1>9 DEF Broken, EndDownload
  <2> QED BY <1>9, <2>1 DEF Broken, EndDownload, GoDownload
<1> HIDE DEF TypeOK, Content, Move
<1> QED BY <1>1, <1>2, <1>3, <1>4, <1>5, <1>6, <1>7, <1>8, <1>9 DEF Downloads, DownloadStep

\* The end of a process leaves the types as they were.
LEMMA OverTypes ==
  ASSUME TypeOK, Over,
         installed' \in [File -> Content], staged' \in [File -> Content],
         dir' \in BOOLEAN, manifest' \in Release \cup {None}, moves' \in 0..Moves,
         cut' \in BOOLEAN, raced' \in BOOLEAN
  PROVE  TypeOK'
<1>1. /\ pc' = "down" /\ left' = {} /\ here' = {} /\ aside' \in [File -> Content]
      /\ version' \in Release /\ released' \in Release
  BY DEF TypeOK, Over, Content
<1>2. /\ dpc' \in [Download -> {"none", "asked", "fetch", "stage", "write"}]
      /\ fetched' \in [Download -> Release \cup {None}]
      /\ todo' \in [Download -> SUBSET File] /\ open' \in [Download -> SUBSET File]
      /\ \A d \in Download : dpc'[d] = "none" /\ todo'[d] = {} /\ open'[d] = {}
  BY DEF Over
<1>3. active' = FALSE
  BY DEF Over
<1> QED BY <1>1, <1>2, <1>3 DEF TypeOK

LEMMA StagingTypes ==
  ASSUME TypeOK, RemoveAll \/ RemoveSome \/ UNCHANGED staging
  PROVE  /\ dir' \in BOOLEAN /\ manifest' \in Release \cup {None}
         /\ staged' \in [File -> Content]
  BY DEF TypeOK, RemoveAll, RemoveSome, staging, Content

LEMMA ProcessTypes ==
  ASSUME TypeOK, \/ Boot \/ Discard \/ Restart \/ ApplyStep
                 \/ Publish \/ Stop \/ RenameFails \/ Kill \/ Install
  PROVE  TypeOK'
<1> USE Constants DEF TypeOK, bounds, apply, staging, notes, downloads, Content
<1>1. CASE Boot
  BY <1>1 DEF Boot
<1>2. CASE Discard
  BY <1>2 DEF Discard, RemoveAll
<1>3. CASE Restart
  BY <1>3 DEF Restart, Shutdown
<1>4. CASE Stop
  BY <1>4 DEF Stop, Shutdown, Move
<1>5. CASE Check
  <2>1. UNCHANGED <<installed, moves, notes>> /\ (RemoveAll \/ UNCHANGED staging)
    BY <1>5 DEF Check
  <2>2. CASE Over
    BY <2>1, <2>2, OverTypes, StagingTypes
  <2>3. CASE ~Over
    <3>1. manifest # None /\ left' = Ships[manifest]
      BY <1>5, <2>3 DEF Check
    <3>2. left' \subseteq File /\ here' \subseteq left'
      BY <3>1, <1>5, <2>3 DEF Check
    <3> QED BY <1>5, <2>1, <2>3, <3>2 DEF Check
  <2> QED BY <2>2, <2>3
<1>6. CASE RenameBlocked
  BY <1>6 DEF RenameBlocked, GivesUp
<1>7. CASE RolledBack
  BY <1>7 DEF RolledBack, Over
<1>8. CASE Commit
  BY <1>8 DEF Commit, Over, RemoveAll
<1>9. ASSUME NEW f \in File, Aside(f) PROVE TypeOK'
  BY <1>9 DEF Aside
<1>10. ASSUME NEW f \in File, Place(f) PROVE TypeOK'
  BY <1>10 DEF Place
<1>11. ASSUME NEW f \in File, PutBack(f) PROVE TypeOK'
  BY <1>11 DEF PutBack
<1>12. CASE Publish
  BY <1>12 DEF Publish, Release
<1>13. CASE RenameFails
  BY <1>13 DEF RenameFails, GivesUp, Move
<1>14. CASE Kill
  <2>1. /\ moves' \in 0..Moves /\ cut' \in BOOLEAN /\ raced' \in BOOLEAN
        /\ installed' \in [File -> Content]
    BY <1>14 DEF Kill, Move
  <2>2. Over /\ (RemoveSome \/ UNCHANGED staging)
    BY <1>14 DEF Kill, Killed
  <2> QED BY <2>1, <2>2, OverTypes, StagingTypes
<1>15. CASE Install
  <2>1. moves' \in 0..Moves /\ raced' \in BOOLEAN
    <3>1. Move /\ raced' = raced
      BY <1>15 DEF Install
    <3> QED BY <3>1 DEF Move
  <2>6. cut' = FALSE
    BY <1>15 DEF Install
  <2>2. Over /\ (RemoveSome \/ UNCHANGED staging)
    BY <1>15 DEF Install, Killed
  <2>3. PICK v \in 1..released :
          installed' = [f \in File |-> IF f \in Ships[v] THEN v ELSE installed[f]]
    BY <1>15 DEF Install
  <2>4. v \in Release
    BY <2>3 DEF Release
  <2>5. installed' \in [File -> Content]
    BY <2>3, <2>4
  <2> QED BY <2>1, <2>2, <2>5, <2>6, OverTypes, StagingTypes
<1> HIDE DEF TypeOK, Content
<1> QED BY <1>1, <1>2, <1>3, <1>4, <1>5, <1>6, <1>7, <1>8, <1>9, <1>10, <1>11, <1>12,
           <1>13, <1>14, <1>15 DEF ApplyStep

LEMMA TypeInit == Init => TypeOK
<1> SUFFICES ASSUME Init PROVE TypeOK
  OBVIOUS
<1>1. installed \in [File -> Content] /\ staged \in [File -> Content] /\ aside \in [File -> Content]
  BY Constants DEF Init, Content
<1>2. active = FALSE /\ cut = FALSE /\ raced = FALSE /\ dir = FALSE
  BY DEF Init
<1>3. moves \in 0..Moves /\ released \in Release /\ version \in Release
  BY Constants DEF Init
<1> QED BY <1>1, <1>2, <1>3 DEF Init, TypeOK

LEMMA TypeStep == TypeOK /\ [Next]_vars => TypeOK'
<1> SUFFICES ASSUME TypeOK, [Next]_vars PROVE TypeOK'
  OBVIOUS
<1>1. CASE Next
  BY <1>1, Steps, DownloadTypes, ProcessTypes
<1>2. CASE UNCHANGED vars
  BY <1>2 DEF vars, staging, apply, downloads, notes, TypeOK
<1> QED BY <1>1, <1>2

\* The variables keep their types, and nothing is said to be downloading with no
\* download under way, whatever breaks, overlaps or is killed.
THEOREM UpdateTypeCorrect == Spec => []TypeOK
  BY TypeInit, TypeStep, PTL DEF Spec
---------------------------------------------------------------------------
(* What is staged and what runs.                                           *)

AtRest == pc \notin {"move", "undo"}

\* A download brings what is newer than the process it runs in, ...
Fit == \A d \in Download : dpc[d] \in {"stage", "write"} => Newer(version, fetched[d])
Down == pc = "down" => \A d \in Download : dpc[d] = "none"

\* ... so what is staged is newer than what runs, once the start has swept.
Newest == pc \in {"up", "check", "move"} /\ manifest # None => Newer(version, manifest)

\* What runs is what the program's file holds, or what was moved aside from it.
Runs == /\ AtRest => aside = [f \in File |-> None]
        /\ pc \in {"start", "up", "check"} => installed[Exe] = version
        /\ pc = "move" /\ Exe \in left \ here => installed[Exe] = version
        /\ pc = "move" /\ Exe \in here => aside[Exe] = version

\* One file at a time.
One == /\ \A f, g \in here : f = g
       /\ \A d \in Download : \A f, g \in open[d] : f = g

Current == Fit /\ Down /\ Newest /\ Runs /\ One

\* While downloads take turns, and none stages as the process goes down, a manifest
\* names what all the staged files are of.  A download that is asked for while a
\* release is staged is no harm before it stages, which takes the manifest away.
Alone == \A d, e \in Download : dpc[d] # "none" /\ dpc[e] # "none" => d = e
Quiet == manifest # None => \A d \in Download : dpc[d] # "write"
Brings == \A d \in Download : dpc[d] = "write" =>
            \A f \in File : staged[f] \in {None, fetched[d]} \/ f \in open[d]
Marked == manifest # None => \A f \in File : staged[f] \in {None, manifest}
Moving == pc = "move" => manifest # None
Calm == ~raced => Alone /\ Quiet /\ Brings /\ Marked /\ Moving

\* An Apply can be undone until it is done.
Resting == /\ pc = "down" => \E v \in Release : Whole(v)
           /\ pc \in {"start", "up", "check"} => Whole(version)
Undoable == ~AtRest => \A f \in Ships[version] : \/ aside[f] = version
                                                 \/ aside[f] = None /\ installed[f] = version
Done == pc = "move" => /\ \A f \in left \ here : aside[f] = None
                       /\ \A f \in here : installed[f] = None
                       /\ \A f \in Ships[manifest] \ left : installed[f] = manifest
Kept == ~raced /\ ~cut => Resting /\ Undoable /\ Done

LEMMA DownloadEffect ==
  ASSUME TypeOK, NEW d \in Download, Downloads(d)
  PROVE  /\ \A e \in Download \ {d} : dpc'[e] = dpc[e] /\ fetched'[e] = fetched[e]
         /\ dpc'[d] \in {"stage", "write"} =>
              \/ dpc[d] \in {"stage", "write"} /\ fetched'[d] = fetched[d]
              \/ Newer(version, fetched'[d])
         /\ dpc[d] = "none" => pc = "up"
         /\ \/ manifest' = manifest
            \/ manifest' = None /\ (raced' \/ pc = "up")
            \/ dpc[d] = "write" /\ manifest' = fetched[d]
         /\ \A e \in Download : \/ open'[e] \in {open[e], {}}
                                \/ \E f \in File : open'[e] = {f}
<1> USE DEF bounds, apply, staging, notes, downloads, TypeOK
<1>1. CASE Ask(d) \/ AskAnyway(d)
  BY <1>1 DEF Ask, AskAnyway, DownloadUpdate, GoDownload
<1>2. CASE Begin(d) \/ Fetch(d) \/ Stage(d)
  BY <1>2 DEF Begin, Fetch, Stage, GoDownload
<1>3. ASSUME NEW f \in File, Create(d, f) \/ Fill(d, f)
      PROVE  /\ UNCHANGED <<dpc, fetched, manifest>> /\ dpc[d] = "write"
             /\ \A e \in Download : open'[e] \in {open[e], {}, {f}}
  BY <1>3 DEF Create, Fill
<1>4. CASE Mark(d) \/ Refused(d) \/ Broken(d)
  <2>1. EndDownload(d) /\ dpc[d] # "none"
    BY <1>4 DEF Mark, Refused, Broken
  <2>2. manifest' = manifest \/ (dpc[d] = "write" /\ manifest' = fetched[d])
    BY <1>4 DEF Mark, Refused, Broken
  <2> QED BY <2>1, <2>2 DEF EndDownload, GoDownload
<1> QED BY <1>1, <1>2, <1>3, <1>4 DEF Downloads, DownloadStep

LEMMA CurrentStep ==
  ASSUME TypeOK, Current, Next
  PROVE  Current'
<1> USE DEF Fit, Down, Newest, Runs, One, AtRest, bounds, apply, staging, notes, downloads
<1>1. ASSUME NEW d \in Download, Downloads(d) PROVE Current'
  <2>1. UNCHANGED <<installed, pc, version, left, here, aside>>
    BY <1>1, DownloadFrame
  <2>2. Fit' /\ Down'
    BY <1>1, <2>1, DownloadEffect DEF Current, Newer
  <2>3. Newest'
    BY <1>1, <2>1, DownloadEffect DEF Current, Newer
  <2>4. One'
    BY <1>1, <2>1, DownloadEffect DEF Current
  <2> QED BY <2>1, <2>2, <2>3, <2>4 DEF Current
<1>2. CASE Boot
  BY <1>2 DEF Boot, Current
<1>3. CASE Discard
  BY <1>3 DEF Discard, Current, Overtaken, RemoveAll
<1>4. CASE Restart \/ Stop
  BY <1>4 DEF Restart, Stop, Shutdown, Current
<1>5. ASSUME Over PROVE Current'
  BY <1>5 DEF Over, Current
<1>6. CASE Check
  <2>1. CASE ~Over
    BY <1>6, <2>1, Constants DEF Check, Current, TypeOK
  <2> QED BY <2>1, <1>5
<1>7. CASE RenameBlocked \/ RenameFails
  BY <1>7 DEF RenameBlocked, RenameFails, GivesUp, Current
<1>8. CASE RolledBack \/ Commit \/ Kill \/ Install
  BY <1>8, <1>5 DEF RolledBack, Commit, Kill, Install, Killed
<1>9. ASSUME NEW f \in File, Aside(f) PROVE Current'
  <2>1. /\ pc = "move" /\ UNCHANGED <<pc, version, manifest, dpc, fetched, open, left>>
        /\ here = {} /\ here' = {f} /\ f \in left
        /\ aside' = [aside EXCEPT ![f] = installed[f]]
        /\ installed' = [installed EXCEPT ![f] = None]
    BY <1>9 DEF Aside
  <2>2. Runs'
    BY <2>1, Constants DEF Current, TypeOK
  <2> QED BY <2>1, <2>2 DEF Current
<1>10. ASSUME NEW f \in File, Place(f) PROVE Current'
  <2>1. /\ pc = "move" /\ UNCHANGED <<pc, version, manifest, dpc, fetched, open, aside>>
        /\ here' = {} /\ left' = left \ {f} /\ f \in here
        /\ installed' = [installed EXCEPT ![f] = staged[f]]
    BY <1>10 DEF Place
  <2>2. Runs'
    <3>1. SUFFICES ASSUME Exe \in left' PROVE installed'[Exe] = version
      BY <2>1 DEF Current
    <3>2. Exe # f /\ Exe \in left
      BY <3>1, <2>1
    <3>3. Exe \notin here
      BY <3>2, <2>1 DEF Current
    <3> QED BY <3>2, <3>3, <2>1, Constants DEF Current, TypeOK
  <2> QED BY <2>1, <2>2 DEF Current
<1>11. ASSUME NEW f \in File, PutBack(f) PROVE Current'
  BY <1>11 DEF PutBack, Current
<1>12. CASE Publish
  BY <1>12 DEF Publish, Current
<1> HIDE DEF Current
<1> QED BY <1>1, <1>2, <1>3, <1>4, <1>6, <1>7, <1>8, <1>9, <1>10, <1>11, <1>12, Steps
        DEF ApplyStep

LEMMA CalmDownload ==
  ASSUME TypeOK, Current, Calm, NEW d \in Download, Downloads(d), ~raced'
  PROVE  Alone' /\ Quiet' /\ Brings' /\ Marked' /\ Moving'
<1> USE DEF Alone, Quiet, Brings, Marked, Moving, bounds, apply, staging, notes, downloads
<1>1. ~raced /\ Alone /\ Quiet /\ Brings /\ Marked /\ Moving
  BY DownloadFrame DEF Calm
<1>2. UNCHANGED <<installed, pc, version, left, here, aside>>
  BY DownloadFrame
<1>3. CASE Ask(d) \/ AskAnyway(d)
  <2>1. \A e \in Download : dpc[e] = "none"
    BY <1>3 DEF Ask, AskAnyway, DownloadUpdate
  <2>2. \A e \in Download \ {d} : dpc'[e] = "none"
    BY <1>3, <2>1 DEF Ask, AskAnyway, DownloadUpdate, GoDownload, TypeOK
  <2>3. /\ dpc'[d] = "asked" /\ pc' = "up"
        /\ UNCHANGED <<manifest, staged, fetched, open>>
    BY <1>3 DEF Ask, AskAnyway, DownloadUpdate, GoDownload, TypeOK
  <2> QED BY <1>1, <2>2, <2>3
<1>4. ASSUME dpc[d] # "none"
      PROVE  \A e \in Download \ {d} : dpc[e] = "none" /\ dpc'[e] = "none"
  <2>1. \A e \in Download \ {d} : dpc[e] = "none"
    BY <1>4, <1>1
  <2>2. \A e \in Download \ {d} : dpc'[e] = dpc[e]
    BY DownloadEffect
  <2> QED BY <2>1, <2>2
<1>5. dpc[d] = "write" => manifest = None /\ pc # "move"
  BY <1>1
<1>6. CASE Begin(d) \/ Fetch(d)
  <2>1. /\ dpc[d] # "none" /\ UNCHANGED <<manifest, staged>>
        /\ dpc'[d] \in {"fetch", "stage"}
    BY <1>6 DEF Begin, Fetch, GoDownload, TypeOK
  <2> QED BY <2>1, <1>1, <1>2, <1>4
<1>7. CASE Stage(d)
  <2>1. /\ dpc[d] # "none" /\ manifest' = None /\ dpc'[d] = "write"
        /\ staged' = [f \in File |-> None] /\ pc = "up"
    BY <1>7 DEF Stage, GoDownload, TypeOK
  <2> QED BY <2>1, <1>2, <1>4
<1>8. ASSUME NEW f \in File, Create(d, f) PROVE Alone' /\ Quiet' /\ Brings' /\ Marked' /\ Moving'
  <2>1. /\ dpc[d] = "write" /\ open[d] = {} /\ UNCHANGED <<manifest, dpc, fetched>>
        /\ open' = [open EXCEPT ![d] = {f}] /\ staged' = [staged EXCEPT ![f] = Half]
    BY <1>8 DEF Create
  <2>2. Brings'
    BY <2>1, <1>1, <1>4 DEF TypeOK
  <2> QED BY <2>1, <2>2, <1>1, <1>2, <1>4, <1>5
<1>9. ASSUME NEW f \in File, Fill(d, f) PROVE Alone' /\ Quiet' /\ Brings' /\ Marked' /\ Moving'
  <2>1. /\ dpc[d] = "write" /\ f \in open[d] /\ UNCHANGED <<manifest, dpc, fetched>>
        /\ open' = [open EXCEPT ![d] = {}] /\ staged' = [staged EXCEPT ![f] = fetched[d]]
    BY <1>9 DEF Fill
  <2>2. \A g \in open[d] : g = f
    BY <2>1 DEF Current, One
  <2>3. Brings'
    BY <2>1, <2>2, <1>1, <1>4 DEF TypeOK
  <2> QED BY <2>1, <2>3, <1>1, <1>2, <1>4, <1>5
<1>10. CASE Mark(d) \/ Refused(d) \/ Broken(d)
  <2>1. dpc[d] # "none" /\ EndDownload(d) /\ UNCHANGED staged
    BY <1>10 DEF Mark, Refused, Broken
  <2>2. \A e \in Download : dpc'[e] = "none"
    BY <2>1, <1>4 DEF EndDownload, GoDownload, TypeOK
  <2>3. manifest' = manifest \/ (dpc[d] = "write" /\ todo[d] = {} /\ manifest' = fetched[d])
    BY <1>10 DEF Mark, Refused, Broken
  <2>4. Marked'
    BY <2>1, <2>3, <1>1 DEF TypeOK
  <2> QED BY <2>1, <2>2, <2>3, <2>4, <1>1, <1>2, <1>5
<1> QED BY <1>3, <1>6, <1>7, <1>8, <1>9, <1>10 DEF Downloads, DownloadStep

\* No step of the process stages a thing.
LEMMA ProcessEffect ==
  ASSUME TypeOK, \/ Boot \/ Discard \/ Restart \/ ApplyStep
                 \/ Publish \/ Stop \/ RenameFails \/ Kill \/ Install
  PROVE  /\ raced' = raced
         /\ manifest' \in {manifest, None}
         /\ \A f \in File : staged'[f] \in {staged[f], None}
         /\ \/ UNCHANGED <<dpc, fetched, open>>
            \/ \A d \in Download : dpc'[d] = "none"
         /\ pc' = "move" => (pc = "move" /\ manifest' = manifest) \/ manifest' # None
<1> DEFINE Effect == /\ raced' = raced
                     /\ manifest' \in {manifest, None}
                     /\ \A f \in File : staged'[f] \in {staged[f], None}
                     /\ \/ UNCHANGED <<dpc, fetched, open>>
                        \/ \A d \in Download : dpc'[d] = "none"
                     /\ pc' = "move" => (pc = "move" /\ manifest' = manifest) \/ manifest' # None
<1> SUFFICES Effect
  OBVIOUS
<1> USE DEF bounds, apply, staging, notes, downloads
<1>1. ASSUME Over, raced' = raced, RemoveAll \/ RemoveSome \/ UNCHANGED staging PROVE Effect
  BY <1>1 DEF Over, RemoveAll, RemoveSome, TypeOK
<1>2. CASE Boot \/ Restart \/ Publish \/ Stop \/ RenameFails \/ RenameBlocked
  BY <1>2 DEF Boot, Restart, Publish, Stop, RenameFails, RenameBlocked, Shutdown, GivesUp
<1>3. CASE Discard
  BY <1>3 DEF Discard, RemoveAll
<1>4. CASE Check
  <2>1. CASE ~Over
    BY <1>4, <2>1 DEF Check
  <2>2. raced' = raced /\ (RemoveAll \/ UNCHANGED staging)
    BY <1>4 DEF Check
  <2> QED BY <2>1, <2>2, <1>1
<1>5. CASE RolledBack \/ Commit \/ Kill \/ Install
  BY <1>5, <1>1 DEF RolledBack, Commit, Kill, Install, Killed
<1>6. ASSUME NEW f \in File, Aside(f) \/ Place(f) \/ PutBack(f) PROVE Effect
  BY <1>6 DEF Aside, Place, PutBack, TypeOK
<1> HIDE DEF Effect
<1>7. Effect
  BY <1>2, <1>3, <1>4, <1>5, <1>6 DEF ApplyStep
<1> QED BY <1>7

LEMMA CalmStep ==
  ASSUME TypeOK, Current, Calm, Next
  PROVE  Calm'
<1> SUFFICES ASSUME ~raced' PROVE Alone' /\ Quiet' /\ Brings' /\ Marked' /\ Moving'
  BY DEF Calm
<1>1. CASE \E d \in Download : Downloads(d)
  BY <1>1, CalmDownload
<1>2. CASE ~\E d \in Download : Downloads(d)
  <2>1. Alone /\ Quiet /\ Brings /\ Marked /\ Moving
    BY <1>2, Steps, ProcessEffect DEF Calm
  <2> QED BY <1>2, <2>1, Steps, ProcessEffect DEF Alone, Quiet, Brings, Marked, Moving
<1> QED BY <1>1, <1>2

\* Whatever an Apply has done so far is undone by its rollback, and what it has
\* done in the end is a release.
LEMMA KeptStep ==
  ASSUME TypeOK, Current, Calm, Kept, Next
  PROVE  Kept'
<1> SUFFICES ASSUME ~raced', ~cut' PROVE Resting' /\ Undoable' /\ Done'
  BY DEF Kept
<1> USE DEF AtRest, bounds, apply, staging, notes, downloads
<1>1. ASSUME NEW d \in Download, Downloads(d) PROVE Resting' /\ Undoable' /\ Done'
  <2>1. /\ UNCHANGED <<installed, pc, version, left, here, aside, cut>> /\ ~raced
        /\ pc = "move" => manifest' = manifest
    BY <1>1, DownloadFrame, DownloadEffect DEF Calm, Moving, Quiet
  <2>2. Resting /\ Undoable /\ Done
    BY <2>1 DEF Kept
  <2> QED BY <2>1, <2>2 DEF Resting, Undoable, Done, Whole
<1>2. CASE Install
  <2>1. PICK v \in 1..released :
          installed' = [f \in File |-> IF f \in Ships[v] THEN v ELSE installed[f]]
    BY <1>2 DEF Install
  <2>2. v \in Release /\ Ships[v] \subseteq File
    BY <2>1, Constants DEF Release, TypeOK
  <2>3. Whole(v)'
    BY <2>1, <2>2 DEF Whole
  <2>4. pc' = "down"
    BY <1>2 DEF Install, Killed, Over
  <2> QED BY <2>2, <2>3, <2>4 DEF Resting, Undoable, Done
<1> SUFFICES ASSUME ~\E d \in Download : Downloads(d), ~Install
             PROVE Resting' /\ Undoable' /\ Done'
  BY <1>1, <1>2
<1>3. ~raced /\ ~cut /\ Resting /\ Undoable /\ Done
  <2>1. ~raced
    BY Steps, ProcessEffect
  <2>2. ~cut
    BY Steps DEF Boot, Discard, Restart, ApplyStep, Publish, Stop, RenameFails, Kill, Shutdown,
       Check, RenameBlocked, RolledBack, Commit, Aside, Place, PutBack, GivesUp
  <2> QED BY <2>1, <2>2 DEF Kept
<1>4. ASSUME pc' = "down", UNCHANGED installed, \E v \in Release : Whole(v)
      PROVE  Resting' /\ Undoable' /\ Done'
  BY <1>4 DEF Resting, Undoable, Done, Whole
<1>5. ASSUME pc \notin {"move", "undo"} PROVE \E v \in Release : Whole(v)
  BY <1>3, <1>5 DEF Resting, TypeOK
<1>6. ASSUME pc = "move", left = {} PROVE \E v \in Release : Whole(v)
  BY <1>3, <1>6 DEF Done, Whole, TypeOK, Calm, Moving
<1>7. CASE Boot
  <2>1. PICK v \in Release : Whole(v)
    BY <1>5, <1>7 DEF Boot
  <2>2. version' = v
    BY <1>7, <2>1, Constants DEF Boot, Whole
  <2> QED BY <1>7, <2>1, <2>2 DEF Boot, Resting, Undoable, Done, Whole
<1>8. CASE Discard \/ Restart \/ Stop
  BY <1>3, <1>8 DEF Discard, Restart, Stop, Shutdown, Resting, Undoable, Done, Whole
<1>9. CASE Check
  <2>1. UNCHANGED installed
    BY <1>9 DEF Check
  <2>2. CASE Over
    BY <1>4, <1>5, <1>9, <2>1, <2>2 DEF Check, Over
  <2>3. CASE ~Over
    <3>1. /\ pc' = "move" /\ left' = Ships[manifest] /\ manifest \in Release
          /\ UNCHANGED <<manifest, version, here, aside>> /\ here = {}
          /\ aside = [f \in File |-> None]
      BY <1>9, <2>3 DEF Check, TypeOK, Current, Runs
    <3>2. Whole(version)
      BY <1>3, <1>9 DEF Check, Resting
    <3>3. Ships[version] \subseteq File /\ Ships[manifest] \subseteq File
      BY <3>1, Constants DEF TypeOK
    <3> QED BY <2>1, <3>1, <3>2, <3>3 DEF Resting, Undoable, Done, Whole
  <2> QED BY <2>2, <2>3
<1>10. CASE RenameBlocked \/ RenameFails
  BY <1>3, <1>10 DEF RenameBlocked, RenameFails, GivesUp, Resting, Undoable, Done
<1>11. CASE RolledBack
  <2>1. Whole(version) /\ version \in Release /\ UNCHANGED installed /\ pc' = "down"
    BY <1>3, <1>11, Constants DEF RolledBack, Over, Undoable, Whole, TypeOK
  <2> QED BY <1>4, <2>1
<1>12. CASE Commit
  BY <1>4, <1>6, <1>12 DEF Commit, Over
<1>13. CASE Kill
  <2>1. pc' = "down" /\ UNCHANGED installed
    BY <1>13 DEF Kill, Killed, Over
  <2>2. pc # "undo" /\ (pc = "move" => left = {})
    BY <1>13 DEF Kill
  <2> QED BY <1>4, <1>5, <1>6, <2>1, <2>2
<1>14. ASSUME NEW f \in File, Aside(f) PROVE Resting' /\ Undoable' /\ Done'
  <2>1. /\ pc = "move" /\ pc' = "move" /\ UNCHANGED <<version, manifest, left>>
        /\ here = {} /\ here' = {f} /\ f \in left
        /\ aside' = [aside EXCEPT ![f] = installed[f]]
        /\ installed' = [installed EXCEPT ![f] = None]
        /\ version \in Release /\ aside[f] = None /\ manifest \in Release
    BY <1>3, <1>14 DEF Aside, Done, TypeOK, Calm, Moving
  <2>2. Undoable'
    BY <1>3, <2>1, Constants DEF Undoable, TypeOK
  <2>3. Done'
    BY <1>3, <2>1, Constants DEF Done, TypeOK
  <2> QED BY <2>1, <2>2, <2>3 DEF Resting
<1>15. ASSUME NEW f \in File, Place(f) PROVE Resting' /\ Undoable' /\ Done'
  <2>1. /\ pc = "move" /\ pc' = "move" /\ UNCHANGED <<version, manifest, aside>>
        /\ here' = {} /\ left' = left \ {f} /\ f \in here
        /\ installed' = [installed EXCEPT ![f] = staged[f]]
        /\ version \in Release /\ manifest \in Release /\ staged[f] = manifest
        /\ here = {f}
    BY <1>3, <1>15 DEF Place, TypeOK, Calm, Moving, Marked, Current, One
  <2>2. installed[f] = None
    BY <1>3, <2>1 DEF Done
  <2>3. Undoable'
    BY <1>3, <2>1, <2>2, Constants DEF Undoable, TypeOK
  <2>4. Done'
    BY <1>3, <2>1, Constants DEF Done, TypeOK
  <2> QED BY <2>1, <2>3, <2>4 DEF Resting
<1>16. ASSUME NEW f \in File, PutBack(f) PROVE Resting' /\ Undoable' /\ Done'
  <2>1. /\ pc = "undo" /\ pc' = "undo" /\ UNCHANGED version /\ aside[f] # None
        /\ installed' = [installed EXCEPT ![f] = aside[f]]
        /\ aside' = [aside EXCEPT ![f] = None]
    BY <1>16 DEF PutBack
  <2>2. Undoable'
    BY <1>3, <2>1, Constants DEF Undoable, TypeOK
  <2> QED BY <2>1, <2>2 DEF Resting, Done
<1>17. CASE Publish
  BY <1>3, <1>17 DEF Publish, Resting, Undoable, Done, Whole
<1> QED BY <1>7, <1>8, <1>9, <1>10, <1>11, <1>12, <1>13, <1>14, <1>15, <1>16, <1>17, Steps
        DEF ApplyStep
---------------------------------------------------------------------------
Inv == TypeOK /\ Current /\ Calm /\ Kept

LEMMA InvInit == Init => Inv
<1> SUFFICES ASSUME Init PROVE Inv
  OBVIOUS
<1>1. pc = "up" /\ version = 1 /\ manifest = None /\ aside = [f \in File |-> None] /\ here = {}
  BY DEF Init
<1>2. \A d \in Download : dpc[d] = "none" /\ open[d] = {}
  BY DEF Init
<1>3. Whole(1) /\ installed[Exe] = 1
  BY Constants DEF Init, Whole
<1>4. Current
  BY <1>1, <1>2, <1>3 DEF Current, Fit, Down, Newest, Runs, One, AtRest
<1>5. Calm
  BY <1>1, <1>2 DEF Calm, Alone, Quiet, Brings, Marked, Moving
<1>6. Kept
  BY <1>1, <1>3 DEF Kept, Resting, Undoable, Done, AtRest
<1> QED BY TypeInit, <1>4, <1>5, <1>6 DEF Inv

LEMMA InvStep == Inv /\ [Next]_vars => Inv'
<1> SUFFICES ASSUME Inv, [Next]_vars PROVE Inv'
  OBVIOUS
<1>1. CASE Next
  BY <1>1, TypeStep, CurrentStep, CalmStep, KeptStep DEF Inv
<1>2. CASE UNCHANGED vars
  BY <1>2 DEF vars, staging, apply, downloads, notes, Inv, TypeOK, Current, Fit, Down, Newest,
     Runs, One, AtRest, Calm, Alone, Quiet, Brings, Marked, Moving, Kept, Resting, Undoable,
     Done, Whole
<1> QED BY <1>1, <1>2

LEMMA InvHolds == Spec => []Inv
  BY InvInit, InvStep, PTL DEF Spec

\* Outside an Apply the installed files are those of one release, the program among
\* them, unless a kill cut an Apply short, two downloads overlapped or one staged as
\* the process went down.
THEOREM OneRelease == Spec => []WholeRelease
<1>1. Inv => WholeRelease
  <2> SUFFICES ASSUME Inv, pc \notin {"move", "undo"}, ~cut, ~raced
               PROVE  \E v \in Release : Whole(v) /\ installed[Exe] = v
    BY DEF WholeRelease
  <2>1. PICK v \in Release : Whole(v)
    BY DEF Inv, Kept, Resting, TypeOK
  <2> QED BY <2>1, Constants DEF Whole
<1> QED BY <1>1, InvHolds, PTL

\* No Apply puts a program in the place of a newer one, an installer's included.
THEOREM UpdateNeverDowngrades == Spec => NeverDowngrades
<1>1. Inv /\ [Next]_vars => [Place(Exe) /\ ~raced => ~Newer(installed'[Exe], aside[Exe])]_vars
  <2> SUFFICES ASSUME Inv, Place(Exe), ~raced
               PROVE  ~Newer(installed'[Exe], aside[Exe])
    OBVIOUS
  <2>1. pc = "move" /\ Exe \in here /\ staged[Exe] # None /\ installed'[Exe] = staged[Exe]
    BY Constants DEF Place, Inv, TypeOK
  <2>2. aside[Exe] = version /\ staged[Exe] = manifest /\ Newer(version, manifest)
    BY <2>1, Constants DEF Inv, Current, Runs, Newest, Calm, Marked, Moving, AtRest
  <2>3. version \in Nat /\ manifest \in Nat
    BY Constants DEF Inv, TypeOK, None
  <2> QED BY <2>1, <2>2, <2>3 DEF Newer
<1> QED BY <1>1, InvHolds, PTL DEF Spec, NeverDowngrades
---------------------------------------------------------------------------
(* What an Apply comes to, and what it leaves to be done.                  *)

\* An Apply that ends leaves the release it staged, a newer one, or the one it was to
\* replace, whichever of its renames failed: WholeRelease says only that it is one.
\* (An installer puts its own; a kill between the renames is what cut is about.)
NewOrOld ==
  [][~AtRest /\ AtRest' /\ ~raced /\ ~cut' /\ ~Install =>
       \/ Newer(version, manifest) /\ \A f \in Ships[manifest] : installed'[f] = manifest
       \/ \A f \in Ships[version] : installed'[f] = version]_vars

THEOREM AppliesOrRestores == Spec => NewOrOld
<1>1. Inv /\ Next /\ ~AtRest /\ AtRest' /\ ~raced /\ ~cut' /\ ~Install =>
        \/ Newer(version, manifest) /\ \A f \in Ships[manifest] : installed'[f] = manifest
        \/ \A f \in Ships[version] : installed'[f] = version
  <2> SUFFICES ASSUME Inv, Next, ~AtRest, AtRest', ~raced, ~cut', ~Install
               PROVE  \/ /\ Newer(version, manifest)
                         /\ \A f \in Ships[manifest] : installed'[f] = manifest
                      \/ \A f \in Ships[version] : installed'[f] = version
    OBVIOUS
  <2>1. pc \in {"move", "undo"} /\ pc' \notin {"move", "undo"}
    BY DEF AtRest
  <2>2. Commit \/ RolledBack \/ Kill
    <3>1. ~\E d \in Download : Downloads(d)
      BY <2>1, DownloadFrame
    <3>2. ~(Boot \/ Discard \/ Restart \/ Stop \/ RenameFails \/ Publish \/ Check \/ RenameBlocked)
      BY <2>1 DEF Boot, Discard, Restart, Stop, Shutdown, RenameFails, GivesUp, Publish, Check,
         RenameBlocked
    <3>3. ~\E f \in File : Aside(f) \/ Place(f) \/ PutBack(f)
      BY <2>1 DEF Aside, Place, PutBack
    <3> QED BY <3>1, <3>2, <3>3, Steps DEF ApplyStep
  <2>3. installed' = installed /\ ~cut
    <3>1. CASE Commit \/ RolledBack
      BY <3>1 DEF Commit, RolledBack, notes
    <3>2. CASE Kill
      BY <3>2, <2>1 DEF Kill, Inv, TypeOK
    <3> QED BY <2>2, <3>1, <3>2
  <2>4. CASE pc = "move"
    <3>1. left = {}
      BY <2>1, <2>2, <2>4 DEF Commit, RolledBack, Kill
    <3>2. Newer(version, manifest) /\ \A f \in Ships[manifest] : installed[f] = manifest
      BY <2>3, <2>4, <3>1 DEF Inv, Current, Newest, Calm, Moving, Kept, Done
    <3> QED BY <2>3, <3>2
  <2>5. CASE pc = "undo"
    <3>1. \A f \in File : aside[f] = None
      BY <2>2, <2>3, <2>5 DEF Commit, RolledBack, Kill
    <3>2. version \in Release /\ Ships[version] \subseteq File
      BY Constants DEF Inv, TypeOK
    <3>3. \A f \in Ships[version] : installed[f] = version
      BY <2>3, <2>5, <3>1, <3>2, Constants DEF Inv, Kept, Undoable, AtRest
    <3> QED BY <2>3, <3>3
  <2> QED BY <2>1, <2>4, <2>5
<1> QED BY <1>1, InvHolds, PTL DEF Spec, NewOrOld

\* No leftover stands in the way of an update: what is staged in a server that runs
\* is newer than it and of one release as far as it goes, with no download writing to
\* it, not even one that was asked for over it, and Progress is active only with a
\* goroutine that will end it.  The safety half of UpdatesAtLast.
NothingInTheWay ==
  /\ active => \E d \in Download : dpc[d] # "none"
  /\ pc = "up" /\ ~raced /\ manifest # None =>
       /\ Newer(version, manifest) /\ \A d \in Download : dpc[d] # "write"
       /\ \A f \in File : staged[f] \in {None, manifest}

THEOREM UpdatesCanGoOn == Spec => []NothingInTheWay
<1>1. Inv => NothingInTheWay
  BY DEF Inv, TypeOK, Current, Newest, Calm, Quiet, Marked, NothingInTheWay
<1> QED BY <1>1, InvHolds, PTL
=============================================================================
