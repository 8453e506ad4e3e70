------------------------------ MODULE ServerMode ------------------------------
(***************************************************************************)
(* Moving the library between the service's folder and the person's own.   *)
(* (internal/servermode: switch.go, library.go; the window's half in       *)
(* cmd/lancast.)                                                           *)
(*                                                                         *)
(* One machine, one window. An elevated helper does a switch in steps, any *)
(* of which may fail; it may be killed, and the machine may restart. A     *)
(* library is the version of its content; its other files travel with it.  *)
(***************************************************************************)
EXTENDS Naturals

CONSTANTS
  MaxWrites,  \* bounds the library's versions
  MaxFaults,  \* bounds the steps that fail
  MaxKills,   \* bounds the helper's deaths and restarts of the machine
  Faults      \* what may fail: see FaultKinds

\* A step returns an error; ToApp's Stop gives up on a service that then stops;
\* ToApp sets the service's database aside and not its log.
FaultKinds == {"step", "slow", "tear"}

ASSUME ModeAssumption ==
  /\ MaxWrites \in Nat /\ MaxFaults \in Nat /\ MaxKills \in Nat
  /\ Faults \subseteq FaultKinds

VARIABLES
  db,         \* per folder: the version in lancast.db, or NoDb
  log,        \* per folder: whose lancast.db-wal lies there
  incoming,   \* per folder: the version in lancast.db.incoming, or NoDb
  kept,       \* versions kept under set-aside names
  installed,  \* the service is registered
  automatic,  \* and starts at boot
  service,    \* the service's process
  app,        \* the window's own server runs
  to, at,     \* the switch under way: its direction and step
  newest,     \* the newest version anybody wrote
  faults, kills

vars == <<db, log, incoming, kept, installed, automatic, service, app, to, at, newest, faults, kills>>
files == <<db, log, incoming, kept>>
registration == <<installed, automatic>>
bounds == <<newest, kills>>

Folders == {"service", "user"}
Empty == 0
Stale == 1      \* a library left over from before
First == 2
Versions == Empty..(First + MaxWrites)
NoDb == First + MaxWrites + 1
Partial == NoDb + 1

Steps == {"idle", "elevate", "leftover", "stop", "copy", "copying", "prove", "manual",
          "install", "supersede", "supersedeLog", "name", "start", "answer",
          "automatic", "aside", "asideLog", "remove", "deregister", "undoStop",
          "undoUninstall", "uncommit", "uncommitLog", "restore", "restoreAutomatic",
          "restoreStart"}

TypeOK ==
  /\ db \in [Folders -> Versions \cup {NoDb}]
  /\ log \in [Folders -> {"none", "own", "other"}]
  /\ incoming \in [Folders -> Versions \cup {NoDb, Partial}]
  /\ kept \subseteq Versions
  /\ installed \in BOOLEAN /\ automatic \in BOOLEAN
  /\ service \in {"stopped", "starting", "running", "stopping"}
  /\ app \in BOOLEAN
  /\ to \in {"app", "service"} /\ at \in Steps
  /\ newest \in Versions
  /\ faults \in 0..MaxFaults /\ kills \in 0..MaxKills

\* The machine runs LANcast one way or the other, perhaps over the remains of
\* the other one.
Init ==
  /\ newest = First
  /\ \E old \in {NoDb, Stale} :
       \/ /\ db = [service |-> First, user |-> old]
          /\ log = [service |-> "own", user |-> IF old = Stale THEN "own" ELSE "none"]
          /\ installed = TRUE /\ automatic = TRUE
          /\ service = "running" /\ app = FALSE
       \/ /\ db = [service |-> NoDb, user |-> First]
          /\ log = [service |-> "none", user |-> "own"]
          /\ old = NoDb
          /\ installed = FALSE /\ automatic = FALSE
          /\ service = "stopped" /\ app = TRUE
  /\ incoming = [d \in Folders |-> NoDb]
  /\ kept = {}
  /\ to = "app" /\ at = "idle"
  /\ faults = 0 /\ kills = 0

Serving == service = "running" \/ app
HasLibrary(d) == db[d] # NoDb
Source == IF to = "app" THEN "service" ELSE "user"
Destination == IF to = "app" THEN "user" ELSE "service"
HeldOpen(d) == IF d = "service" THEN service \in {"running", "stopping"} ELSE app

Go(step) == at' = step /\ UNCHANGED <<to, bounds>>
Well == UNCHANGED faults
Fails(kind) == kind \in Faults /\ faults < MaxFaults /\ faults' = faults + 1

-----------------------------------------------------------------------------
(* Servers.                                                                *)

\* A server opens its folder's database, and makes an empty one of none, to
\* which an old log is nothing.
Opens(d) ==
  /\ db' = [db EXCEPT ![d] = IF HasLibrary(d) THEN @ ELSE Empty]
  /\ log' = [log EXCEPT ![d] = IF HasLibrary(d) /\ @ = "other" THEN @ ELSE "own"]
  /\ UNCHANGED <<incoming, kept>>

\* A clean stop may fold the log in.
ServiceStops ==
  /\ service' = "stopped"
  /\ \E left \in {"none", "own"} :
       log' = [log EXCEPT !["service"] = IF @ = "own" THEN left ELSE @]
  /\ UNCHANGED <<db, incoming, kept>>

\* Somebody uses LANcast. A service on trial is not relied on yet.
Write ==
  /\ Serving /\ newest < First + MaxWrites
  /\ at \notin {"answer", "undoStop", "undoUninstall", "uncommit", "uncommitLog"}
  /\ newest' = newest + 1
  /\ db' = [db EXCEPT ![IF app THEN "user" ELSE "service"] = newest + 1]
  /\ UNCHANGED <<log, incoming, kept, registration, service, app, to, at, faults, kills>>

Boot ==
  /\ service = "starting"
  /\ service' = "running" /\ Opens("service")
  /\ UNCHANGED <<registration, app, to, at, newest, faults, kills>>

\* What the window asks for when it finds the service stopped.
StartByHand ==
  /\ at = "idle" /\ installed /\ service = "stopped" /\ HasLibrary("service")
  /\ service' = "running" /\ Opens("service")
  /\ UNCHANGED <<registration, app, to, at, newest, faults, kills>>

StopsLate ==
  /\ service = "stopping" /\ ServiceStops
  /\ UNCHANGED <<registration, app, to, at, newest, faults, kills>>

\* ensureServer: an installed service with a library is waited for; a server
\* this account starts can only write the person's own folder.
EnsureServer ==
  /\ at = "idle" /\ ~Serving /\ ~HasLibrary("service")
  /\ app' = TRUE /\ Opens("user")
  /\ UNCHANGED <<registration, service, to, at, newest, faults, kills>>

\* The helper dies, or the whole machine does.
Kill ==
  /\ at # "idle" /\ kills < MaxKills
  /\ kills' = kills + 1 /\ at' = "idle"
  /\ UNCHANGED <<files, registration, service, app, to, newest, faults>>

Restart ==
  /\ kills < MaxKills
  /\ kills' = kills + 1 /\ at' = "idle"
  /\ app' = FALSE
  /\ service' = IF installed /\ automatic THEN "starting" ELSE "stopped"
  /\ UNCHANGED <<files, registration, to, newest, faults>>

-----------------------------------------------------------------------------
(* The helper's steps.                                                     *)

\* startServerModeSwitch, from the page a server serves; the window's own
\* server is killed before the helper copies.
StartSwitch(way) ==
  /\ at = "idle" /\ Serving
  /\ LET shared == HasLibrary("service")
         mode == IF installed /\ shared THEN "service" ELSE "app"
     IN way # mode \/ (way = "app" /\ installed /\ ~shared)
  /\ to' = way /\ at' = "elevate"
  /\ app' = IF way = "service" THEN FALSE ELSE app
  /\ UNCHANGED <<files, registration, service, newest, faults, kills>>

\* Consent is refused, or ToApp and ToService look at what they find.
Elevate ==
  /\ at = "elevate" /\ Well
  /\ \/ Go("idle")
     \/ /\ to = "app"
        /\ Go(IF HasLibrary("service") THEN "stop" ELSE "leftover")
     \/ /\ to = "service" /\ HasLibrary("user")
        /\ ~(installed /\ HasLibrary("service"))
        /\ Go(IF installed THEN "leftover" ELSE "copy")
  /\ UNCHANGED <<files, registration, service, app>>

Deletes ==
  /\ installed' = FALSE /\ automatic' = FALSE
  /\ service' = IF service = "running" THEN "stopping" ELSE service

MayDelete ==
  \/ Well /\ Deletes
  \/ Fails("step") /\ UNCHANGED <<registration, service>>

MayBeAutomatic ==
  \/ Well /\ automatic' = TRUE
  \/ Fails("step") /\ UNCHANGED automatic

Leftover ==
  /\ at = "leftover"
  /\ \/ Well /\ Deletes /\ Go(IF to = "app" THEN "idle" ELSE "copy")
     \/ Fails("step") /\ Go("idle") /\ UNCHANGED <<registration, service>>
  /\ UNCHANGED <<files, app>>

\* A Stop that fails ends the switch: nothing was done that needs undoing.
Stop ==
  /\ at = "stop"
  /\ \/ Well /\ Go("copy") /\ ServiceStops
     \/ \E late \in BOOLEAN :
          /\ Fails(IF late THEN "slow" ELSE "step") /\ Go("idle")
          /\ service' = IF late THEN "stopping" ELSE service
          /\ UNCHANGED files
  /\ UNCHANGED <<registration, app>>

Incoming(v) ==
  /\ incoming' = [incoming EXCEPT ![Destination] = v]
  /\ UNCHANGED <<db, log, kept>>

\* Before anything is placed a failure clears the copy; ToApp restores besides.
GiveUp ==
  /\ Incoming(NoDb)
  /\ Go(IF to = "app" THEN "restore" ELSE "idle")

\* Mutant: the copy goes on to its proof before it is whole.
CopyHalf ==
  /\ at = "copy"
  /\ \/ Well /\ Incoming(Partial) /\ Go("prove")
     \/ Fails("step") /\ GiveUp
  /\ UNCHANGED <<registration, service, app>>

\* No room, or nothing to copy: what an earlier helper left stays until the next.
Copy ==
  /\ at = "copy"
  /\ \/ Well /\ Incoming(Partial) /\ Go("copying")
     \/ Fails("step") /\ UNCHANGED files /\ Go(IF to = "app" THEN "restore" ELSE "idle")
  /\ UNCHANGED <<registration, service, app>>

\* The copy takes the log along.
Copying ==
  /\ at = "copying"
  /\ \/ Well /\ Incoming(db[Source]) /\ Go("prove")
     \/ Fails("step") /\ GiveUp
  /\ UNCHANGED <<registration, service, app>>

Prove ==
  /\ at = "prove"
  /\ \/ Well /\ Go(IF to = "app" THEN "manual" ELSE "install") /\ UNCHANGED files
     \/ Fails("step") /\ GiveUp
  /\ UNCHANGED <<registration, service, app>>

\* Mutant: the service still starts at boot.
ManualNot ==
  /\ at = "manual" /\ Well /\ Go("supersede")
  /\ UNCHANGED <<files, registration, service, app>>

Manual ==
  /\ at = "manual"
  /\ \/ Well /\ automatic' = FALSE /\ Go("supersede")
     \/ Fails("step") /\ UNCHANGED automatic /\ Go("restore")
  /\ UNCHANGED <<files, installed, service, app>>

Install ==
  /\ at = "install"
  /\ \/ Well /\ installed' = TRUE /\ automatic' = FALSE /\ Go("supersede") /\ UNCHANGED files
     \/ Fails("step") /\ GiveUp /\ UNCHANGED registration
  /\ UNCHANGED <<service, app>>

\* setAside renames a folder's database, then the log beside it. A server that
\* holds the database open keeps its name.
AsideDb(d) ==
  /\ ~HeldOpen(d) \/ ~HasLibrary(d)
  /\ db' = [db EXCEPT ![d] = NoDb]
  /\ kept' = IF HasLibrary(d) THEN kept \cup {db[d]} ELSE kept
  /\ log' = [log EXCEPT ![d] = IF HasLibrary(d) /\ @ = "own" THEN "other" ELSE @]
  /\ UNCHANGED incoming

\* Mutant: the sidecars stay.
AsideLogNot(d) == UNCHANGED files

AsideLog(d) ==
  /\ log' = [log EXCEPT ![d] = "none"]
  /\ UNCHANGED <<db, incoming, kept>>

\* A database renamed whole; one that stays; and one that leaves its log.
SetAside(d, first, second, next, failed) ==
  \/ at = first /\ Well /\ AsideDb(d) /\ Go(second)
  \/ /\ at = first /\ HasLibrary(d)
     /\ IF HeldOpen(d) THEN Well ELSE Fails("step")
     /\ Go(failed) /\ UNCHANGED files
  \/ at = second /\ Well /\ AsideLog(d) /\ Go(next)
  \/ /\ at = second /\ log[d] # "none"
     /\ Fails(IF at = "asideLog" /\ to = "app" THEN "tear" ELSE "step")
     /\ Go(failed) /\ UNCHANGED files

PlaceFailed == IF to = "app" THEN "restore" ELSE "deregister"

\* Mutant: the copy is renamed over what is there.
SupersedeOver ==
  /\ at = "supersede" /\ Well /\ Go("name")
  /\ db' = [db EXCEPT ![Destination] = NoDb]
  /\ UNCHANGED <<log, incoming, kept, registration, service, app>>

\* place: what the folder held is set aside ...
Supersede ==
  /\ SetAside(Destination, "supersede", "supersedeLog", "name", PlaceFailed)
  /\ UNCHANGED <<registration, service, app>>

\* ... and the copy takes the name.
Name ==
  /\ at = "name"
  /\ \/ /\ Well /\ Go(IF to = "app" THEN "aside" ELSE "start")
        /\ db' = [db EXCEPT ![Destination] = incoming[Destination]]
        /\ incoming' = [incoming EXCEPT ![Destination] = NoDb]
        /\ log' = [log EXCEPT ![Destination] = IF @ = "own" THEN "other" ELSE @]
        /\ UNCHANGED kept
     \/ Fails("step") /\ Go(PlaceFailed) /\ UNCHANGED files
  /\ UNCHANGED <<registration, service, app>>

\* ToService: the service must start, and answer.
Start ==
  /\ at = "start"
  /\ \/ Well /\ service' = "running" /\ Opens("service") /\ Go("answer")
     \/ Fails("step") /\ Go("undoStop") /\ UNCHANGED <<files, service>>
  /\ UNCHANGED <<registration, app>>

Answer ==
  /\ at = "answer"
  /\ \/ Well /\ Go("automatic")
     \/ Fails("step") /\ Go("undoStop")
  /\ UNCHANGED <<files, registration, service, app>>

Automatic ==
  /\ at = "automatic" /\ Go("aside")
  /\ MayBeAutomatic
  /\ UNCHANGED <<files, installed, service, app>>

\* The old library is set aside; ToService lives with failing to.
Aside ==
  /\ SetAside(Source, "aside", "asideLog", IF to = "app" THEN "remove" ELSE "idle",
                                            IF to = "app" THEN "uncommit" ELSE "idle")
  /\ UNCHANGED <<registration, service, app>>

Remove ==
  /\ at = "remove" /\ Go("idle")
  /\ MayDelete
  /\ UNCHANGED <<files, app>>

\* ToService could not place: the service goes, then the copy.
Deregister ==
  /\ at = "deregister" /\ GiveUp
  /\ MayDelete
  /\ UNCHANGED app

\* undoService.
UndoStop ==
  /\ at = "undoStop" /\ Go("undoUninstall")
  /\ \/ Well /\ ServiceStops
     \/ Fails("step") /\ UNCHANGED <<files, service>>
     \/ service = "running" /\ Fails("step") /\ service' = "stopping" /\ UNCHANGED files
  /\ UNCHANGED <<registration, app>>

UndoUninstall ==
  /\ at = "undoUninstall" /\ Go("uncommit")
  /\ MayDelete
  /\ UNCHANGED <<files, app>>

\* A placed copy loses its name again.
Uncommit ==
  /\ LET next == IF to = "app" THEN "restore" ELSE "idle"
     IN SetAside(Destination, "uncommit", "uncommitLog", next, next)
  /\ UNCHANGED <<registration, service, app>>

\* ToApp's undoing: the service is put back the way it was found.
Restore ==
  /\ at = "restore" /\ Well /\ Incoming(NoDb) /\ Go("restoreAutomatic")
  /\ UNCHANGED <<registration, service, app>>

RestoreAutomatic ==
  /\ at = "restoreAutomatic" /\ Go("restoreStart")
  /\ MayBeAutomatic
  /\ UNCHANGED <<files, installed, service, app>>

\* Mutant: starting again is left to the next boot.
RestoreStartNot ==
  /\ at = "restoreStart" /\ Go("idle") /\ Well
  /\ UNCHANGED <<files, registration, service, app>>

RestoreStart ==
  /\ at = "restoreStart" /\ Go("idle")
  /\ \/ Well /\ service' = "running" /\ Opens("service")
     \/ Fails("step") /\ UNCHANGED <<files, service>>
  /\ UNCHANGED <<registration, app>>

Helper ==
  \/ Elevate \/ Leftover \/ Stop \/ Copy \/ Copying \/ Prove \/ Manual \/ Install
  \/ Supersede \/ Name \/ Start \/ Answer \/ Automatic \/ Aside \/ Remove
  \/ Deregister \/ UndoStop \/ UndoUninstall \/ Uncommit
  \/ Restore \/ RestoreAutomatic \/ RestoreStart

Next ==
  \/ Helper \/ Write \/ Boot \/ StartByHand \/ StopsLate \/ EnsureServer
  \/ Kill \/ Restart
  \/ \E way \in {"app", "service"} : StartSwitch(way)

Spec == Init /\ [][Next]_vars

\* The helper runs, a service that boots or stops does so, and a window that
\* finds no server sees to one. Nobody has to start a service by hand.
FairSpec ==
  /\ Spec
  /\ WF_vars(Helper) /\ WF_vars(Boot) /\ WF_vars(StopsLate) /\ WF_vars(EnsureServer)

-----------------------------------------------------------------------------
(* Properties.                                                             *)

\* Wherever a switch is, and wherever it dies, what decides which library opens
\* next (the machine-wide lancast.db if there is one, else the person's) finds
\* the newest one: never an empty one, an older one, or none.
Found == IF HasLibrary("service") THEN db["service"] ELSE db["user"]
FoundNewest == Found = newest

\* No database is ever beside the log of another.
NoForeignLog == \A d \in Folders : HasLibrary(d) => log[d] # "other"

\* A library leaves its name only to be kept under another.
NothingOverwritten ==
  [][\A d \in Folders :
       HasLibrary(d) /\ db'[d] # db[d] => db[d] \in kept' \/ db'[d] = newest + 1]_vars

\* Whatever one step of a switch does, it ends with a server answering.
EndsServing == at # "idle" ~> (at = "idle" /\ Serving) \/ faults > 1 \/ kills > 0

\* No server ever opens a folder the library has left: the empty library it
\* would make "reads as everything deleted".
NoEmptyLibrary == \A d \in Folders : db[d] # Empty

=============================================================================
