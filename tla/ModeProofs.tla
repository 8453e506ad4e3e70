------------------------------ MODULE ModeProofs ------------------------------
(***************************************************************************)
(* What a switch of ServerMode may never do to the library, however many   *)
(* steps fail, helpers die, machines restart and versions are written.     *)
(***************************************************************************)
EXTENDS ServerMode, TLAPS

LEMMA Constants ==
  /\ First \in Versions /\ Empty \in Versions /\ Stale \in Versions
  /\ NoDb \notin Versions /\ Partial \notin Versions /\ NoDb # Partial
  /\ Versions \subseteq Nat /\ Empty # First
  /\ 0 \in 0..MaxFaults /\ 0 \in 0..MaxKills
  BY ModeAssumption DEF First, Empty, Stale, Versions, NoDb, Partial

LEMMA NewVersion ==
  ASSUME newest \in Versions, newest < First + MaxWrites
  PROVE  newest + 1 \in Versions /\ newest + 1 # NoDb
  BY ModeAssumption DEF First, Empty, Versions, NoDb

---------------------------------------------------------------------------
Copied == {"prove", "manual", "install", "supersede", "supersedeLog", "name"}
Placing == {"supersedeLog", "name"}
Before == {"elevate", "leftover", "copy", "copying", "prove", "install", "supersede",
           "supersedeLog", "name", "deregister"}
Trial == {"start", "answer", "undoStop", "undoUninstall", "uncommit"}

\* A server that runs, or is about to, has its folder's library.
Servers ==
  /\ app => ~HasLibrary("service") /\ (at = "idle" \/ (to = "app" /\ at \in {"elevate", "leftover"}))
  /\ automatic => HasLibrary("service")
  /\ service \in {"starting", "running"} => installed /\ HasLibrary("service")

\* On its way to be named, the copy is of the newest library, its folder is
\* empty, and no log waits there for it.
CopyReady ==
  /\ at \in Copied => incoming[Destination] = newest
  /\ at \in Placing => ~HasLibrary(Destination)
  /\ at = "name" => log[Destination] = "none"

\* ToApp works on a service that is stopped and still has the library, until the
\* person's folder has it too.
OnlyToApp == {"stop", "manual", "remove", "restore", "restoreAutomatic", "restoreStart"}
OnlyToService == {"install", "start", "answer", "automatic", "deregister", "undoStop",
                  "undoUninstall"}

ToApp ==
  to = "app" /\ at # "idle" =>
    /\ at \notin OnlyToService /\ installed
    /\ at = "leftover" => ~HasLibrary("service")
    /\ at \notin {"elevate", "leftover", "stop"} => service = "stopped"
    /\ at \notin {"elevate", "leftover", "asideLog", "remove"} => HasLibrary("service")
    /\ at \in {"supersede", "supersedeLog", "name", "aside"} => ~automatic
    /\ at \in {"aside", "asideLog", "remove"} => db["user"] = newest

\* ToService works on a folder that has no library, until it is named there; the
\* person's stays as it is until the service has answered.
ToService ==
  to = "service" /\ at # "idle" =>
    /\ at \notin OnlyToApp
    /\ at \in Before =>
         ~HasLibrary("service")
    /\ at \in {"supersede", "supersedeLog", "name", "start"} => installed
    /\ at = "start" => service \in {"stopped", "stopping"}
    /\ at \in Trial =>
         /\ HasLibrary("service") /\ db["user"] = newest
         /\ ~automatic /\ service # "starting"
    /\ at \in {"automatic", "aside"} => HasLibrary("service")
    /\ at = "uncommitLog" => db["user"] = newest

Typed ==
  /\ db \in [Folders -> Versions \cup {NoDb}]
  /\ log \in [Folders -> {"none", "own", "other"}]
  /\ incoming \in [Folders -> Versions \cup {NoDb, Partial}]
  /\ to \in {"app", "service"} /\ newest \in Versions
  /\ service \in {"stopped", "starting", "running", "stopping"}

Inv == Typed /\ Servers /\ CopyReady /\ ToApp /\ ToService /\ FoundNewest /\ NoForeignLog

---------------------------------------------------------------------------
(* Servers, and the machine they run on.                                   *)

LEMMA WriteStep == ASSUME Inv, Write PROVE Inv'
<1> USE Constants DEF Inv, Folders, HasLibrary
<1>1. /\ UNCHANGED <<log, incoming, installed, automatic, service, app, to, at>>
      /\ newest' = newest + 1 /\ newest' \in Versions /\ newest' # NoDb
  BY NewVersion DEF Write, registration, Typed
<1>2. \/ app /\ db' = [db EXCEPT !["user"] = newest']
      \/ ~app /\ service = "running" /\ db' = [db EXCEPT !["service"] = newest']
  BY <1>1 DEF Write, Serving
<1>3. \/ /\ db["service"] = NoDb /\ db'["service"] = NoDb /\ db'["user"] = newest'
         /\ db["user"] # NoDb
      \/ db["service"] # NoDb /\ db'["service"] = newest' /\ db'["user"] = db["user"] /\ installed
  BY <1>2 DEF Servers, FoundNewest, Found, Typed
<1>4. Typed' /\ Servers' /\ FoundNewest' /\ NoForeignLog'
  BY <1>1, <1>2, <1>3 DEF Typed, Servers, FoundNewest, Found, NoForeignLog
<1>5. at \notin Copied
  BY <1>2 DEF Servers, ToApp, ToService, OnlyToApp, Before, Copied, Typed
<1>6. CopyReady'
  BY <1>1, <1>5 DEF CopyReady, Copied, Placing
<1>7. ToApp' /\ ToService'
  BY <1>1, <1>2, <1>3 DEF Write, ToApp, ToService, Trial, Typed
<1> QED BY <1>4, <1>6, <1>7

LEMMA BootStep == ASSUME Inv, Boot PROVE Inv'
<1> USE Constants
    DEF Inv, Folders, Boot, Opens, Go, Well, Fails, files, registration, bounds
<1>1. Typed'
  BY DEF Typed
<1>2. Servers'
  BY DEF Typed, Servers, HasLibrary
<1>3. CopyReady'
  BY DEF Typed, CopyReady, Placing, HasLibrary, Destination, Servers
<1>4. ToApp'
  BY DEF Typed, ToApp, Servers, HasLibrary
<1>5. ToService'
  BY DEF Typed, ToService, Servers, HasLibrary
<1>6. FoundNewest'
  BY DEF Typed, FoundNewest, Found, HasLibrary, Servers
<1>7. NoForeignLog'
  BY DEF Typed, NoForeignLog, HasLibrary
<1> QED BY <1>1, <1>2, <1>3, <1>4, <1>5, <1>6, <1>7 DEF Inv

LEMMA StartByHandStep == ASSUME Inv, StartByHand PROVE Inv'
<1> USE Constants
    DEF Inv, Folders, StartByHand, Opens, Go, Well, Fails, files, registration, bounds
<1>1. Typed'
  BY DEF Typed
<1>2. Servers'
  BY DEF Servers, HasLibrary
<1>3. CopyReady'
  BY DEF CopyReady, HasLibrary, Destination
<1>4. ToApp'
  BY DEF ToApp
<1>5. ToService'
  BY DEF ToService
<1>6. FoundNewest'
  BY DEF FoundNewest, Found, HasLibrary
<1>7. NoForeignLog'
  BY DEF NoForeignLog, HasLibrary
<1> QED BY <1>1, <1>2, <1>3, <1>4, <1>5, <1>6, <1>7 DEF Inv

LEMMA StopsLateStep == ASSUME Inv, StopsLate PROVE Inv'
<1> USE Constants
    DEF Inv, Folders, StopsLate, ServiceStops, Go, Well, Fails, files, registration, bounds
<1>1. Typed'
  BY DEF Typed
<1>2. Servers'
  BY DEF Servers, HasLibrary
<1>3. CopyReady'
  BY DEF Typed, CopyReady, HasLibrary, Destination
<1>4. ToApp'
  BY DEF ToApp, HasLibrary
<1>5. ToService'
  BY DEF ToService, HasLibrary
<1>6. FoundNewest'
  BY DEF FoundNewest, Found, HasLibrary
<1>7. NoForeignLog'
  BY DEF Typed, NoForeignLog, HasLibrary
<1> QED BY <1>1, <1>2, <1>3, <1>4, <1>5, <1>6, <1>7 DEF Inv

LEMMA EnsureServerStep == ASSUME Inv, EnsureServer PROVE Inv'
<1> USE Constants
    DEF Inv, Folders, EnsureServer, Serving, Opens, Go, Well, Fails, files, registration,
        bounds
<1>1. Typed'
  BY DEF Typed
<1>2. Servers'
  BY DEF Servers, HasLibrary
<1>3. CopyReady'
  BY DEF CopyReady, Placing, Destination
<1>4. ToApp'
  BY DEF ToApp
<1>5. ToService'
  BY DEF ToService
<1>6. FoundNewest'
  BY DEF Typed, FoundNewest, Found, HasLibrary
<1>7. NoForeignLog'
  BY DEF Typed, NoForeignLog, HasLibrary
<1> QED BY <1>1, <1>2, <1>3, <1>4, <1>5, <1>6, <1>7 DEF Inv

LEMMA KillStep == ASSUME Inv, Kill PROVE Inv'
<1> USE Constants DEF Inv, Folders, Kill, Go, Well, Fails, files, registration, bounds
<1>1. Typed'
  BY DEF Typed
<1>2. Servers'
  BY DEF Servers, HasLibrary
<1>3. CopyReady'
  BY DEF CopyReady, Copied, Placing
<1>4. ToApp'
  BY DEF ToApp
<1>5. ToService'
  BY DEF ToService
<1>6. FoundNewest'
  BY DEF FoundNewest, Found, HasLibrary
<1>7. NoForeignLog'
  BY DEF NoForeignLog, HasLibrary
<1> QED BY <1>1, <1>2, <1>3, <1>4, <1>5, <1>6, <1>7 DEF Inv

LEMMA RestartStep == ASSUME Inv, Restart PROVE Inv'
<1> USE Constants DEF Inv, Folders, Restart, Go, Well, Fails, files, registration, bounds
<1>1. Typed'
  BY DEF Typed
<1>2. Servers'
  BY DEF Servers, HasLibrary
<1>3. CopyReady'
  BY DEF CopyReady, Copied, Placing
<1>4. ToApp'
  BY DEF ToApp
<1>5. ToService'
  BY DEF ToService
<1>6. FoundNewest'
  BY DEF FoundNewest, Found, HasLibrary
<1>7. NoForeignLog'
  BY DEF NoForeignLog, HasLibrary
<1> QED BY <1>1, <1>2, <1>3, <1>4, <1>5, <1>6, <1>7 DEF Inv

LEMMA StartSwitchStep == ASSUME Inv, \E way \in {"app", "service"} : StartSwitch(way) PROVE Inv'
<1> USE Constants
    DEF Inv, Folders, StartSwitch, Serving, Go, Well, Fails, files, registration, bounds
<1>1. Typed'
  BY DEF Typed
<1>2. Servers'
  BY DEF Servers, HasLibrary
<1>3. CopyReady'
  BY DEF CopyReady, Copied, Placing
<1>4. ToApp'
  BY DEF ToApp, OnlyToService
<1>5. ToService'
  BY DEF ToService, OnlyToApp, Trial, Servers, HasLibrary
<1>6. FoundNewest'
  BY DEF FoundNewest, Found, HasLibrary
<1>7. NoForeignLog'
  BY DEF NoForeignLog, HasLibrary
<1> QED BY <1>1, <1>2, <1>3, <1>4, <1>5, <1>6, <1>7 DEF Inv

---------------------------------------------------------------------------
(* The helper's steps.                                                     *)

LEMMA ElevateStep == ASSUME Inv, Elevate PROVE Inv'
<1> USE Constants DEF Inv, Folders, Elevate, Go, Well, Fails, files, registration, bounds
<1>1. Typed'
  BY DEF Typed
<1>2. Servers'
  BY DEF Servers, HasLibrary
<1>3. CopyReady'
  BY DEF CopyReady, Copied, Placing
<1>4. ToApp'
  BY DEF ToApp, OnlyToService, HasLibrary
<1>5. ToService'
  BY DEF ToService, OnlyToApp, Before, Trial, HasLibrary
<1>6. FoundNewest'
  BY DEF FoundNewest, Found, HasLibrary
<1>7. NoForeignLog'
  BY DEF NoForeignLog, HasLibrary
<1> QED BY <1>1, <1>2, <1>3, <1>4, <1>5, <1>6, <1>7 DEF Inv

LEMMA LeftoverStep == ASSUME Inv, Leftover PROVE Inv'
<1> USE Constants
    DEF Inv, Folders, Leftover, Deletes, Go, Well, Fails, files, registration, bounds
<1>1. Typed'
  BY DEF Typed
<1>2. Servers'
  BY DEF Typed, Servers, HasLibrary, ToApp, ToService, Before
<1>3. CopyReady'
  BY DEF CopyReady, Copied, Placing
<1>4. ToApp'
  BY DEF ToApp
<1>5. ToService'
  BY DEF ToService, OnlyToApp, Before, Trial, HasLibrary
<1>6. FoundNewest'
  BY DEF FoundNewest, Found, HasLibrary
<1>7. NoForeignLog'
  BY DEF NoForeignLog, HasLibrary
<1> QED BY <1>1, <1>2, <1>3, <1>4, <1>5, <1>6, <1>7 DEF Inv

LEMMA StopStep == ASSUME Inv, Stop PROVE Inv'
<1> USE Constants
    DEF Inv, Folders, Stop, ServiceStops, Go, Well, Fails, files, registration, bounds
<1>1. Typed'
  BY DEF Typed
<1>2. Servers'
  BY DEF Servers, HasLibrary
<1>3. CopyReady'
  BY DEF CopyReady, Copied, Placing
<1>4. ToApp'
  BY DEF ToApp, OnlyToService, HasLibrary
<1>5. ToService'
  BY DEF ToService, OnlyToApp
<1>6. FoundNewest'
  BY DEF FoundNewest, Found, HasLibrary
<1>7. NoForeignLog'
  BY DEF Typed, NoForeignLog, HasLibrary
<1> QED BY <1>1, <1>2, <1>3, <1>4, <1>5, <1>6, <1>7 DEF Inv

LEMMA CopyStep == ASSUME Inv, Copy PROVE Inv'
<1> USE Constants DEF Inv, Folders, registration, files, Destination, HasLibrary, Copied
<1>1. /\ at = "copy" /\ UNCHANGED <<installed, automatic, service, app, db, log, to, newest>>
      /\ \/ at' = "copying"
         \/ at' = IF to = "app" THEN "restore" ELSE "idle"
      /\ incoming' \in [Folders -> Versions \cup {NoDb, Partial}]
  BY DEF Copy, Incoming, Go, bounds, Typed
<1>2. Typed' /\ CopyReady'
  BY <1>1 DEF Typed, CopyReady, Placing
<1>3. Servers' /\ FoundNewest' /\ NoForeignLog'
  BY <1>1 DEF Servers, FoundNewest, Found, NoForeignLog
<1>4. ToApp'
  BY <1>1 DEF ToApp, OnlyToService
<1>5. ToService'
  <2> SUFFICES ASSUME to = "service", at' = "copying" PROVE ToService'
    BY <1>1 DEF ToService
  <2>1. db["service"] = NoDb /\ db' = db /\ to' = "service"
    BY <1>1 DEF ToService, Before
  <2> QED BY <2>1 DEF ToService, OnlyToApp, Trial
<1> QED BY <1>2, <1>3, <1>4, <1>5

LEMMA CopyingStep == ASSUME Inv, Copying PROVE Inv'
<1> USE Constants DEF Inv, Folders, registration, Source, Destination, HasLibrary, Copied
<1>1. /\ at = "copying" /\ UNCHANGED <<installed, automatic, service, app, db, log, to, newest>>
      /\ \/ at' = "prove" /\ incoming' = [incoming EXCEPT ![Destination] = db[Source]]
         \/ /\ at' = IF to = "app" THEN "restore" ELSE "idle"
            /\ incoming' = [incoming EXCEPT ![Destination] = NoDb]
  BY DEF Copying, Incoming, GiveUp, Go, bounds
<1>2. Typed'
  BY <1>1 DEF Typed
<1>3. db[Source] = newest
  BY <1>1 DEF Typed, ToApp, ToService, Before, FoundNewest, Found
<1>4. CopyReady'
  BY <1>1, <1>3 DEF CopyReady, Placing, Typed
<1>5. Servers' /\ FoundNewest' /\ NoForeignLog'
  BY <1>1 DEF Servers, FoundNewest, Found, NoForeignLog
<1>6. ToApp'
  BY <1>1 DEF ToApp, OnlyToService
<1>7. ToService'
  <2> SUFFICES ASSUME to = "service", at' = "prove" PROVE ToService'
    BY <1>1 DEF ToService
  <2>1. db["service"] = NoDb /\ db' = db /\ to' = "service"
    BY <1>1 DEF ToService, Before
  <2> QED BY <2>1 DEF ToService, OnlyToApp, Trial
<1> QED BY <1>2, <1>4, <1>5, <1>6, <1>7

LEMMA ProveStep == ASSUME Inv, Prove PROVE Inv'
<1> USE Constants DEF Inv, Folders, registration, files, Destination, HasLibrary, Copied
<1>1. /\ at = "prove" /\ UNCHANGED <<installed, automatic, service, app, db, log, to, newest>>
      /\ \/ at' = (IF to = "app" THEN "manual" ELSE "install") /\ incoming' = incoming
         \/ /\ at' = IF to = "app" THEN "restore" ELSE "idle"
            /\ incoming' = [incoming EXCEPT ![Destination] = NoDb]
  BY DEF Prove, Incoming, GiveUp, Go, bounds
<1>2. Typed' /\ CopyReady'
  BY <1>1 DEF Typed, CopyReady, Placing
<1>3. Servers' /\ FoundNewest' /\ NoForeignLog'
  BY <1>1 DEF Servers, FoundNewest, Found, NoForeignLog
<1>4. ToApp'
  BY <1>1 DEF ToApp, OnlyToService
<1>5. ToService'
  <2> SUFFICES ASSUME to = "service", at' = "install" PROVE ToService'
    BY <1>1 DEF ToService
  <2>1. db["service"] = NoDb /\ db' = db /\ to' = "service"
    BY <1>1 DEF ToService, Before
  <2> QED BY <2>1 DEF ToService, OnlyToApp, Trial
<1> QED BY <1>2, <1>3, <1>4, <1>5

LEMMA ManualStep == ASSUME Inv, Manual PROVE Inv'
<1> USE Constants DEF Inv, Folders, Manual, Go, Well, Fails, files, registration, bounds
<1>1. Typed'
  BY DEF Typed
<1>2. Servers'
  BY DEF Servers, HasLibrary
<1>3. CopyReady'
  BY DEF CopyReady, Copied, Placing, Destination
<1>4. ToApp'
  BY DEF ToApp, OnlyToService, HasLibrary
<1>5. ToService'
  BY DEF ToService, OnlyToApp
<1>6. FoundNewest'
  BY DEF FoundNewest, Found, HasLibrary
<1>7. NoForeignLog'
  BY DEF NoForeignLog, HasLibrary
<1> QED BY <1>1, <1>2, <1>3, <1>4, <1>5, <1>6, <1>7 DEF Inv

LEMMA InstallStep == ASSUME Inv, Install PROVE Inv'
<1> USE Constants DEF Inv, Folders, registration, files, Destination, HasLibrary, Copied
<1>1. to = "service" /\ db["service"] = NoDb /\ at = "install" /\ ~automatic /\ ~app
  BY DEF Install, Typed, ToApp, OnlyToService, ToService, Before, Servers
<1>2. /\ UNCHANGED <<service, app, db, log, to, newest>>
      /\ \/ at' = "supersede" /\ installed' /\ ~automatic' /\ incoming' = incoming
         \/ /\ at' = "idle" /\ UNCHANGED <<installed, automatic>>
            /\ incoming' = [incoming EXCEPT ![Destination] = NoDb]
  BY <1>1 DEF Install, Incoming, GiveUp, Go, bounds
<1>3. Typed' /\ CopyReady'
  BY <1>1, <1>2 DEF Typed, CopyReady
<1>4. Servers' /\ FoundNewest' /\ NoForeignLog' /\ ToApp'
  BY <1>1, <1>2 DEF Servers, FoundNewest, Found, NoForeignLog, ToApp
<1>5. ToService'
  BY <1>1, <1>2 DEF ToService, OnlyToApp, Trial
<1> QED BY <1>3, <1>4, <1>5

LEMMA SupersedeStep == ASSUME Inv, Supersede PROVE Inv'
<1> USE Constants DEF Inv, Folders, registration, Destination, Copied, HasLibrary
<1>1. UNCHANGED <<installed, automatic, service, app>>
  BY DEF Supersede
<1>2. CASE to = "app"
  <2>1. /\ Typed' /\ UNCHANGED <<incoming, to, newest>> /\ db'["service"] = db["service"]
        /\ log'["service"] = log["service"]
        /\ \/ at = "supersede" /\ at' = "supersedeLog" /\ db'["user"] = NoDb
           \/ at = "supersede" /\ at' = "restore" /\ UNCHANGED <<db, log>>
           \/ at = "supersedeLog" /\ at' = "name" /\ UNCHANGED db /\ log'["user"] = "none"
           \/ at = "supersedeLog" /\ at' = "restore" /\ UNCHANGED <<db, log>>
    BY <1>1, <1>2
      DEF Supersede, PlaceFailed, SetAside, AsideDb, AsideLog, Go, files, bounds, Typed
  <2>2. /\ service = "stopped" /\ ~automatic /\ ~app /\ installed
        /\ db["service"] # NoDb
    BY <1>2, <2>1 DEF ToApp, Servers
  <2>3. db["service"] = newest
    BY <2>2 DEF FoundNewest, Found
  <2>4. Servers'
    BY <1>1, <2>1, <2>2 DEF Servers
  <2>5. CopyReady'
    BY <1>2, <2>1 DEF CopyReady, Placing
  <2>6. ToApp' /\ ToService'
    BY <1>1, <1>2, <2>1, <2>2 DEF ToApp, ToService, OnlyToService
  <2>7. FoundNewest' /\ NoForeignLog'
    BY <2>1, <2>2, <2>3 DEF FoundNewest, Found, NoForeignLog
  <2> QED BY <2>1, <2>4, <2>5, <2>6, <2>7
<1>3. CASE to = "service"
  <2>1. /\ Typed' /\ UNCHANGED <<incoming, to, newest>> /\ db'["user"] = db["user"]
        /\ log'["user"] = log["user"]
        /\ \/ at = "supersede" /\ at' = "supersedeLog" /\ db'["service"] = NoDb
           \/ at = "supersedeLog" /\ at' = "name" /\ UNCHANGED db /\ log'["service"] = "none"
           \/ at \in {"supersede", "supersedeLog"} /\ at' = "deregister" /\ UNCHANGED <<db, log>>
    BY <1>1, <1>3
      DEF Supersede, PlaceFailed, SetAside, AsideDb, AsideLog, Go, files, bounds, Typed
  <2>2. db["service"] = NoDb /\ ~app /\ ~automatic /\ installed
    BY <1>3, <2>1 DEF ToService, Before, Servers
  <2>3. db["user"] = newest /\ db'["service"] = NoDb
    BY <2>1, <2>2 DEF FoundNewest, Found
  <2>4. Servers'
    BY <1>1, <2>1, <2>2, <2>3 DEF Servers
  <2>5. CopyReady'
    BY <1>3, <2>1, <2>3 DEF CopyReady, Placing
  <2>6. ToApp' /\ ToService'
    BY <1>1, <1>3, <2>1, <2>2, <2>3 DEF ToApp, ToService, OnlyToApp, Trial
  <2>7. FoundNewest' /\ NoForeignLog'
    BY <2>1, <2>3 DEF FoundNewest, Found, NoForeignLog
  <2> QED BY <2>1, <2>4, <2>5, <2>6, <2>7
<1> QED BY <1>2, <1>3 DEF Typed

LEMMA NameStep == ASSUME Inv, Name PROVE Inv'
<1> USE Constants DEF Inv, Folders, registration, Destination, HasLibrary, Go, bounds, files
<1>1. /\ at = "name" /\ UNCHANGED <<installed, automatic, service, app, to, newest>>
  BY DEF Name
<1>2. ASSUME NEW d \in Folders, Destination = d,
             db' = [db EXCEPT ![d] = incoming[d]], incoming' = [incoming EXCEPT ![d] = NoDb],
             log' = [log EXCEPT ![d] = IF @ = "own" THEN "other" ELSE @],
             at' = IF to = "app" THEN "aside" ELSE "start"
      PROVE  Inv'
  <2>1. incoming[d] = newest /\ log[d] = "none" /\ db[d] = NoDb
    BY <1>1, <1>2 DEF CopyReady, Copied, Placing
  <2>2. /\ db'[d] = newest /\ log'[d] = "none"
        /\ \A e \in Folders \ {d} : db'[e] = db[e] /\ log'[e] = log[e]
    BY <1>2, <2>1 DEF Typed
  <2>3. Typed'
    BY <1>1, <1>2, <2>1 DEF Typed
  <2>4. newest # NoDb /\ newest \in Versions
    BY DEF Typed
  <2>5. NoForeignLog'
    BY <2>2 DEF NoForeignLog
  <2>6. CopyReady'
    BY <1>2 DEF CopyReady, Copied, Placing
  <2>7. CASE to = "app"
    <3>1. d = "user" /\ at' = "aside" /\ to' = "app" /\ db'["service"] = db["service"]
      BY <1>1, <1>2, <2>2, <2>7
    <3>2. service = "stopped" /\ ~automatic /\ ~app /\ installed /\ db["service"] # NoDb
      BY <1>1, <2>7 DEF ToApp, Servers
    <3>3. Servers' /\ ToService'
      BY <1>1, <3>1, <3>2 DEF Servers, ToService
    <3>4. ToApp'
      BY <1>1, <2>2, <3>1, <3>2 DEF ToApp, OnlyToService
    <3>5. FoundNewest'
      BY <1>1, <3>1, <3>2 DEF FoundNewest, Found
    <3> QED BY <2>3, <2>5, <2>6, <3>3, <3>4, <3>5
  <2>8. CASE to = "service"
    <3>1. d = "service" /\ at' = "start" /\ to' = "service" /\ db'["user"] = db["user"]
      BY <1>1, <1>2, <2>2, <2>8
    <3>2. ~automatic /\ ~app /\ installed /\ service \notin {"starting", "running"}
      BY <1>1, <2>1, <2>8, <3>1 DEF ToService, Servers
    <3>3. db["user"] = newest
      BY <2>1, <3>1 DEF FoundNewest, Found
    <3>4. Servers' /\ ToApp'
      BY <1>1, <3>1, <3>2 DEF Servers, ToApp
    <3>5. service \in {"stopped", "stopping"}
      BY <3>2 DEF Typed
    <3>6. ToService'
      BY <1>1, <2>2, <2>4, <3>1, <3>2, <3>3, <3>5 DEF ToService, OnlyToApp, Before
    <3>7. FoundNewest'
      BY <1>1, <2>2, <2>4, <3>1 DEF FoundNewest, Found
    <3> QED BY <2>3, <2>5, <2>6, <3>4, <3>6, <3>7
  <2> QED BY <2>7, <2>8 DEF Typed
<1>3. CASE UNCHANGED files /\ at' = IF to = "app" THEN "restore" ELSE "deregister"
  <2>1. CASE to = "app"
    BY <1>1, <1>3, <2>1
      DEF Typed, Servers, CopyReady, Copied, Placing, ToApp, ToService, OnlyToService,
          FoundNewest, Found, NoForeignLog
  <2>2. CASE to = "service"
    BY <1>1, <1>3, <2>2
      DEF Typed, Servers, CopyReady, Copied, ToApp, ToService, OnlyToApp, Before, Trial,
          FoundNewest, Found, NoForeignLog
  <2> QED BY <2>1, <2>2 DEF Typed
<1> QED BY <1>2, <1>3 DEF Name, PlaceFailed

LEMMA StartStep == ASSUME Inv, Start PROVE Inv'
<1> USE Constants DEF Inv, Folders, HasLibrary
<1>1. /\ at = "start" /\ to = "service" /\ installed /\ db["service"] # NoDb /\ ~app
      /\ db["user"] = newest /\ ~automatic
  BY DEF Start, Typed, ToApp, ToService, OnlyToService, Trial, Servers
<1>2. UNCHANGED <<installed, automatic, app, to, newest>>
  BY DEF Start, registration, Go, bounds
<1>3. /\ incoming' = incoming /\ db' = db /\ log' \in [Folders -> {"none", "own", "other"}]
      /\ log'["user"] = log["user"] /\ (log["service"] # "other" => log'["service"] # "other")
      /\ \/ at' = "answer" /\ service' = "running"
         \/ at' = "undoStop" /\ service' = service
  BY <1>1 DEF Start, Opens, Go, files, Typed
<1>4. Typed' /\ Servers'
  BY <1>1, <1>2, <1>3 DEF Typed, Servers
<1>5. CopyReady' /\ ToApp'
  BY <1>1, <1>2, <1>3 DEF CopyReady, Copied, Placing, ToApp
<1>6. ToService'
  BY <1>1, <1>2, <1>3 DEF ToService, OnlyToApp, Before
<1>7. FoundNewest' /\ NoForeignLog'
  BY <1>1, <1>2, <1>3 DEF FoundNewest, Found, NoForeignLog
<1> QED BY <1>4, <1>5, <1>6, <1>7

LEMMA AnswerStep == ASSUME Inv, Answer PROVE Inv'
<1> USE Constants DEF Inv, Folders, Answer, Go, Well, Fails, files, registration, bounds
<1>1. Typed'
  BY DEF Typed
<1>2. Servers'
  BY DEF Servers, HasLibrary
<1>3. CopyReady'
  BY DEF CopyReady, Copied, Placing
<1>4. ToApp'
  BY DEF ToApp, OnlyToService
<1>5. ToService'
  BY DEF ToService, OnlyToApp, Before, Trial, HasLibrary
<1>6. FoundNewest'
  BY DEF FoundNewest, Found, HasLibrary
<1>7. NoForeignLog'
  BY DEF NoForeignLog, HasLibrary
<1> QED BY <1>1, <1>2, <1>3, <1>4, <1>5, <1>6, <1>7 DEF Inv

LEMMA AutomaticStep == ASSUME Inv, Automatic PROVE Inv'
<1> USE Constants
    DEF Inv, Folders, Automatic, MayBeAutomatic, Go, Well, Fails, files, registration,
        bounds
<1>1. Typed'
  BY DEF Typed
<1>2. Servers'
  BY DEF Typed, Servers, HasLibrary, ToApp, ToService
<1>3. CopyReady'
  BY DEF CopyReady, Copied, Placing
<1>4. ToApp'
  BY DEF ToApp, OnlyToService
<1>5. ToService'
  BY DEF ToService, OnlyToApp, Before, Trial, HasLibrary
<1>6. FoundNewest'
  BY DEF FoundNewest, Found, HasLibrary
<1>7. NoForeignLog'
  BY DEF NoForeignLog, HasLibrary
<1> QED BY <1>1, <1>2, <1>3, <1>4, <1>5, <1>6, <1>7 DEF Inv

LEMMA AsideStep == ASSUME Inv, Aside, "tear" \notin Faults PROVE Inv'
<1> USE Constants DEF Inv, Folders, registration, Source, HasLibrary
<1>1. UNCHANGED <<installed, automatic, service, app>>
  BY DEF Aside
<1>2. CASE to = "app"
  <2>0. SetAside("service", "aside", "asideLog", "remove", "uncommit")
    BY <1>2 DEF Aside
  <2>1. /\ Typed' /\ UNCHANGED <<incoming, to, newest>> /\ db'["user"] = db["user"]
        /\ log'["user"] = log["user"]
        /\ \/ at = "aside" /\ at' = "asideLog" /\ db'["service"] = NoDb
           \/ at = "aside" /\ at' = "uncommit" /\ UNCHANGED <<db, log>>
           \/ at = "asideLog" /\ at' = "remove" /\ UNCHANGED db /\ log'["service"] = "none"
    BY <1>1, <1>2, <2>0 DEF SetAside, AsideDb, AsideLog, Fails, Go, files, bounds, Typed
  <2>2. /\ service = "stopped" /\ ~app /\ installed /\ db["user"] = newest
        /\ (at = "aside" => db["service"] # NoDb /\ ~automatic)
    BY <1>2, <2>1 DEF ToApp, Servers
  <2>3. automatic => db["service"] # NoDb
    BY DEF Servers
  <2>4. Servers'
    BY <1>1, <2>1, <2>2, <2>3 DEF Servers
  <2>5. CopyReady'
    BY <2>1 DEF CopyReady, Placing, Copied
  <2>6. ToApp' /\ ToService'
    BY <1>1, <1>2, <2>1, <2>2 DEF ToApp, ToService, OnlyToService
  <2>7. FoundNewest' /\ NoForeignLog'
    BY <2>1, <2>2 DEF FoundNewest, Found, NoForeignLog
  <2> QED BY <2>1, <2>4, <2>5, <2>6, <2>7
<1>3. CASE to = "service"
  <2>0. SetAside("user", "aside", "asideLog", "idle", "idle")
    BY <1>3 DEF Aside
  <2>1. /\ Typed' /\ UNCHANGED <<incoming, to, newest>> /\ db'["service"] = db["service"]
        /\ log'["service"] = log["service"]
        /\ \/ at = "aside" /\ at' = "asideLog" /\ db'["user"] = NoDb
           \/ at = "aside" /\ at' = "idle" /\ UNCHANGED <<db, log>>
           \/ at = "asideLog" /\ at' = "idle" /\ UNCHANGED db /\ log'["user"] = "none"
           \/ at = "asideLog" /\ at' = "idle" /\ UNCHANGED <<db, log>>
    BY <1>1, <1>3, <2>0 DEF SetAside, AsideDb, AsideLog, Go, files, bounds, Typed
  <2>2. ~app /\ (at = "aside" => db["service"] # NoDb)
    BY <1>3, <2>1 DEF ToService, Servers
  <2>3. Servers'
    BY <1>1, <2>1, <2>2 DEF Servers
  <2>4. CopyReady' /\ ToApp'
    BY <1>3, <2>1 DEF CopyReady, Placing, Copied, ToApp
  <2>5. ToService'
    BY <2>1 DEF ToService, OnlyToApp, Before, Trial
  <2>6. FoundNewest'
    BY <2>1, <2>2 DEF FoundNewest, Found
  <2>7. NoForeignLog'
    BY <2>1 DEF NoForeignLog
  <2> QED BY <2>1, <2>3, <2>4, <2>5, <2>6, <2>7
<1> QED BY <1>2, <1>3 DEF Typed

LEMMA RemoveStep == ASSUME Inv, Remove PROVE Inv'
<1> USE Constants
    DEF Inv, Folders, Remove, MayDelete, Deletes, Go, Well, Fails, files, registration,
        bounds
<1>1. Typed'
  BY DEF Typed
<1>2. Servers'
  BY DEF Typed, Servers, HasLibrary, ToApp, ToService, OnlyToApp
<1>3. CopyReady'
  BY DEF CopyReady, Copied, Placing
<1>4. ToApp'
  BY DEF ToApp
<1>5. ToService'
  BY DEF ToService
<1>6. FoundNewest'
  BY DEF FoundNewest, Found, HasLibrary
<1>7. NoForeignLog'
  BY DEF NoForeignLog, HasLibrary
<1> QED BY <1>1, <1>2, <1>3, <1>4, <1>5, <1>6, <1>7 DEF Inv

LEMMA DeregisterStep == ASSUME Inv, Deregister PROVE Inv'
<1> USE Constants
    DEF Inv, Folders, Deregister, MayDelete, Deletes, GiveUp, Incoming, Go, Well, Fails,
        files, registration, bounds
<1>1. Typed'
  BY DEF Typed
<1>2. Servers'
  BY DEF Typed, Servers, ToApp, ToService, OnlyToService, Before
<1>3. CopyReady'
  BY DEF CopyReady, Copied, Placing
<1>4. ToApp'
  BY DEF ToApp, OnlyToService
<1>5. ToService'
  BY DEF ToService
<1>6. FoundNewest'
  BY DEF FoundNewest, Found, HasLibrary
<1>7. NoForeignLog'
  BY DEF NoForeignLog, HasLibrary
<1> QED BY <1>1, <1>2, <1>3, <1>4, <1>5, <1>6, <1>7 DEF Inv

LEMMA UndoStopStep == ASSUME Inv, UndoStop PROVE Inv'
<1> USE Constants
    DEF Inv, Folders, UndoStop, ServiceStops, Go, Well, Fails, files, registration, bounds
<1>1. Typed'
  BY DEF Typed
<1>2. Servers'
  BY DEF Servers, HasLibrary
<1>3. CopyReady'
  BY DEF CopyReady, Copied, Placing
<1>4. ToApp'
  BY DEF ToApp, OnlyToService
<1>5. ToService'
  BY DEF Typed, ToService, OnlyToApp, Before, Trial, HasLibrary
<1>6. FoundNewest'
  BY DEF FoundNewest, Found, HasLibrary
<1>7. NoForeignLog'
  BY DEF Typed, NoForeignLog, HasLibrary, ToApp
<1> QED BY <1>1, <1>2, <1>3, <1>4, <1>5, <1>6, <1>7 DEF Inv

LEMMA UndoUninstallStep == ASSUME Inv, UndoUninstall PROVE Inv'
<1> USE Constants
    DEF Inv, Folders, UndoUninstall, MayDelete, Deletes, Go, Well, Fails, files,
        registration, bounds
<1>1. Typed'
  BY DEF Typed
<1>2. Servers'
  BY DEF Typed, Servers, HasLibrary, ToApp, ToService, Trial
<1>3. CopyReady'
  BY DEF CopyReady, Copied, Placing
<1>4. ToApp'
  BY DEF ToApp, OnlyToService
<1>5. ToService'
  BY DEF ToService, OnlyToApp, Before, Trial, HasLibrary
<1>6. FoundNewest'
  BY DEF FoundNewest, Found, HasLibrary
<1>7. NoForeignLog'
  BY DEF NoForeignLog, HasLibrary
<1> QED BY <1>1, <1>2, <1>3, <1>4, <1>5, <1>6, <1>7 DEF Inv

LEMMA UncommitStep == ASSUME Inv, Uncommit PROVE Inv'
<1> USE Constants DEF Inv, Folders, registration, Destination, HasLibrary
<1>1. UNCHANGED <<installed, automatic, service, app>>
  BY DEF Uncommit
<1>2. CASE to = "app"
  <2>1. /\ Typed' /\ UNCHANGED <<incoming, to, newest>> /\ db'["service"] = db["service"]
        /\ log'["service"] = log["service"]
        /\ \/ at = "uncommit" /\ at' = "uncommitLog" /\ db'["user"] = NoDb
           \/ at = "uncommitLog" /\ at' = "restore" /\ UNCHANGED db /\ log'["user"] = "none"
           \/ at \in {"uncommit", "uncommitLog"} /\ at' = "restore" /\ UNCHANGED <<db, log>>
    BY <1>2, <1>1 DEF Uncommit, SetAside, AsideDb, AsideLog, Go, files, bounds, Typed
  <2>2. service = "stopped" /\ ~app /\ installed /\ db["service"] # NoDb
    BY <1>2, <2>1 DEF ToApp, Servers
  <2>3. Servers'
    BY <1>1, <2>1, <2>2 DEF Servers
  <2>4. CopyReady' /\ ToService'
    BY <1>2, <2>1 DEF CopyReady, Placing, Copied, ToService
  <2>5. ToApp'
    BY <1>1, <1>2, <2>1, <2>2 DEF ToApp, OnlyToService
  <2>6. FoundNewest' /\ NoForeignLog'
    BY <2>1, <2>2 DEF FoundNewest, Found, NoForeignLog
  <2> QED BY <2>1, <2>3, <2>4, <2>5, <2>6
<1>3. CASE to = "service"
  <2>0. SetAside("service", "uncommit", "uncommitLog", "idle", "idle")
    BY <1>3 DEF Uncommit
  <2>1. /\ Typed' /\ UNCHANGED <<incoming, to, newest>> /\ db'["user"] = db["user"]
        /\ log'["user"] = log["user"]
        /\ \/ /\ at = "uncommit" /\ at' = "uncommitLog" /\ db'["service"] = NoDb
              /\ service \notin {"running", "stopping"} \/ db["service"] = NoDb
           \/ at = "uncommit" /\ at' = "idle" /\ UNCHANGED <<db, log>>
           \/ at = "uncommitLog" /\ at' = "idle" /\ UNCHANGED db /\ log'["service"] = "none"
           \/ at = "uncommitLog" /\ at' = "idle" /\ UNCHANGED <<db, log>>
    BY <1>1, <1>3, <2>0 DEF HeldOpen, SetAside, AsideDb, AsideLog, Go, files, bounds, Typed
  <2>2. /\ ~app
        /\ at = "uncommit" => /\ db["service"] # NoDb /\ db["user"] = newest
                              /\ ~automatic /\ service # "starting"
        /\ at = "uncommitLog" => db["user"] = newest
    BY <1>3, <2>1 DEF ToService, Servers, Trial
  <2>3. Servers'
    BY <1>1, <2>1, <2>2 DEF Servers
  <2>4. CopyReady' /\ ToApp'
    BY <1>3, <2>1 DEF CopyReady, Placing, Copied, ToApp
  <2>5. ToService'
    BY <2>1, <2>2 DEF ToService, OnlyToApp, Trial
  <2>6. FoundNewest'
    BY <2>1, <2>2 DEF FoundNewest, Found
  <2>7. NoForeignLog'
    BY <2>1 DEF NoForeignLog
  <2> QED BY <2>1, <2>3, <2>4, <2>5, <2>6, <2>7
<1> QED BY <1>2, <1>3 DEF Typed

LEMMA RestoreStep == ASSUME Inv, Restore PROVE Inv'
<1> USE Constants
    DEF Inv, Folders, Restore, Incoming, Go, Well, Fails, files, registration, bounds
<1>1. Typed'
  BY DEF Typed
<1>2. Servers'
  BY DEF Servers, HasLibrary
<1>3. CopyReady'
  BY DEF CopyReady, Copied, Placing
<1>4. ToApp'
  BY DEF ToApp, OnlyToService, HasLibrary
<1>5. ToService'
  BY DEF ToService, OnlyToApp
<1>6. FoundNewest'
  BY DEF FoundNewest, Found, HasLibrary
<1>7. NoForeignLog'
  BY DEF NoForeignLog, HasLibrary
<1> QED BY <1>1, <1>2, <1>3, <1>4, <1>5, <1>6, <1>7 DEF Inv

LEMMA RestoreAutomaticStep == ASSUME Inv, RestoreAutomatic PROVE Inv'
<1> USE Constants
    DEF Inv, Folders, RestoreAutomatic, MayBeAutomatic, Go, Well, Fails, files,
        registration, bounds
<1>1. Typed'
  BY DEF Typed
<1>2. Servers'
  BY DEF Typed, Servers, HasLibrary, ToApp, ToService, OnlyToApp
<1>3. CopyReady'
  BY DEF CopyReady, Copied, Placing
<1>4. ToApp'
  BY DEF ToApp, OnlyToService, HasLibrary
<1>5. ToService'
  BY DEF ToService, OnlyToApp
<1>6. FoundNewest'
  BY DEF FoundNewest, Found, HasLibrary
<1>7. NoForeignLog'
  BY DEF NoForeignLog, HasLibrary
<1> QED BY <1>1, <1>2, <1>3, <1>4, <1>5, <1>6, <1>7 DEF Inv

LEMMA RestoreStartStep == ASSUME Inv, RestoreStart PROVE Inv'
<1> USE Constants DEF Inv, Folders, HasLibrary
<1>1. /\ at = "restoreStart" /\ to = "app" /\ installed /\ db["service"] # NoDb /\ ~app
  BY DEF RestoreStart, Typed, ToApp, ToService, OnlyToApp, Servers
<1>2. UNCHANGED <<installed, automatic, app, to, newest>> /\ at' = "idle"
  BY DEF RestoreStart, registration, Go, bounds
<1>3. /\ incoming' = incoming /\ db' = db /\ log' \in [Folders -> {"none", "own", "other"}]
      /\ log'["user"] = log["user"] /\ (log["service"] # "other" => log'["service"] # "other")
      /\ service' \in {"running", service}
  BY <1>1 DEF RestoreStart, Opens, files, Typed
<1>4. Typed' /\ Servers'
  BY <1>1, <1>2, <1>3 DEF Typed, Servers
<1>5. CopyReady' /\ ToApp' /\ ToService'
  BY <1>2 DEF CopyReady, Copied, Placing, ToApp, ToService
<1>6. FoundNewest' /\ NoForeignLog'
  BY <1>1, <1>2, <1>3 DEF FoundNewest, Found, NoForeignLog
<1> QED BY <1>4, <1>5, <1>6

---------------------------------------------------------------------------
LEMMA InvInit == Init => Inv
<1> SUFFICES ASSUME Init PROVE Inv
  OBVIOUS
<1>1. at = "idle" /\ to = "app" /\ newest = First
  BY DEF Init
<1>2. \/ db["service"] = First /\ ~app /\ installed
      \/ /\ db["service"] = NoDb /\ db["user"] = First /\ service = "stopped" /\ ~automatic
  BY DEF Init
<1>3. Typed
  BY Constants DEF Init, Typed, Folders
<1>4. NoForeignLog
  BY DEF Init, NoForeignLog, Folders
<1>5. Servers /\ FoundNewest
  BY <1>1, <1>2, Constants DEF Servers, FoundNewest, Found, HasLibrary
<1>6. CopyReady /\ ToApp /\ ToService
  BY <1>1 DEF CopyReady, Copied, Placing, ToApp, ToService
<1> QED BY <1>3, <1>4, <1>5, <1>6 DEF Inv

LEMMA InvStep ==
  ASSUME Inv, [Next]_vars, "tear" \notin Faults
  PROVE  Inv'
<1>1. CASE Helper
  BY <1>1, ElevateStep, LeftoverStep, StopStep, CopyStep, CopyingStep, ProveStep,
     ManualStep, InstallStep, SupersedeStep, NameStep, StartStep, AnswerStep, AutomaticStep,
     AsideStep, RemoveStep, DeregisterStep, UndoStopStep, UndoUninstallStep, UncommitStep,
     RestoreStep, RestoreAutomaticStep, RestoreStartStep DEF Helper
<1>2. CASE Next /\ ~Helper
  BY <1>2, WriteStep, BootStep, StartByHandStep, StopsLateStep, EnsureServerStep, KillStep,
     RestartStep, StartSwitchStep DEF Next
<1>3. CASE UNCHANGED vars
  BY <1>3
    DEF vars, Inv, Typed, Servers, CopyReady, ToApp, ToService, FoundNewest, Found,
        NoForeignLog, HasLibrary, Source, Destination
<1> QED BY <1>1, <1>2, <1>3

\* However many steps of however many switches fail, helpers die and machines
\* restart, the folder that decides which library opens next has the newest one;
\* unless ToApp's last step sets the database aside and not its log.
THEOREM LibraryFound == ASSUME "tear" \notin Faults PROVE Spec => []FoundNewest
<1>1. Inv => FoundNewest
  BY DEF Inv
<1>2. Inv /\ [Next]_vars => Inv'
  BY InvStep
<1> QED BY <1>1, <1>2, InvInit, PTL DEF Spec

\* And no database comes to lie beside the log of another.
THEOREM LogsGoWithTheirLibrary == ASSUME "tear" \notin Faults PROVE Spec => []NoForeignLog
<1>1. Inv => NoForeignLog
  BY DEF Inv
<1>2. Inv /\ [Next]_vars => Inv'
  BY InvStep
<1> QED BY <1>1, <1>2, InvInit, PTL DEF Spec

\* A library leaves its name by being kept under another, or by being written to.
THEOREM LibrariesAreKept == ASSUME "tear" \notin Faults PROVE Spec => NothingOverwritten
<1> DEFINE Leaves(d) == HasLibrary(d) /\ db'[d] # db[d] => db[d] \in kept' \/ db'[d] = newest + 1
<1>1. Inv /\ [Next]_vars => Inv'
  BY InvStep
<1>2. ASSUME Inv, Next, NEW d \in Folders PROVE Leaves(d)
  <2> USE <1>2 DEF Inv, HasLibrary, files, Folders, Typed
  <2>1. CASE Write
    BY <2>1 DEF Write
  <2>2. ASSUME NEW e \in Folders, Opens(e) PROVE Leaves(d)
    BY <2>2 DEF Opens
  <2>3. CASE Boot \/ StartByHand \/ EnsureServer \/ Start \/ RestoreStart
    BY <2>2, <2>3 DEF Boot, StartByHand, EnsureServer, Start, RestoreStart
  <2>4. CASE Supersede \/ Aside \/ Uncommit
    <3>1. db' = db \/ AsideDb(Destination) \/ AsideDb(Source)
      BY <2>4 DEF Supersede, Aside, Uncommit, SetAside, AsideLog
    <3>2. Destination \in Folders /\ Source \in Folders
      BY DEF Destination, Source
    <3> QED BY <3>1, <3>2 DEF AsideDb
  <2>5. CASE Name
    <3>1. Destination \in Folders /\ ~HasLibrary(Destination)
      BY <2>5 DEF Name, CopyReady, Placing, Destination
    <3> QED BY <2>5, <3>1 DEF Name
  <2>6. CASE Copy \/ Copying \/ Prove \/ Install \/ Deregister \/ Restore
    BY <2>6 DEF Copy, Copying, Prove, Install, Deregister, Restore, GiveUp, Incoming
  <2>7. CASE \/ StopsLate \/ Kill \/ Restart \/ Elevate \/ Leftover \/ Stop \/ Manual \/ Answer
             \/ Automatic \/ Remove \/ UndoStop \/ UndoUninstall \/ RestoreAutomatic
    <3>1. db' = db
      BY <2>7 DEF StopsLate, ServiceStops, Kill, Restart, Elevate, Leftover, Stop,
         Manual, Answer, Automatic, Remove, UndoStop, UndoUninstall, RestoreAutomatic
    <3> QED BY <3>1
  <2>8. CASE \E way \in {"app", "service"} : StartSwitch(way)
    BY <2>8 DEF StartSwitch
  <2> QED BY <2>1, <2>3, <2>4, <2>5, <2>6, <2>7, <2>8 DEF Next, Helper
<1>3. Inv /\ [Next]_vars =>
        [\A d \in Folders :
           HasLibrary(d) /\ db'[d] # db[d] => db[d] \in kept' \/ db'[d] = newest + 1]_vars
  BY <1>2
<1> QED BY <1>1, <1>3, InvInit, PTL DEF Spec, NothingOverwritten
---------------------------------------------------------------------------
(* Types, whatever may fail.                                               *)

FilesTyped ==
  /\ db \in [Folders -> Versions \cup {NoDb}]
  /\ log \in [Folders -> {"none", "own", "other"}]
  /\ incoming \in [Folders -> Versions \cup {NoDb, Partial}]
  /\ kept \subseteq Versions

LEMMA FoldersOf == Destination \in Folders /\ Source \in Folders /\ "service" \in Folders
                   /\ "user" \in Folders
  BY DEF Destination, Source, Folders

LEMMA FileOperations ==
  ASSUME TypeOK, NEW d \in Folders,
         \/ UNCHANGED files \/ Opens(d) \/ ServiceStops \/ AsideDb(d) \/ AsideLog(d)
         \/ \E v \in Versions \cup {NoDb, Partial} : Incoming(v)
  PROVE  FilesTyped'
<1> USE FoldersOf, Constants DEF TypeOK, FilesTyped
<1>1. CASE UNCHANGED files
  BY <1>1 DEF files
<1>2. CASE Opens(d)
  BY <1>2 DEF Opens
<1>3. CASE ServiceStops
  BY <1>3 DEF ServiceStops
<1>4. CASE AsideDb(d)
  BY <1>4 DEF AsideDb, HasLibrary
<1>5. CASE AsideLog(d)
  BY <1>5 DEF AsideLog
<1>6. CASE \E v \in Versions \cup {NoDb, Partial} : Incoming(v)
  BY <1>6 DEF Incoming
<1> QED BY <1>1, <1>2, <1>3, <1>4, <1>5, <1>6

\* The rest of what a helper's step changes.
RestTyped ==
  /\ installed \in BOOLEAN /\ automatic \in BOOLEAN
  /\ service \in {"stopped", "starting", "running", "stopping"}
  /\ app \in BOOLEAN
  /\ to \in {"app", "service"} /\ at \in Steps
  /\ newest \in Versions
  /\ faults \in 0..MaxFaults /\ kills \in 0..MaxKills

\* What is proved, and then named, is a copy with its last byte.
Whole == at \in Copied => incoming[Destination] # Partial

\* A step of the helper goes to a step there is, and fails at most once.
Moves ==
  /\ faults' \in {faults, faults + 1} /\ (faults' # faults => faults < MaxFaults)
  /\ at' \in Steps /\ UNCHANGED <<to, newest, kills, app>>
  /\ installed' \in BOOLEAN /\ automatic' \in BOOLEAN
  /\ service' \in {"stopped", "starting", "running", "stopping"}

LEMMA MovesTyped == ASSUME TypeOK, Moves PROVE RestTyped'
  BY ModeAssumption DEF Moves, TypeOK, RestTyped

LEMMA SetAsideMoves ==
  ASSUME TypeOK, UNCHANGED <<registration, service, app>>, NEW d \in Folders,
         NEW first, NEW second \in Steps, NEW next \in Steps, NEW failed \in Steps,
         SetAside(d, first, second, next, failed)
  PROVE  Moves /\ FilesTyped'
<1>1. Moves
  BY DEF Moves, TypeOK, SetAside, Go, bounds, Well, Fails, registration
<1>2. UNCHANGED files \/ AsideDb(d) \/ AsideLog(d)
  BY DEF SetAside
<1> QED BY <1>1, <1>2, FileOperations

LEMMA HelperTyped == ASSUME TypeOK, Whole, Helper PROVE Moves /\ FilesTyped'
<1> USE FoldersOf DEF Go, bounds, Well, Fails, registration
<1>1. ASSUME UNCHANGED files PROVE FilesTyped'
  BY <1>1, FileOperations
<1>2. ASSUME NEW v \in Versions \cup {NoDb, Partial}, Incoming(v) PROVE FilesTyped'
  BY <1>2, FileOperations
<1>3. CASE Elevate \/ Leftover \/ Manual \/ Answer \/ Automatic
  <2>1. Moves
    BY <1>3 DEF Moves, TypeOK, Elevate, Leftover, Deletes, Manual, Answer, Automatic,
       MayBeAutomatic, Steps
  <2> QED BY <1>3, <1>1, <2>1 DEF Elevate, Leftover, Manual, Answer, Automatic
<1>4. CASE Remove \/ UndoUninstall \/ RestoreAutomatic
  <2>1. Moves
    BY <1>4 DEF Moves, TypeOK, Remove, MayDelete, Deletes, UndoUninstall, RestoreAutomatic,
       MayBeAutomatic, Steps
  <2> QED BY <1>4, <1>1, <2>1 DEF Remove, UndoUninstall, RestoreAutomatic
<1>5. CASE Stop
  <2>1. Moves
    BY <1>5 DEF Moves, TypeOK, Stop, ServiceStops, Steps
  <2>2. UNCHANGED files \/ ServiceStops
    BY <1>5 DEF Stop
  <2> QED BY <2>1, <2>2, FileOperations
<1>6. CASE UndoStop
  <2>1. Moves
    BY <1>6 DEF Moves, TypeOK, UndoStop, ServiceStops, Steps
  <2>2. UNCHANGED files \/ ServiceStops
    BY <1>6 DEF UndoStop
  <2> QED BY <2>1, <2>2, FileOperations
<1>7. CASE Copy \/ Copying \/ Prove
  <2>1. Moves
    BY <1>7 DEF Moves, TypeOK, Copy, Copying, Prove, GiveUp, Steps
  <2>2. UNCHANGED files \/ Incoming(Partial) \/ Incoming(NoDb) \/ Incoming(db[Source])
    BY <1>7 DEF Copy, Copying, Prove, GiveUp
  <2>3. db[Source] \in Versions \cup {NoDb}
    BY DEF TypeOK
  <2> QED BY <1>1, <1>2, <2>1, <2>2, <2>3
<1>8. CASE Install \/ Deregister \/ Restore
  <2>1. Moves
    BY <1>8 DEF Moves, TypeOK, Install, Deregister, MayDelete, Deletes, GiveUp, Restore, Steps
  <2>2. UNCHANGED files \/ Incoming(NoDb)
    BY <1>8 DEF Install, Deregister, GiveUp, Restore
  <2> QED BY <1>1, <1>2, <2>1, <2>2
<1>9. CASE Start \/ RestoreStart
  <2>1. Moves
    BY <1>9 DEF Moves, TypeOK, Start, RestoreStart, Steps
  <2>2. UNCHANGED files \/ Opens("service")
    BY <1>9 DEF Start, RestoreStart
  <2> QED BY <2>1, <2>2, FileOperations
<1>10. CASE Name
  <2>1. Moves
    BY <1>10 DEF Moves, TypeOK, Name, PlaceFailed, Steps
  <2>2. CASE UNCHANGED files
    BY <1>1, <2>1, <2>2
  <2>3. CASE ~UNCHANGED files
    <3>1. incoming[Destination] \in Versions \cup {NoDb}
      BY <1>10 DEF Name, Whole, Copied, TypeOK
    <3>2. /\ db' = [db EXCEPT ![Destination] = incoming[Destination]]
          /\ incoming' = [incoming EXCEPT ![Destination] = NoDb]
          /\ log' = [log EXCEPT ![Destination] = IF @ = "own" THEN "other" ELSE @]
          /\ kept' = kept
      BY <1>10, <2>3 DEF Name
    <3>3. FilesTyped'
      BY <3>1, <3>2 DEF TypeOK, FilesTyped
    <3> QED BY <2>1, <3>3
  <2> QED BY <2>2, <2>3
<1>11. CASE Supersede
  <2>1. /\ UNCHANGED <<registration, service, app>>
        /\ SetAside(Destination, "supersede", "supersedeLog", "name", PlaceFailed)
    BY <1>11 DEF Supersede
  <2>2. {"supersedeLog", "name", PlaceFailed} \subseteq Steps
    BY DEF Steps, PlaceFailed
  <2> QED BY <2>1, <2>2, SetAsideMoves
<1>12. CASE Aside
  <2> DEFINE next == IF to = "app" THEN "remove" ELSE "idle"
             failed == IF to = "app" THEN "uncommit" ELSE "idle"
  <2>1. UNCHANGED <<registration, service, app>>
        /\ SetAside(Source, "aside", "asideLog", next, failed)
    BY <1>12 DEF Aside
  <2>2. {"asideLog", next, failed} \subseteq Steps
    BY DEF Steps
  <2> HIDE DEF next, failed
  <2> QED BY <2>1, <2>2, SetAsideMoves
<1>13. CASE Uncommit
  <2> DEFINE next == IF to = "app" THEN "restore" ELSE "idle"
  <2>1. UNCHANGED <<registration, service, app>>
        /\ SetAside(Destination, "uncommit", "uncommitLog", next, next)
    BY <1>13 DEF Uncommit
  <2>2. {"uncommitLog", next} \subseteq Steps
    BY DEF Steps
  <2> HIDE DEF next
  <2> QED BY <2>1, <2>2, SetAsideMoves
<1> QED BY <1>3, <1>4, <1>5, <1>6, <1>7, <1>8, <1>9, <1>10, <1>11, <1>12, <1>13 DEF Helper

LEMMA HelperWhole == ASSUME TypeOK, Whole, Helper PROVE Whole'
<1>1. to' = to
  BY HelperTyped DEF Moves
<1>2. CASE Copying
  <2>1. CASE at' \in Copied
    <3>1. incoming' = [incoming EXCEPT ![Destination] = db[Source]]
      BY <1>2, <2>1 DEF Copying, GiveUp, Incoming, Go, Copied
    <3>2. Destination' = Destination /\ Destination \in Folders /\ db[Source] # Partial
      BY <1>1, FoldersOf, Constants DEF Destination, TypeOK
    <3> QED BY <3>1, <3>2 DEF Whole, TypeOK
  <2>2. CASE at' \notin Copied
    BY <2>2 DEF Whole
  <2> QED BY <2>1, <2>2
<1>3. ASSUME at' \in Copied => at \in Copied /\ incoming' = incoming PROVE Whole'
  BY <1>1, <1>3 DEF Whole, Destination
<1>4. CASE \/ Elevate \/ Leftover \/ Stop \/ Copy \/ Start \/ Answer \/ Automatic \/ Aside
           \/ Remove \/ Deregister
  <2>1. at' \notin Copied
    BY <1>4 DEF Elevate, Leftover, Stop, Copy, Start, Answer, Automatic, Aside, SetAside,
       Remove, Deregister, GiveUp, Go, Copied
  <2> QED BY <2>1 DEF Whole
<1>5. CASE \/ UndoStop \/ UndoUninstall \/ Uncommit \/ Restore \/ RestoreAutomatic
           \/ RestoreStart
  <2>1. at' \notin Copied
    BY <1>5 DEF UndoStop, UndoUninstall, Uncommit, SetAside, Restore, RestoreAutomatic,
       RestoreStart, Go, Copied
  <2> QED BY <2>1 DEF Whole
<1>6. CASE Prove \/ Manual \/ Install \/ Name
  BY <1>3, <1>6 DEF Prove, Manual, Install, Name, PlaceFailed, GiveUp, files, Go, Copied
<1>7. CASE Supersede
  BY <1>3, <1>7 DEF Supersede, SetAside, AsideDb, AsideLog, PlaceFailed, files, Go, Copied
<1> QED BY <1>2, <1>4, <1>5, <1>6, <1>7 DEF Helper

\* The switch's variables keep their types, whichever steps fail and whenever a
\* helper dies: a copy without its last byte is never given the library's name.
THEOREM ModeTypeCorrect == Spec => []TypeOK
<1>1. Init => TypeOK /\ Whole
  <2> SUFFICES ASSUME Init PROVE TypeOK /\ Whole
    OBVIOUS
  <2>1. FilesTyped
    BY Constants DEF Init, FilesTyped, Folders
  <2>2. RestTyped
    BY Constants DEF Init, RestTyped, Steps
  <2>3. Whole
    BY DEF Init, Whole, Copied
  <2> QED BY <2>1, <2>2, <2>3 DEF TypeOK, FilesTyped, RestTyped
<1>2. TypeOK /\ Whole /\ [Next]_vars => TypeOK' /\ Whole'
  <2> SUFFICES ASSUME TypeOK, Whole, [Next]_vars PROVE FilesTyped' /\ RestTyped' /\ Whole'
    BY DEF TypeOK, FilesTyped, RestTyped
  <2>1. CASE Helper
    BY <2>1, HelperTyped, HelperWhole, MovesTyped
  <2>2. ASSUME incoming' = incoming, (to' = to /\ at' = at) \/ at' \in {"idle", "elevate"}
        PROVE  Whole'
    BY <2>2 DEF Whole, Copied, Destination
  <2>3. CASE Write
    <3>1. /\ newest + 1 \in Versions /\ newest' = newest + 1
          /\ \E d \in Folders : db' = [db EXCEPT ![d] = newest + 1]
          /\ UNCHANGED <<log, incoming, kept, registration, service, app, to, at, faults, kills>>
      BY <2>3, NewVersion, FoldersOf DEF Write, TypeOK
    <3>2. FilesTyped' /\ RestTyped'
      BY <3>1 DEF registration, TypeOK, FilesTyped, RestTyped
    <3> QED BY <2>2, <3>1, <3>2
  <2>4. CASE Boot \/ StartByHand \/ StopsLate \/ EnsureServer
    <3>1. Opens("service") \/ Opens("user") \/ ServiceStops
      BY <2>4 DEF Boot, StartByHand, StopsLate, EnsureServer
    <3>2. RestTyped'
      BY <2>4 DEF Boot, StartByHand, StopsLate, EnsureServer, ServiceStops, registration,
         TypeOK, RestTyped
    <3>3. incoming' = incoming /\ to' = to /\ at' = at
      BY <2>4, <3>1 DEF Boot, StartByHand, StopsLate, EnsureServer, Opens, ServiceStops
    <3> QED BY <2>2, <3>1, <3>2, <3>3, FileOperations, FoldersOf
  <2>5. CASE Kill \/ Restart \/ \E way \in {"app", "service"} : StartSwitch(way)
    <3>1. UNCHANGED files /\ at' \in {"idle", "elevate"}
      BY <2>5 DEF Kill, Restart, StartSwitch
    <3>2. /\ at' \in Steps /\ to' \in {to, "app", "service"} /\ app' \in {app, FALSE}
          /\ kills' \in {kills, kills + 1} /\ (kills' # kills => kills < MaxKills)
          /\ service' \in {service, "starting", "stopped"}
          /\ UNCHANGED <<installed, automatic, newest, faults>>
      BY <2>5, <3>1 DEF Kill, Restart, StartSwitch, registration, Steps
    <3>3. RestTyped'
      <4>1. kills' \in 0..MaxKills
        BY <3>2, ModeAssumption DEF TypeOK
      <4>2. app' \in BOOLEAN /\ installed' \in BOOLEAN /\ automatic' \in BOOLEAN
        BY <3>2 DEF TypeOK
      <4> QED BY <3>2, <4>1, <4>2 DEF TypeOK, RestTyped
    <3>4. Whole'
      BY <2>2, <3>1 DEF files
    <3> QED BY <3>1, <3>3, <3>4, FileOperations, FoldersOf
  <2>6. CASE UNCHANGED vars
    BY <2>2, <2>6 DEF vars, TypeOK, FilesTyped, RestTyped
  <2> QED BY <2>1, <2>3, <2>4, <2>5, <2>6 DEF Next
<1> QED BY <1>1, <1>2, PTL DEF Spec
---------------------------------------------------------------------------
(* A switch that ends leaves a server, or a machine that can start one.    *)

Undoing == {"deregister", "undoStop", "undoUninstall", "uncommit", "uncommitLog",
            "restore", "restoreAutomatic", "restoreStart"}

\* At most one step has failed, and the helper has lived.
Once == faults <= 1 /\ kills = 0

\* No switch that ends leaves a stopped service with the library: nothing in ToApp or
\* ToService would start it, and ensureServer waits for it. What EndsServing rests on.
NeverLeftWaiting == at = "idle" /\ Once /\ HasLibrary("service") => service = "running"

\* Undoing is for a switch that has failed, so what undoes it will not fail again; and
\* the service that has the library runs, or a step is still to come that starts it.
Attended ==
  /\ service # "starting"
  /\ at \in Undoing => faults = 1
  /\ (\/ at \in {"idle", "elevate", "stop"}
      \/ to = "service" /\ at \in {"answer", "automatic", "aside", "asideLog"})
     => (HasLibrary("service") => service = "running")
  /\ to = "service" /\ at \in {"undoUninstall", "uncommit"} => service = "stopped"
  /\ to = "service" /\ at = "uncommitLog" => ~HasLibrary("service")
  /\ to = "app" /\ at \in {"asideLog", "remove"} => ~HasLibrary("service")

\* How a folder's database comes to be set aside, or not.
LEMMA SetAsideWays ==
  ASSUME NEW d \in Folders, NEW first, NEW second, NEW next, NEW failed,
         SetAside(d, first, second, next, failed)
  PROVE  /\ to' = to /\ kills' = kills
         /\ \/ /\ at = first /\ at' = second /\ faults' = faults
               /\ db' = [db EXCEPT ![d] = NoDb]
            \/ /\ at = first /\ at' = failed /\ faults' = faults /\ db' = db
               /\ HeldOpen(d) /\ HasLibrary(d)
            \/ at \in {first, second} /\ at' = failed /\ faults' = faults + 1 /\ db' = db
            \/ at = second /\ at' = next /\ faults' = faults /\ db' = db
  BY DEF SetAside, AsideDb, AsideLog, Well, Fails, Go, bounds, files

LEMMA AttendedStep ==
  ASSUME TypeOK, Inv, Once, Attended, Next, Once', "tear" \notin Faults, "slow" \notin Faults
  PROVE  Attended'
<1> USE Constants DEF Go, bounds, Well, files, registration, HasLibrary
<1>1. faults \in Nat /\ kills \in Nat /\ db \in [Folders -> Versions \cup {NoDb}]
  BY DEF TypeOK
<1>0. /\ to \in {"app", "service"}
      /\ to = "service" /\ at \in Before => ~HasLibrary("service")
      /\ to = "app" /\ at = "leftover" => ~HasLibrary("service")
      /\ to = "app" /\ at # "idle" => at \notin OnlyToService
      /\ to = "service" /\ at # "idle" => at \notin OnlyToApp
  BY DEF TypeOK, Inv, ToApp, ToService, Before
<1>2. ASSUME NEW kind, Fails(kind) PROVE faults = 0 /\ faults' = 1 /\ kind \in Faults
  BY <1>1, <1>2 DEF Fails, Once
<1>3. CASE Write
  <2>1. UNCHANGED <<service, to, at, faults>> /\ (db'["service"] = db["service"] \/ service = "running")
    BY <1>1, <1>3 DEF Write, Serving, Folders
  <2>2. db["service"] = NoDb => db'["service"] = NoDb
    BY <1>1, <1>3, <2>1 DEF Write, Folders, Inv, Servers, Serving
  <2> QED BY <2>1, <2>2 DEF Attended
<1>4. CASE Boot \/ StartByHand
  BY <1>4, <1>1 DEF Boot, StartByHand, Opens, Attended, Undoing, Folders, HasLibrary
<1>5. CASE StopsLate \/ EnsureServer
  BY <1>5, <1>1 DEF StopsLate, ServiceStops, EnsureServer, Opens, Attended, Folders, Undoing
<1>6. CASE Kill \/ Restart
  BY <1>6, <1>1 DEF Kill, Restart, Once
<1>7. CASE \E way \in {"app", "service"} : StartSwitch(way)
  BY <1>7 DEF StartSwitch, Attended, Undoing
<1>8. CASE Elevate
  BY <1>8 DEF Elevate, Attended, Undoing
<1>9. CASE Leftover
  <2>1. ~HasLibrary("service")
    BY <1>0, <1>9 DEF Leftover, Before
  <2>2. /\ UNCHANGED <<db, to>> /\ at' \in {"idle", "copy"} /\ service' # "starting"
    BY <1>9 DEF Leftover, Deletes, Attended
  <2> QED BY <2>1, <2>2 DEF Attended, Undoing
<1>10. CASE Stop
  BY <1>10, <1>2 DEF Stop, ServiceStops, Attended, Undoing, Inv, ToService, OnlyToApp
<1>11. CASE Copy \/ Copying \/ Prove
  <2>1. /\ UNCHANGED <<db, to, service>>
        /\ \/ at' \in {"copying", "prove", "manual", "install"}
           \/ faults' = 1 /\ at' = IF to = "app" THEN "restore" ELSE "idle"
    BY <1>0, <1>11, <1>2 DEF Copy, Copying, Prove, GiveUp, Incoming
  <2>2. to = "service" => ~HasLibrary("service")
    BY <1>0, <1>11 DEF Copy, Copying, Prove, Before
  <2> QED BY <1>0, <2>1, <2>2 DEF Attended, Undoing
<1>12. CASE Manual \/ Install
  <2>1. /\ UNCHANGED <<db, to, service>>
        /\ \/ at' = "supersede"
           \/ faults' = 1 /\ to = "app" /\ at' = "restore"
           \/ faults' = 1 /\ to = "service" /\ ~HasLibrary("service") /\ at' = "idle"
    BY <1>0, <1>12, <1>2 DEF Manual, Install, GiveUp, Incoming, Before, OnlyToApp, OnlyToService
  <2> QED BY <1>0, <2>1 DEF Attended, Undoing
<1>13. CASE Supersede
  <2>1. ~HeldOpen(Destination) \/ ~HasLibrary(Destination)
    <3>1. CASE to = "app"
      BY <1>13, <3>1 DEF Supersede, SetAside, HeldOpen, Destination, Inv, Servers
    <3>2. CASE to = "service"
      BY <1>0, <1>13, <3>2 DEF Supersede, SetAside, Destination, Before
    <3> QED BY <1>0, <3>1, <3>2
  <2>2. /\ UNCHANGED <<to, service>>
        /\ \/ at' \in {"supersedeLog", "name"}
           \/ faults' = 1 /\ at' = PlaceFailed
    BY <1>1, <1>13, <2>1, FoldersOf, SetAsideWays DEF Supersede, Once
  <2> QED BY <1>0, <2>2 DEF PlaceFailed, Attended, Undoing
<1>14. CASE Name
  BY <1>14, <1>2 DEF Name, PlaceFailed, Attended, Undoing
<1>15. CASE Start
  BY <1>15, <1>2 DEF Start, Opens, Attended, Undoing, Inv, ToApp, OnlyToService
<1>16. CASE Answer \/ Automatic
  BY <1>16, <1>2 DEF Answer, Automatic, MayBeAutomatic, Attended, Undoing, Inv, ToApp, OnlyToService
<1>17. CASE Aside
  <2> DEFINE ok == IF to = "app" THEN "remove" ELSE "idle"
             no == IF to = "app" THEN "uncommit" ELSE "idle"
  <2>1. at \in {"aside", "asideLog"} /\ service' = service /\ SetAside(Source, "aside", "asideLog", ok, no)
    BY <1>17 DEF Aside, SetAside
  <2>2. CASE to = "app"
    <3>1. Source = "service" /\ (at = "aside" => ~HeldOpen(Source))
      BY <2>1, <2>2 DEF Source, HeldOpen, Inv, ToApp
    <3>2. CASE at = "asideLog"
      <4>1. at' \in {"asideLog", "remove"} /\ db' = db /\ to' = to
        BY <1>17, <2>2, <3>1, <3>2 DEF Aside, SetAside, AsideLog, Fails
      <4> QED BY <2>1, <2>2, <3>2, <4>1 DEF Attended, Undoing
    <3>3. CASE at = "aside"
      <4>1. /\ to' = to
            /\ \/ at' = "asideLog" /\ db'["service"] = NoDb
               \/ at' = "uncommit" /\ faults' = 1
        BY <1>1, <2>1, <2>2, <3>1, <3>3, FoldersOf, SetAsideWays DEF Once
      <4> QED BY <2>1, <2>2, <4>1 DEF Attended, Undoing
    <3> QED BY <2>1, <3>2, <3>3
  <2>3. CASE to = "service"
    <3>1. Source = "user" /\ (HasLibrary("service") => service = "running")
      BY <2>1, <2>3 DEF Source, Attended
    <3>2. at' \in {"asideLog", "idle"} /\ db'["service"] = db["service"] /\ to' = to
      BY <1>1, <2>1, <2>3, <3>1, FoldersOf, SetAsideWays DEF Folders
    <3> QED BY <2>1, <2>3, <3>1, <3>2 DEF Attended, Undoing
  <2> QED BY <1>0, <2>2, <2>3
<1>18. CASE Remove \/ Deregister
  <2>1. ~HasLibrary("service")
    BY <1>0, <1>18 DEF Remove, Deregister, Attended, Before, OnlyToApp, OnlyToService
  <2>2. /\ UNCHANGED <<db, to>> /\ service' # "starting"
        /\ \/ at' = "idle"
           \/ at' = "restore" /\ at = "deregister" /\ to = "app"
    BY <1>18 DEF Remove, Deregister, MayDelete, Deletes, GiveUp, Incoming, Attended
  <2>3. at' = "idle"
    BY <1>0, <2>2 DEF OnlyToService
  <2> QED BY <2>1, <2>2, <2>3 DEF Attended, Undoing
<1>19. CASE UndoStop \/ UndoUninstall
  BY <1>19, <1>2 DEF UndoStop, UndoUninstall, ServiceStops, MayDelete, Deletes, Attended,
     Undoing, Inv, ToApp, OnlyToService
<1>20. CASE Uncommit
  <2> DEFINE after == IF to = "app" THEN "restore" ELSE "idle"
  <2>1. /\ at \in {"uncommit", "uncommitLog"} /\ service' = service /\ faults = 1
        /\ SetAside(Destination, "uncommit", "uncommitLog", after, after)
    BY <1>20 DEF Uncommit, SetAside, Attended, Undoing
  <2>2. faults' = 1
    BY <1>1, <2>1, FoldersOf, SetAsideWays DEF Once
  <2>3. CASE to = "app"
    <3>1. at' \in {"uncommitLog", "restore"} /\ to' = to
      BY <2>1, <2>3, FoldersOf, SetAsideWays
    <3> QED BY <2>1, <2>2, <2>3, <3>1 DEF Attended, Undoing
  <2>4. CASE to = "service"
    <3>1. Destination = "service" /\ (at = "uncommit" => ~HeldOpen("service"))
      BY <2>4 DEF Destination, HeldOpen, Attended
    <3>2. /\ at' \in {"uncommitLog", "idle"} /\ to' = to
          /\ db'["service"] = NoDb
      BY <1>1, <2>1, <2>2, <2>4, <3>1, FoldersOf, SetAsideWays DEF Attended
    <3> QED BY <2>1, <2>2, <2>4, <3>2 DEF Attended, Undoing
  <2> QED BY <1>0, <2>3, <2>4
<1>21. CASE Restore \/ RestoreAutomatic
  BY <1>21, <1>2 DEF Restore, RestoreAutomatic, MayBeAutomatic, Incoming, Attended, Undoing
<1>22. CASE RestoreStart
  BY <1>22, <1>2 DEF RestoreStart, Opens, Attended, Undoing
<1> QED
  BY <1>3, <1>4, <1>5, <1>6, <1>7, <1>8, <1>9, <1>10, <1>11, <1>12, <1>13, <1>14, <1>15,
     <1>16, <1>17, <1>18, <1>19, <1>20, <1>21, <1>22 DEF Next, Helper

\* No failure is taken back.
LEMMA OnceBefore == ASSUME TypeOK, Inv, [Next]_vars, Once' PROVE Once
<1>1. faults \in Nat /\ kills \in Nat
  BY DEF TypeOK
<1>2. Whole
  BY Constants DEF Inv, Typed, CopyReady, Whole
<1>3. CASE Helper
  BY <1>1, <1>2, <1>3, HelperTyped DEF Moves, Once
<1>4. CASE Next /\ ~Helper
  <2>1. faults' = faults /\ kills' \in {kills, kills + 1}
    BY <1>4 DEF Next, Write, Boot, StartByHand, StopsLate, EnsureServer, Kill, Restart, StartSwitch
  <2> QED BY <1>1, <2>1 DEF Once
<1>5. CASE UNCHANGED vars
  BY <1>5 DEF vars, Once
<1> QED BY <1>3, <1>4, <1>5

\* However a switch ends, its one failed step undone or lived with, the service that
\* has the library runs; unless Stop gives up on a service that then stops, or ToApp's
\* last step sets the database aside and not its log.
THEOREM SwitchesLeaveAServer ==
  ASSUME "tear" \notin Faults, "slow" \notin Faults PROVE Spec => []NeverLeftWaiting
<1>1. Init => Attended
  BY DEF Init, Attended, Undoing, HasLibrary
<1>2. TypeOK /\ Inv /\ (Once => Attended) /\ [Next]_vars => Inv' /\ (Once => Attended)'
  <2> SUFFICES ASSUME TypeOK, Inv, Once => Attended, [Next]_vars, Once' PROVE Attended'
    BY InvStep
  <2>1. Once /\ Attended
    BY OnceBefore
  <2>2. CASE UNCHANGED vars
    BY <2>1, <2>2 DEF vars, Attended, HasLibrary
  <2> QED BY <2>1, <2>2, AttendedStep
<1>3. (Once => Attended) => NeverLeftWaiting
  BY DEF Attended, NeverLeftWaiting
<1> QED BY <1>1, <1>2, <1>3, InvInit, ModeTypeCorrect, PTL DEF Spec
---------------------------------------------------------------------------
(* No empty library.                                                       *)

\* Only Write moves the newest version on.
LEMMA NewestMoves ==
  ASSUME Inv, [Next]_vars PROVE newest' = newest \/ newest' = newest + 1
<1> USE DEF bounds, Go, GiveUp, Incoming
<1>1. CASE Helper
  BY <1>1 DEF Helper, Elevate, Leftover, Stop, Copy, Copying, Prove, Manual, Install,
     Supersede, Name, Start, Answer, Automatic, Aside, Remove, Deregister, UndoStop,
     UndoUninstall, Uncommit, Restore, RestoreAutomatic, RestoreStart, SetAside
<1>2. CASE Next /\ ~Helper
  BY <1>2 DEF Next, Write, Boot, StartByHand, StopsLate, EnsureServer, Kill, Restart, StartSwitch
<1>3. CASE UNCHANGED vars
  BY <1>3 DEF vars
<1> QED BY <1>1, <1>2, <1>3

\* A server that starts finds a library: none is made empty, which "reads as
\* everything deleted"; unless a torn rename took the library from under its name.
THEOREM NoneMadeEmpty == ASSUME "tear" \notin Faults PROVE Spec => []NoEmptyLibrary
<1> DEFINE Full == NoEmptyLibrary /\ newest # Empty
<1>1. Init => Full
  BY ModeAssumption DEF Init, NoEmptyLibrary, Folders, NoDb, First, Stale, Empty
<1>2. Inv /\ Full /\ [Next]_vars => Inv' /\ Full'
  <2>0. ASSUME Inv, Full, [Next]_vars PROVE newest' # Empty
    BY <2>0, NewestMoves, Constants DEF Inv, Typed, Empty
  <2> SUFFICES ASSUME Inv, Full, [Next]_vars PROVE NoEmptyLibrary'
    BY <2>0, InvStep
  <2> USE DEF Folders, Typed
  <2>1. newest + 1 # Empty
    BY Constants DEF Inv, Empty
  <2>2. ASSUME db' = db PROVE NoEmptyLibrary'
    BY <2>2 DEF NoEmptyLibrary
  <2>3. CASE Write
    BY <2>1, <2>3 DEF Write, NoEmptyLibrary, Inv
  <2>4. ASSUME NEW d \in Folders, Opens(d), HasLibrary(d) PROVE NoEmptyLibrary'
    BY <2>4 DEF Opens, NoEmptyLibrary, Inv
  <2>5. HasLibrary("service") \/ HasLibrary("user")
    BY Constants DEF Inv, FoundNewest, Found, HasLibrary
  <2>6. CASE Boot \/ StartByHand \/ EnsureServer
    BY <2>4, <2>5, <2>6 DEF Boot, StartByHand, EnsureServer, Inv, Servers
  <2>7. CASE Start
    <3>1. to = "service" /\ HasLibrary("service")
      BY <2>7 DEF Start, Inv, ToService, ToApp, Trial, OnlyToService
    <3>2. Opens("service") \/ db' = db
      BY <2>7 DEF Start, files
    <3> QED BY <2>2, <2>4, <3>1, <3>2
  <2>8. CASE RestoreStart
    <3>1. to = "app" /\ HasLibrary("service")
      BY <2>8 DEF RestoreStart, Inv, ToApp, ToService, OnlyToApp
    <3>2. Opens("service") \/ db' = db
      BY <2>8 DEF RestoreStart, files
    <3> QED BY <2>2, <2>4, <3>1, <3>2
  <2>9. ASSUME NEW d \in Folders, AsideDb(d) PROVE NoEmptyLibrary'
    BY <2>9, Constants DEF AsideDb, NoEmptyLibrary, Inv
  <2>10. CASE Supersede \/ Aside \/ Uncommit
    <3>1. db' = db \/ AsideDb(Destination) \/ AsideDb(Source)
      BY <2>10 DEF Supersede, Aside, Uncommit, SetAside, AsideLog, files
    <3> QED BY <2>2, <2>9, <3>1, FoldersOf
  <2>11. CASE Name
    BY <2>2, <2>11, FoldersOf DEF Name, Inv, CopyReady, Copied, NoEmptyLibrary, files
  <2>12. CASE \/ Copy \/ Copying \/ Prove \/ Install \/ Deregister \/ Restore
              \/ StopsLate \/ Kill \/ Restart \/ Elevate \/ Leftover \/ Stop \/ Manual \/ Answer
              \/ Automatic \/ Remove \/ UndoStop \/ UndoUninstall \/ RestoreAutomatic
              \/ \E way \in {"app", "service"} : StartSwitch(way)
              \/ UNCHANGED vars
    <3>1. db' = db
      BY <2>12 DEF Copy, Copying, Prove, Install, Deregister, Restore, GiveUp, Incoming,
         StopsLate, ServiceStops, Kill, Restart, Elevate, Leftover, Stop, Manual, Answer,
         Automatic, Remove, UndoStop, UndoUninstall, RestoreAutomatic, StartSwitch, files, vars
    <3> QED BY <2>2, <3>1
  <2> QED BY <2>1, <2>3, <2>6, <2>7, <2>8, <2>10, <2>11, <2>12 DEF Next, Helper
<1>3. Full => NoEmptyLibrary
  OBVIOUS
<1> HIDE DEF Full
<1> QED BY <1>1, <1>2, <1>3, InvInit, PTL DEF Spec
=============================================================================
