# LANcast in TLA+

LANcast is a media server for a home: one Go process with a SQLite library,
ffmpeg children for playback, a React client, and a Windows desktop window that
can run the server itself or rely on an installed service. These modules model
the parts of it where order, concurrency and failure decide whether it is
right. Every definition is translated from the code; `PROJECT.json` ("map")
names the lines each one stands for.

## 1. Inventory

Columns: the state a component keeps, what happens to it, and what is hard.

| Component | State | Operations | Hard part | Status |
|---|---|---|---|---|
| Transcode sessions (`internal/transcode`, `api/transcode.go`, `api/channellive.go`) | the table of sessions; each one's ffmpeg, files on disk, idle clock, `served` | start/reuse/supersede/evict/refuse; playlist, segment and pipe reads; reap; stop; shutdown | each start is a chain of short holds of the lock with blocking stops between; waits race the reaper | `TranscodeSessions` |
| Events hub (`internal/events`) | subscribers; per subscriber a set of topics and a one-slot nudge | Subscribe, Unsubscribe, Publish, PublishTo, Next, Close | add and nudge race wait, gather, drain and take; heartbeat cuts | `EventsHub` |
| Change stream (`api/events.go`, `web/src/api/serverEvents.ts`) | the open answer; a window's connection and queries | connect, write, break, reconnect, invalidate, refetch | lost connections, answers older than the event they race | `EventStream` |
| Server mode switch (`internal/servermode`, the window's half in `cmd/lancast`) | two folders' databases, logs and copies; the service's registration and process; the window's own server | ToApp, ToService and their undoing; ensureServer; a reboot | an elevated helper that may fail or die at any step between two libraries | `ServerMode` |
| Watch Together rooms and requests (`internal/together`, `api/togetherfederation.go`) | rooms, members, last-seen; requests and cool-downs; grants in the database | Create, Join, Poll, Report, Leave, List, Playing; Ask, Accept, Decline, Withdraw, Status, Pending; a guest's call over federation | a sweep inside every call; retries over a lossy link; a grant read after the room was entered | `Together` |
| Library scanner (`internal/scan`, the item and location handlers) | rows of a library, its locations and ignore list; a scan's snapshot of them | start, walk, mark missing, reconcile, empty the trash, cancel; delete, forget, ignore; add and remove a location | what a scan read at its start is compared at its end; drives come and go; a cancellation anywhere | `Library` |
| Optimized copies (`api/optimized.go`, `internal/optimize`) | rows in the database, files, one converter | request, withdraw, convert, sweep, resume | withdrawal and crash during a conversion | `Optimized` |
| Self-update (`internal/selfupdate`, `internal/update`, `api/update.go`) | the staging directory and its manifest, the installed files, those set aside | download, Stage, Apply, rollback, Discard, CleanupOld, restart | a kill between two renames; leftovers of an earlier try | `SelfUpdate` |
| Guest tickets, nonces (`internal/guestticket`) | nonces spent, per peer, until they expire | Spend, Sweep | single use at the cap and at expiry | planned |
| Sign-in back-off (`internal/auth`) | failures per name, bounded | Allow, Fail, Reset | forgetting and eviction | planned |
| Port change (`serverapp/portchange.go`) | the configured address, the service | change, restart, verify, go back | a late answer | planned |
| Live buffer (`internal/livebuf`) | a bounded queue, a filler, a reader | fill, Read, Close | bound against lead | planned |
| Background workers | queues in the database | claim, work, mark | one worker each | not modelled |
| Peering (`internal/peer`, `api/rosterpush.go`) | peers, rosters, their as-of | pair, push, accept newest | reordered pushes | planned in part |
| Presence, task board, webhooks | maps behind one mutex | single critical sections | little | not modelled |
| Store, HTTP API | SQLite | some two hundred handlers and their SQL | transactions are SQLite's | not modelled |
| Probing, metadata, artwork, subtitles, comics, photos, faces | caches | parsing, inference, network clients | pure I/O or data | not modelled |
| Retro games, plugins, DLNA, live TV guides, desktop window, web screens | their own | calls into Windows, wazero, libretro, React | foreign code | not modelled |

How the modelled ones meet: HTTP handlers call the transcode manager; anything
that changes state publishes a topic on the hub; a handler of `GET /api/events`
reads its subscription and writes the topics to a window, whose hook
invalidates queries. The mode switch stops and starts whole servers, so it sees
none of these. A scan, a conversion of the optimizer and a viewer share only
ffmpeg's time: the optimizer waits while the transcode manager is converting
(`live` in `Optimized`). Watch Together publishes on the hub and keeps
everything else to itself. A self-update runs in the last moments of a process
that has let go of all of them. What makes each correct:

- transcode: no ffmpeg without an owner; a ceiling on sessions; one session per
  viewer and film; no session taken from somebody who waits on it; every
  session nobody reads ends;
- hub: no wake-up lost, every stream told of Close;
- stream: a published change reaches the screen, a screen never goes back;
- mode switch: whichever library opens next is the newest, nothing is
  overwritten, and a server answers in the end;
- Watch Together: nobody is in a room without the host's yes, a no holds for its
  time, the host's room outlives a late return, a revoked grant ends a visit;
- library: only what a walk of its directory did not list is marked missing or
  deleted, a cancelled scan marks nothing, and the rows come to match the disk;
- optimized copies: a ready row has its whole file, the files stay within the
  limit, every request is settled;
- self-update: the installed files are those of one release, never of an older
  one than before, and an offered release is installed in the end.

The hazards, each at its line with the properties aimed at it, are in
`PROJECT.json` ("hazards"); those no property covers carry a note that
says why.

## 2. Modules

| Module | What it is |
|---|---|
| `TranscodeSessions` | the manager, its request handlers, the reaper, shutdown, ffmpeg and time |
| `SessionLife` | abstract: the life of one session, which the above implements |
| `MCTranscodeSessions` | symmetry for TLC |
| `TranscodeProofs` | theorems on `TranscodeSessions` |
| `EventsHub` | the hub and the readers of its subscriptions |
| `Mailbox` | abstract: a set of topics per stream that leaves whole, which the hub implements |
| `HubProofs` | theorems on `EventsHub` |
| `EventStream` | `EventsHub` step by step (by `INSTANCE`), composed with the stream handler and the window |
| `StreamProofs` | theorems on `EventStream`, with those of `HubProofs` by `INSTANCE` |
| `ServerMode` | the two folders, the service, the window, and a switch in steps |
| `ModeProofs` | theorems on `ServerMode` |
| `Together`, `MCTogether`, `TogetherProofs` | rooms, requests, sweeps and a paired server's guests; an instance; theorems |
| `Library`, `MCLibrary`, `LibraryProofs` | one library and its scanner, the handlers that delete, the disks; an instance; theorems |
| `Optimized`, `MCOptimized`, `OptimizedProofs` | the worker that makes copies, its rows and files; an instance; theorems |
| `SelfUpdate`, `MCSelfUpdate`, `SelfUpdateProofs` | downloads, staging, the swap and its rollback; an instance; theorems |

### TranscodeSessions

`listed` is `Manager.sessions`; `info`, `ff`, `media`, `idle`, `served` are what
a `Session` holds, the process behind it, its playlist on disk and how long ago
it was touched. A request handler `h` is a program counter `pc[h]`; each action
is one hold of the manager's lock (`lookup`: the reuse loop; `own`, `other`:
the two supersedes; `reserve`: `reserve`; `start`; `insert`) or one step of a
wait. `dead[p]` holds the sessions a goroutine has removed from the table and
has yet to `Stop`; a handler does not go on while it has any, as in the code,
where `Stop` is called in place. The reaper's `dead` set also stands for the
goroutines of `StopSession` and `StopLive`, each of which does the same thing
and nothing after. `watching` records which account was handed which session's
playlist: it is the client's knowledge, and the input of segment requests.
`Callers` are who makes requests: the accounts of a server that has some, `Anon`
before it has any. `Events` says what else happens in a run, the clock included.

Abstracted: command lines, files other than the playlist (a segment is there
when the playlist is), which encoder, the scratch directory's names, a child
that will not die (`Stop` waits a bounded time and goes on).

### EventsHub, EventStream

A publisher holds the hub's lock while it goes through the subscribers, which is
`batch`, `todo` and `at`; a reader of a subscription does not take that lock, so
`Add` and `Nudge` are two steps and the reader's `CallNext`, `WindowOver`,
`Drain`, `Take` fall between them. `late` is a gathering window that the
handler's heartbeat can cut, which only happens to a reader that was woken after
waiting. `EventStream` adds the server's state per topic (`truth`), what has
been changed and not published, the connection, the window's `onopen` and
`onChanged`, and its queries: `stale` are invalidated ones, `answer` the
versions of those under way, a screen at 0 one that has no data yet. The query
cache is TanStack Query's and is external: an invalidation cancels what is under
way and asks again if the query has data; on its first fetch it joins the one under
way, whose success takes the mark away (`FirstFetch`). A topic has one query here.

### ServerMode

One machine. `db`, `log` and `incoming` are `lancast.db`, its `-wal` and
`lancast.db.incoming` in the two folders, a database being the version of its
content, `kept` what was set aside under other names. `at` is the helper's step;
ToApp and ToService share the steps they share in the code (copy, prove, place,
set aside). A step fails (`"step"`), and the code's undoing follows: `restore...`
for ToApp's deferred restore, `undo...` for `undoService`, `uncommit`. `Kill`
ends the helper and `Restart` the machine, at any step. Nobody writes to a service
that is still on trial (between its start and its answer): what such a write
would lose if the trial fails is outside these properties.

### Together

The Manager holds one mutex over rooms and requests, so each of its methods is
one action, the sweep it starts with included (`SweepRoom`, `SweepRequests`,
applied in the order of the code: `Poll` and `Report` write LastSeen first). A
room is its host, its members and the ticks since each was seen; a request is
its state, its pair, its room and its age. `remoteRoom` of the federation
handler is two actions, since it calls `JoinRemote` or `Poll`, lets go of the
mutex, and only then reads the grant: `RemoteCall`
puts `<<room, guest>>` in `checking`, `Check` reads `grant` and puts the guest
out again if it is gone. `Tick` makes everything older, `Restart` empties the
maps. Ages are capped at `MaxAge`, past every limit they are compared with.
`Ask` is one action, although `federationAskTogether` reads the grant (`mayAsk`)
before it takes the mutex: a grant revoked in between is read when the guest comes
in. `quiet` is history: what a host is owed after a no. Left out: the film's
position, names, and the change events, which the host alone decides.

### Library

A scan is a goroutine with a program counter: the reading of locations
(`ListRoots`), of the rows known in one (`ReadKnown`), each entry of its walk
(`Visit`, an upsert), the second check that the location is still there
(`Recheck`), `MarkMissing`, the hierarchy, the reconciliation of shows
(`Follow`), the trash and the end. `snap` is everything it has read and will not
read again. Around it, at any point: `Change` (a file written or removed),
`Remount` and `Block` (drives and directories), `Ignore`, `Delete`, `Forget` (the
modes of `deleteItem`, which takes several calls, `taking`), locations added and
removed, `Cancel` and `Restart`. Passes for music, photos, books and games have
their own reconciliation and are left out, as is what a name means.

### Optimized

The worker of `RunOptimizer` is `pc`; every database call and every file operation
is a step, and requests, withdrawals, playback, a stop (which cancels `ending`) and
a crash fall anywhere between. `older` is the order of `requested_at`, as a
relation, and strict; the column has whole seconds, and which of two requests of one
second comes first no property asks. `row` is the state column, `copy` and `part`
the two files a title may have. A conversion's size is any up to the estimate the
rate cap gives, if it re-encodes everything and the length is known (`Bounded`). The
decision may copy a stream as it is (`Copied`; `args.go:706-707`), where the cap
(`args.go:889-893`) has no effect: then, and for a title of unknown length, it is
any up to `Largest`. `stopped` is the conversion's own context, cancelled by the
goroutine that polls the row (`WatchRow`).

### SelfUpdate

What a file holds is the release it is of, or `Half`. A download is a goroutine
(`dpc`): the handler's check (`DownloadUpdate`), the goroutine saying that it is active
(`Begin`), the fetch, and `Stage` file by file (`Create`, `Fill`) and its manifest
(`Mark`). The process is `pc`: it starts (`Boot` with CleanupOld, `Discard`), runs,
and at a restart or a stop checks and applies: `Aside` and `Place` per file, each
of which may fail, then `PutBack` per file of what had moved, then `Commit` or
the end. A kill may fall anywhere, also in the middle of a RemoveAll; an
installer may bring any release. `cut` and `raced` are history: that the
installed files are what a kill in the middle of an Apply left (which the code
does not repair), and that two downloads were under way together or one staged as
the process went down. The handler refuses a download only while one is said to be
active. That the panel offers none while a release is staged is the client's doing
(`Ask`, `UpdateSettings.tsx:270`), and a second tab or another client may ask all the
same (`AskAnyway`).

## 3. Runs

Twelve, ten of which pass.

| Run | Instance | What it shows |
|---|---|---|
| `transcode_starts` | 2 requests of one viewer for a film, HLS or progressive, 2 positions, 4 ids, 2 slots | the ceiling is passed by at most the other requests at work (`CeilingOvershoot`); seeks that overlap leave no more sessions than requests (`SeeksLeaveNothing`) |
| `transcode_life` | 2 requests for a film or a channel, 2 ids, 1 slot, segments, time, failing ffmpegs, administrators, shutdown | `TypeOK`, `NoOrphan`; a film being played is neither reaped nor evicted while a segment request waits on it (`PlayedSessionKept`); every session lives `SessionLife` (`ImplementsLife`) |
| `transcode_fair` | one player, HLS and fallback, 2 positions, segments, failing ffmpegs, time, fairness | a playlist request comes back (`PlaylistAnswered`); an unread session goes, and what left the table is stopped (`SessionsEnd`) |
| `hub` | 2 streams, 2 accounts, 2 topics, fairness | `TypeOK`, `NoTopicStranded`, `ClosedReachesAll`; implements `Mailbox` with its liveness |
| `stream` | 1 window, 2 connections, 1 topic, 1 change, fairness | `NeverBackwards`, `ChangeReachesScreen` |
| `mode_switch` | 2 writes, 2 failing steps (neither a late stop nor a torn rename), 2 deaths, fairness | `FoundNewest`, `NoForeignLog`, `NothingOverwritten`, `EndsServing` |
| `together` | 2 accounts, 1 guest, 1 room, 2 requests, limits of 1 and 2 ticks, fairness | nobody is in a room unaccepted (`OnlyByConsent`); one open request per asker (`OneOpenRequest`); a late host keeps its room (`OnTimeKeepsRoom`); a no is final, and holds for its cool-down unless the asker withdrew (`NoMeansNo`); a revoked guest leaves (`RevokedStops`) |
| `library` | 2 locations, one on a drive, a file in each, one an episode, 3 happenings, fairness | a show with an episode is never hidden (`NoHiddenEpisode`); only what the walk did not list goes (`OnlyUnlistedGo`); a cancelled scan marks nothing (`CancelMarksNothing`); nothing is written after the scan is announced (`NothingAfterFinished`); the library comes to match the disk (`ComesToMatch`) |
| `optimized` | 3 titles, one of unknown length, one whose video is copied, a limit for one and a half, 5 happenings, fairness | `ReadyIsWhole`, `LimitKept`, and every request is settled (`Settles`) |
| `self_update` | 3 releases, the second with a file more, 2 downloads, also over a staged release, 2 faults, kills or installs, fairness | `WholeRelease`, `NeverDowngrades`, and the newest release is installed in the end (`UpdatesAtLast`) |
| `stream_stale`, `library_trash` | small | the two disagreements at the head of section 6 |

Why the bounds are enough. Two handlers are what any race of the table needs,
since a step of one disables or misleads a step of another; the theorems of
section 5 remove the bound where it matters. An id of `Sessions` is used once:
two are a session and the one that replaces it, which is what `transcode_life` needs
for a reaped or evicted film, and four are what overlapping starts have to make, with
two slots, for the ceiling to be passed by more than it may be. `transcode_starts` has
no clock, so nothing is reaped in it, and a grace of 0, so that any session may be
the one evicted: how long a session was idle is not what its two properties are about.
In `transcode_life` the limits keep the code's order: an unread or live session's
limit and the playlist wait (30 s each, here 1 tick) below the segment wait (60 s, 2),
that below the eviction grace (90 s, 3), that below the idle timeout (10 min, 4), so
that a film may be waited on for longer than an unread one is kept. `transcode_fair`
asks nothing of that order and uses fewer ticks. In `together`
one room and one pair are what a request, its room and a cool-down relate, a second
request what a retry makes, and the second account the host's other possible
member; the theorems are for any number. In `library` a file in each of two
locations separates what a walk of one says of the other, an episode and a film
separate the two rules for rows, and three happenings allow a removal, a return
and a cancellation in one behaviour. In `optimized` two titles of two units and a
limit of three make each other's copies impossible, one of them by a copied stream
that its estimate does not bound, the third has no estimate;
five happenings allow a withdrawal, a new request, playback, a stop and a crash. In
`self_update` the second release adds a file, so that a rollback meets one with
nothing to put back, and a third release is what overtakes a staged one; two faults
allow a failed Apply and a kill, an installer over what a broken download left, or a
download asked for again and a stop.
In `stream` one change and one reconnection
are what a lost or reordered event needs. In `mode_switch` two failures and two
deaths let an undoing fail and a second switch start from what a dead one left.

Deadlock checking is off in all runs: clients may fall silent, ids run out, a
hub may be closed and a machine left alone.

## 4. Fairness

- Transcode: handlers that are not serving go on, `Stop` returns, the reaper's
  ticker fires and time passes. `Stop` bounds its wait, file waits have
  deadlines, the reaper is a `for` over a ticker. Clients (`Begin`,
  `SegmentRequest`), a pipe's reads and ffmpeg (`Write`, `Finish`, `Fail`) get none.
- Hub: a publisher finishes its loop, a handler goes on calling `Next`, the
  window timer fires, Close finishes its list. Nobody need publish, leave or close.
- Stream: as the hub, and a change is published (strong fairness, because the
  hub's lock is free only between publishers; Go's mutexes do not starve), a
  window reconnects (`EventSource` does), runs its handlers and gets its answers.
- Together: time passes; the handler of a guest's call reads the grant (strong:
  the read may fail, but not for ever while the guest goes on calling), and an
  asker's server keeps asking for the answer (`Status`), which is how it learns of
  it. No host need answer.
- Library: a scan's goroutine runs on, and scans are started again (at start, on
  a timer and by people).
- Optimized: the worker's loop and the row's watcher run; a cancelled process
  context is noticed between two passes (`Return`, strong: the `select` may choose
  the ticker, but not always); a process told to stop ends, and the service manager
  starts it again. Nobody need request, withdraw or stop watching.
- Self-update: the process starts, applies, and downloads go on; an
  administrator takes what the panel offers, a download while nothing is staged (`Ask`)
  and a restart (`UpdateSettings.tsx:249-288`). Without that last one nothing promises
  an update. Nobody need ask for a download over a staged release (`AskAnyway`).
- Mode: the helper's steps run, a booting or stopping service does so, a window
  without a server calls `ensureServer`. No person need do anything.

## 5. Proofs

Checked by TLAPS for all values of the constants, under the modules' ASSUMEs
only (`ModelAssumption`: finite sets of handlers and ids, disjoint names,
natural limits, a ceiling of at least one; `HubAssumption` and
`StreamAssumption`: `NoSub` is no stream or account; `OptimizedAssumption`:
finitely many titles; the others are named below). Where a theorem adds a
hypothesis, what fails without it is in section 6.

A liveness property cannot be proved here, and most of them rest on a safety
property that can: that what is on its way stays on its way, that nothing is left
in a state no step leaves. Where a paragraph below says *safety half*, that is
what it proves. Those formulas stand in the proof modules, and no run lists them.

`TranscodeProofs`
- `TypeCorrect`: `TypeOK`. Not inductive alone: a handler at `insert` must hold
  a used session, so `TypeInv` adds what each step has in hand (`HandOK`) and
  that the table holds used ids only (`TableOK`).
- `NothingOrphaned`: `NoOrphan`, inductive over `TypeInv`; one lemma for a
  handler's steps, one for the rest. Every removal goes through `Delist`, which
  hands the session to a stopper, and a start hands it to its starter.
- `OvershootBounded`: `CeilingOvershoot`, for any number of handlers. The
  induction weighs table and starters together: a handler that passes `reserve`
  saw a free slot and is one of the `|Handlers|` that can; an eviction makes room
  for the one that follows.
- `WatchedSessionKept`: `PlayedSessionKept`, if `SegWait` is no longer than the idle
  limit and shorter than the eviction grace. `WaitsInTime` relates the two clocks: a
  session somebody waits on has been idle no longer than that wait has taken, and no
  wait takes longer than `SegWait`. With the unread limit, which is shorter than the
  wait, this is what fails for a film nobody has been served (section 6).
- `SeeksBounded`: `SeeksLeaveNothing`, with `OwnSession` (what a handler inserts was
  made for its own request): a seek supersedes all that is listed before it counts
  itself as asking, and the session it lists is the one it was counted for.
- `ManagerImplementsLife`: `ImplementsLife`. The invariant `OnePlace`: a session is in
  the hand of one handler that inserts it, or in the table, or owed a `Stop` by one
  goroutine. Every action is then one step of `SessionLife`: starts launch, `Insert`
  lists, every `Delist` dooms, whatever it takes, and `StopOne` ends.

`HubProofs`
- `HubTypeCorrect`; `CloseIsTotal`, from the strengthening `Registered` (an open
  stream is registered, or the hub is closed and it is finished or on Close's
  list; a publisher's list is part of the hub's);
- `NoLostWakeUp`: `NoTopicStranded`, inductive over `TypeOK` and `Registered`;
- `HubImplementsMailbox`: every step is a step of `Mailbox` or a stutter, the
  safety half of `ImplementsMailbox`.

`StreamProofs` (`Topics` and `Windows` any sets)
- `StreamTypeCorrect`: `TypeOK`; `StreamRunsTheHub`: each step of the composition is a
  step of `EventsHub` or leaves it alone.
- `StreamsStrandNothing`, `StreamsAreMailboxes`: so what `HubProofs` shows of the hub
  alone holds in the composition, by citing its theorems through an instance:
  `NoTopicStranded` and `ClosedReachesAll`, and the mailbox.
- `ChangesNeverForgotten`: the safety half of `ChangeReachesScreen`, across every
  part. `OnItsWay` lists the places a change can be between the server and a screen
  (not said yet, with a publisher that has the stream still to do, in the stream's
  topics, on the wire, in a query to ask again or under way, on the screen); no step
  takes it out of all of them unless the window's stream breaks. A query on its
  first fetch is excepted, where an event leads to nothing: an answer under way
  counts for a change only if it is as new, and the event only once the query has
  data or is idle. It needs that windows do not share streams, `QueryInv`, and
  `Registered` of the hub (`WayInv`).
- `ScreenNeverGoesBack`: `NeverBackwards`. The invariant `QueryInv` says that a
  query has at most one answer under way, none while it is invalidated, and that
  the answer lies between what the screen shows and the server's state: without
  the first, an older answer could come after a newer one. The handler, the hub and
  the connection do not touch it (`Elsewhere`).

`ModeProofs` (any number of writes, failing steps and deaths)
- `ModeTypeCorrect`: `TypeOK`, whatever `Faults` holds, with `Whole` (the copy being
  proved or named is not a partial one).
- `LibraryFound`, `LogsGoWithTheirLibrary`, `LibrariesAreKept`: `FoundNewest`,
  `NoForeignLog`, `NothingOverwritten`, under the assumption that no rename of a
  folder's files stops halfway (`"tear" \notin Faults`), which is needed: with it
  TLC refutes them (section 6). The step itself and a late stop may fail at will.
  Where a switch stands is what has to be strengthened: `Servers` (who may run
  over which folder), `CopyReady` (from when on the copy is whole, its place free
  and no log waiting there), `ToApp` and `ToService` (which of the two folders has
  the newest library at which step). One lemma per step, then one per helper's
  choice between a step, its failure and its undoing.
- `NoneMadeEmpty`: `NoEmptyLibrary`, under the same assumption: whoever starts a server
  over a folder, it has its library.
- `SwitchesLeaveAServer`: the safety half of `EndsServing`. No switch with at most one
  failed step ends with the library at a service that is stopped, which nothing would
  start again: `ensureServer` waits for it. Beside `"tear"` it excludes the late stop
  (`"slow" \notin Faults`), as the run does. `Attended` says why: undoing is only for a
  switch that has failed, so no step of it fails again, and while the service that has
  the library is down a step that starts it is still to come.

`TogetherProofs` (`TogetherAssumption`: disjoint people, pairs of them, positive limits)
- `RoomsAreHosted`: `TypeOK`, `OnlyByConsent` and that an open room has its host in
  it (`HostPresent`), inductive with `WellAsked` (a request's pair is one that can
  see each other, and only an accepted one has a room); `TogetherTypeCorrect` is its
  first part;
- `OnePrompt`: `OneOpenRequest`;
- `NoIsANo`: `NoMeansNo`, from `Owing`: what a host is owed after a decline or a lapse
  is written in the cool-down, or still in the one request that has timed out and
  that no sweep has seen yet;
- `HeardHostKeepsRoom`: `OnTimeKeepsRoom`, from the order in which a call writes
  LastSeen and sweeps;
- `GuestsEarnTheirStay`: the safety half of `RevokedStops`. A guest enters, or has its
  silence forgotten, only by the host's yes to its own request or by a call after
  which its grant is read; no call of somebody else and no sweep does it.

`SelfUpdateProofs` (`UpdateAssumption`: every release has the program)
- `UpdateTypeCorrect`, `OneRelease`, `UpdateNeverDowngrades`: `TypeOK`,
  `WholeRelease`, `NeverDowngrades`, from one invariant in three parts. `Current`
  holds always: what a download brings, and a manifest once the start has swept, is
  newer than what runs, which is what the program's file or its backup holds. `Calm`
  holds unless two downloads overlapped or one staged as the process went down: one
  download at a time, none that writes while there is a manifest (`Quiet`: staging
  over a release removes its manifest first), which names what all the staged files
  are of. `Kept` holds unless, besides, a kill cut an Apply: at rest the installed
  files are one release's, in an Apply each is the old release's or has a backup of
  it, and those placed are the new one's, so that both ends of an Apply leave one
  release.
- `AppliesOrRestores`: and which one: the release it staged, newer than what ran, or
  the one it was to replace.
- `UpdatesCanGoOn`: the safety half of `UpdatesAtLast`: in a running server what is
  staged is newer and no download writes to it, even one asked for over it, and a
  download is said to be under way only while there is a goroutine that will say it
  is over.

`LibraryProofs` (`LibraryAssumption`: locations and files that fit)
- `LibraryTypeCorrect`: `TypeOK`, with `Ended` (a scan that is over has an outcome,
  or publishing it would be ill-typed).
- `GoneWereUnlisted`, `CancelledMarksNothing`, `SilentAfterwards`: `OnlyUnlistedGo`,
  `CancelMarksNothing`, `NothingAfterFinished`. Whether a file may go is decided at
  the end of the walk from what was read at its start, so the invariant follows the
  scan: `Wanted` (who stayed is not ignored and its location is kept), `Walks` (in
  the location being walked, whoever stayed and was passed is listed and not
  missing, or noted as unlisted), `Covered` (in every location already walked, what
  is missing was unlisted, unless a location was skipped). Everything around a scan
  only takes rows away, which is one lemma (`Meanwhile`).
- `EpisodesShow`: `NoHiddenEpisode`, which needs that nothing but the walk brings a
  row back and that no walk follows the reconciliation of the same scan.
- `CompleteScansMissNothing`: the safety half of `ComesToMatch`. When a scan that skipped
  no location completes, every file that was there since it began, wanted and listed
  by the walk, has its row and shows. `HasRows` adds to the invariant above that
  nobody is deleting such a file and that what was known or walked past has a row.

`OptimizedProofs`
- `OptimizedTypeCorrect`: `TypeOK`, which says too that the requests stand in one line
  (`InLine`): `older` orders all that were asked for, however they are withdrawn and
  asked for again.
- `ReadyCopiesAreWhole`: `ReadyIsWhole`, with what the worker has in hand: from the
  probe to the row its file is whole, its title is not ready meanwhile, and what
  the sweep removes belongs to titles nobody has converted since it looked.
- `CopiesWithinLimit`: `LimitKept`, which excepts one copy that its estimate does
  not bound (`Bounded`): one is begun only while the rest leaves room. What the
  worker saw room for is free until its row says ready (`Roomy`), since meanwhile no
  other row comes to say so. The bytes in use are counted as the cardinality of a
  set with that many elements per copy (`BytesOf`; `BytesAdd` is the lemma on what
  one more copy does to it): a sum over a set would need induction over data.
- `NoRequestStuck`: the safety half of `Settles`. A row says converting only while the
  worker has its title in hand, or the process is on its way down or up and will resume
  it; `StoppedIsGone` (what was stopped because its row went does not say so) is what
  makes it inductive: a request withdrawn and made again during its conversion
  must not be left in that state.

Only model-checked: everything under fairness (`SessionsEnd`, `PlaylistAnswered`,
the liveness half of `ImplementsMailbox`, `ChangeReachesScreen`, `EndsServing`,
`RevokedStops`, `ComesToMatch`, `Settles`, `UpdatesAtLast`), which is out of the
prover's reach. Of all but `PlaylistAnswered` a safety half is proved above
(`SessionsEnd`: `ManagerImplementsLife`). Every invariant and action property a
passing run lists is proved.

## 6. Where the code and its words differ

With a run:

1. `stream_stale`: the stream's head is sent, and the client's `onopen` runs,
   before the handler subscribes; a change in between is never heard of. After a
   reconnect a screen then stays behind, which `serverEvents.ts:84-87` says the refetch
   on reconnecting is the price to avoid.
2. `library_trash`: a drive comes back blank beside a location that is fine; the
   scan sees files in the one, marks the other's missing and empties the trash over
   them, which `trash.go:22-26` says its condition is there to prevent.

Without a run of their own. To see one of the properties named here fail, list it
in the configuration of the module's run, with the change given.

- `OneProgressivePerViewer` (`TranscodeSessions`, in `transcode_starts`): two
  progressive requests of one viewer arriving together both insert;
  `manager.go:518-528` says superseding makes it one per viewer and item.
- `SeekSparesOthers` (`TranscodeSessions`, in `transcode_starts` with two callers): reuse by
  item and offset does not look at the owner, so an account's seek ends a session
  another account was handed.
- `EndsServing` with `Faults = {"slow"}` (`ServerMode`): a service that outlasts
  Stop's deadline and stops afterwards is not started again: no server answers.
- `FoundNewest` and `NoEmptyLibrary` with `"tear"` in `Faults`: `setAside` fails on
  the `-wal` with the database already renamed; ToApp's undoing then starts the
  service over a folder without a library, which makes an empty one.
- `AcceptAdmits` (`Together`): `Accept` marks the request accepted before
  `joinLocked` (`request.go:199`), whose sweep may end that very room; the asker
  reads "accepted" and finds no room.
- `NoNagging` (`Together`): a withdrawal deletes the cool-down a decline left, so an
  asker who withdraws asks again at once; `NoMeansNo` excepts it.
- `StartsAgain` (`SelfUpdate`): killed between `Aside` and `Place` of the program,
  no executable is left under its name; `stage.go:34-35` says a crash leaves the
  install as it was or updated.
- `RecoversFromCut` (`SelfUpdate`): such an install is not made whole by the next
  start, although the manifest is still there and `stage.go:239` calls it recoverable.
- The premise `~raced` of `WholeRelease`: `downloadUpdate` (`api/update.go:54`) looks
  at `Progress.Active` only, which the goroutine sets once it runs, so two clicks
  start two downloads that stage into one directory; and it does not look at what is
  staged, so that one download asked for from a second tab over a staged release may
  stage while the shutdown applies it. Either way files of two releases may be
  installed together; with the newest program and an older library beside it,
  nothing is offered any more. `stage.go:34-35` says the worst outcome is an install
  that did not update.
- `ChangeReachesScreen` without its premise `~FirstFetch`: an event during a query's
  first fetch joins that fetch, which may have been answered before the change, and
  its success clears the mark; `serverEvents.ts:13-14` says a topic's queries refetch.
- The exception in `LimitKept`: `optimized.go:24-28` says the copies never pass the size
  limit, by an estimate of a re-encode's size. A decision may copy the video
  (`args.go:706-707`), also of unknown bit rate (`probe/decide.go:666`), and the rate
  cap (`args.go:889-893`) then has no effect.
- After a rollback the files that had been moved out of the staging directory are
  gone from it, so the next Apply finds one missing and discards:
  `main.go:1511-1512` says that the next shutdown tries again. Files the old
  release did not have stay installed, and the log says the install is unchanged.
- `EmptyTrash` counts on rows going with their show (`scanner.go:1146`), but
  `parent_id` has no cascade (`migrate.go:320`): while a missing show has a living
  episode the whole statement is refused (`TrashRefused`).
- Repointing a location matches `LIKE oldRoot%` (`store.go:3765-3770`), so it takes a
  sibling whose name begins with the location's along.
- `deleteItem`'s forget checks that the row is missing and deletes it in two calls;
  a scan that brings the file back in between loses its row until the next scan.
- The optimizer ignores errors of several of its database calls, and a folder or a
  limit changed in the settings does not reach a conversion under way.
- `reserve` (`manager.go:934`) counts the table only, so concurrent starts pass
  the ceiling the configuration names; `CeilingOvershoot` says by how much.
- `StopLive` stops the first session it meets (`manager.go:402`); its comment
  (385) speaks of the channel's session, and two viewers opening a channel at
  once make two. It also ends, for everybody, a session that `live.go:125` says
  is shared.
- `EnsureHLS` reuses a session whose ffmpeg has failed (`manager.go:624`): the
  request then waits for a file that nobody writes, until it gives up.
- A segment request touches its session once and may wait 60 s, while an unread
  session is reaped after 30 s (`api/transcode.go:226`, `manager.go:107-109`).
- At exit, the reaper's goroutine may hold sessions it has removed from the table
  and not yet stopped; `main` does not wait for it, so their ffmpegs are left.
  `NoOrphan` holds: they have an owner, which the exit ends.
- `undoService` uninstalls the service before it takes the copy's name away
  (`switch.go:325`): a death between leaves a machine-wide library without an owner.

## 7. Plan

Done: the transcode core, the hub, the stream, the mode switch, Watch Together, the
scanner, the optimizer and the self-update, with the theorems of section 5. What
would come next, in this order:

1. `Nonces` and `Backoff`: a nonce is spent once; a counting name is not forgotten
   early, except at the cap.
2. `PortChange`, the live buffer, the roster push between servers.
3. The scanner's passes for music, photos and books, and a repointed location.

## 8. Not modelled, and why

- The transcode manager's choice of encoder, its scratch files and its
  `ConvertFile`, which keeps no session; a hung child.
- The hub's heartbeat text; a stream's refusal to an account without a session.
- In Watch Together: the film's position and pauses (the host's last report wins),
  names and pictures, and the HTTP client of the other server.
- In the scanner: what names and tags mean, probing, the passes for music, photos,
  books and games, repointing.
- In the optimizer: renditions, a folder or a limit that changes, a database that
  fails for good.
- In the self-update: signatures and checksums, the helper that starts the process
  again, systems other than Windows (no archive for them can be opened).
- In the mode switch: pictures and settings copied beside the database, two
  windows switching at once, disks that fill.
- SQLite, HTTP, authentication, TLS, ffmpeg, the browser's query cache: external;
  what of them the modelled parts rely on is in actions marked external.
- The components marked "not modelled" in section 1: parsing, conversion, queries,
  foreign libraries and screens, with no order of steps to get wrong or none TLC
  could reach. They are most of the program by lines: of some 139,000, the store's
  SQL, the handlers that wrap it, parsers, network clients and the React screens
  hold a state only through the database, one transaction at a time.
