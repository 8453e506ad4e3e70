-------------------------- MODULE TranscodeSessions --------------------------
(***************************************************************************)
(* The transcode manager: a table of running ffmpeg sessions, the handlers *)
(* that start, reuse, supersede, evict and stop them, and the reaper.      *)
(* (internal/transcode/manager.go, session.go, live.go, segmentready.go,   *)
(* driven as internal/api/transcode.go and channellive.go drive it.)       *)
(*                                                                         *)
(* The table's mutex is held for single steps only: a start is a chain of  *)
(* separately locked steps with the blocking Stop calls between them, and  *)
(* each link of the chain is an action here.                               *)
(***************************************************************************)
EXTENDS Integers, FiniteSets

CONSTANTS
  Handlers,       \* request goroutines
  Sessions,       \* session ids; each is used at most once (a bound)
  Owners,         \* accounts
  Anon,           \* the owner "" of an unconfigured server and of a channel
  Callers,        \* who makes requests: accounts, or Anon without any account
  Films, Channels,\* item ids above and below zero
  Offsets,        \* start positions a client asks for
  SegmentSeconds, \* two positions nearer than this are one session
  Kinds,          \* the entry points a run exercises
  MaxSessions,    \* the ceiling
  UnreadIdle, LiveIdle, Grace, IdleTimeout, \* the four limits, in ticks
  FileWait, SegWait, \* how long a playlist and a segment are waited for
  NoSess,         \* no session: in no handler's hand, or an id never used
  Events          \* what else may happen in a run

Reaper == "reaper"  \* everything that stops a session off the request path
Main == "main"      \* the goroutine that ends the process
AllKinds == {"prog", "hls", "live", "livehls"}
AllEvents == {"clock", "segment", "fail", "stop", "shutdown"}

VARIABLES
  listed,    \* Manager.sessions: the ids in the table
  info,      \* per id: item, owner, output and start offset, or NoSess
  ff,        \* per id: its ffmpeg process
  media,     \* per id: what its playlist on disk holds
  idle,      \* per id: ticks since lastTouch
  served,    \* per id: whether a byte of picture has gone out
  pc,        \* per handler: where its call has got to
  call,      \* per handler: the request it is answering
  held,      \* per handler: the session it has in hand
  waited,    \* per handler: ticks spent waiting for a file
  dead,      \* per goroutine that stops sessions: those it has yet to Stop
  watching,  \* <<owner, id>>: players handed this session's playlist since they
             \* last asked for the film; one that closes its tab stays here and
             \* asks for nothing more, which is all the server sees of it
  phase      \* how far the process has got with ending

vars == <<listed, info, ff, media, idle, served, pc, call, held, waited,
          dead, watching, phase>>

Requests ==
  [kind : Kinds \cap {"prog", "hls"}, owner : Callers,
   item : Films, at : Offsets]
  \cup [kind : Kinds \cap {"live", "livehls"}, owner : Callers,
        item : Channels, at : {0}]

Infos == [item : Films \cup Channels, owner : Owners \cup {Anon},
          output : {"prog", "hls"}, at : Offsets \cup {0}]

ASSUME ModelAssumption ==
  /\ IsFiniteSet(Handlers) /\ IsFiniteSet(Sessions)
  /\ Handlers \cap {Reaper, Main} = {}
  /\ NoSess \notin Sessions \cup Infos
  /\ Anon \notin Owners
  /\ Callers \subseteq Owners \cup {Anon}
  /\ Films \cap Channels = {}
  /\ Offsets \subseteq Int
  /\ SegmentSeconds \in Nat
  /\ Kinds \subseteq AllKinds
  /\ Events \subseteq AllEvents
  /\ MaxSessions \in Nat \ {0}
  /\ {UnreadIdle, LiveIdle, Grace, IdleTimeout, FileWait, SegWait} \subseteq Nat

Pcs == {"idle", "lookup", "own", "other", "reserve", "start", "insert",
        "serving", "file", "endlist", "segment"}

\* A call that has passed its last look at the table and will add to it.
Starting == {"start", "insert"}

\* A segment request names its session, so its record has no item.
SegmentCalls == [kind : {"segment"}, owner : Owners \cup {Anon}]

Stoppers == Handlers \cup {Reaper, Main}
\* "draining": the reaper has seen the context end and run StopAll; "cleared":
\* that call has returned; "leaving": the deferred StopAll has run.
Phases == {"up", "draining", "cleared", "leaving", "exited"}

Limits == {UnreadIdle, LiveIdle, Grace, IdleTimeout}
NoCall == [kind |-> "none"]

TypeOK ==
  /\ listed \subseteq Sessions
  /\ info \in [Sessions -> Infos \cup {NoSess}]
  /\ ff \in [Sessions -> {"none", "running", "exited", "failed", "killed"}]
  /\ media \in [Sessions -> {"none", "growing", "complete"}]
  /\ idle \in [Sessions -> Nat]
  /\ served \in [Sessions -> BOOLEAN]
  /\ pc \in [Handlers -> Pcs]
  /\ call \in [Handlers -> Requests \cup SegmentCalls \cup {NoCall}]
  /\ held \in [Handlers -> Sessions \cup {NoSess}]
  /\ waited \in [Handlers -> Nat]
  /\ dead \in [Stoppers -> SUBSET Sessions]
  /\ watching \subseteq (Owners \cup {Anon}) \X Sessions
  /\ phase \in Phases

Init ==
  /\ listed = {}
  /\ info = [s \in Sessions |-> NoSess]
  /\ ff = [s \in Sessions |-> "none"]
  /\ media = [s \in Sessions |-> "none"]
  /\ idle = [s \in Sessions |-> 0]
  /\ served = [s \in Sessions |-> FALSE]
  /\ pc = [h \in Handlers |-> "idle"]
  /\ call = [h \in Handlers |-> NoCall]
  /\ held = [h \in Handlers |-> NoSess]
  /\ waited = [h \in Handlers |-> 0]
  /\ dead = [p \in Stoppers |-> {}]
  /\ watching = {}
  /\ phase = "up"

-----------------------------------------------------------------------------
(* Helpers.                                                                *)

IsLive(s) == info[s].item \in Channels
SameOffset(a, b) == LET d == a - b IN (IF d < 0 THEN -d ELSE d) < SegmentSeconds

\* A live session records no owner; every kind but "hls"/"livehls" is a pipe.
OutputOf(r) == IF r.kind \in {"hls", "livehls"} THEN "hls" ELSE "prog"
OwnerOf(r) == IF r.kind \in {"live", "livehls"} THEN Anon ELSE r.owner
\* Mutant: a session records the route that asked for it.
InfoOfRoute(r) == [item |-> r.item, owner |-> OwnerOf(r), output |-> r.kind, at |-> r.at]

InfoOf(r) == [item |-> r.item, owner |-> OwnerOf(r), output |-> OutputOf(r),
              at |-> r.at]

\* Mutant: a film that served picture is kept no longer than an unread one.
IdleLimitUnserved(s) ==
  IF IsLive(s) /\ LiveIdle > 0 THEN LiveIdle
  ELSE IF /\ info[s].output = "hls" /\ ~IsLive(s)
          /\ UnreadIdle > 0 /\ UnreadIdle < IdleTimeout
       THEN UnreadIdle ELSE IdleTimeout

IdleLimit(s) ==
  IF IsLive(s) /\ LiveIdle > 0 THEN LiveIdle
  ELSE IF /\ info[s].output = "hls" /\ ~IsLive(s) /\ ~served[s]
          /\ UnreadIdle > 0 /\ UnreadIdle < IdleTimeout
       THEN UnreadIdle ELSE IdleTimeout

\* Mutant: a session that served picture gets no more grace than an unread one.
EvictionGraceUnserved(s) == IF UnreadIdle = 0 \/ UnreadIdle > Grace THEN Grace ELSE UnreadIdle

EvictionGrace(s) ==
  IF served[s] \/ UnreadIdle = 0 \/ UnreadIdle > Grace THEN Grace ELSE UnreadIdle

\* The sessions a lookup may answer from. The owner is not compared.
Reusable(r) ==
  {s \in listed : /\ info[s].item = r.item
                  /\ info[s].output = "hls"
                  /\ r.kind = "hls" => SameOffset(info[s].at, r.at)}

\* Mutant: a seek spares a finished remux too.
SupersededUnfinished(r, out, spareFinished) ==
  IF r.owner = Anon THEN {}
  ELSE {s \in listed : /\ info[s].output = out
                       /\ info[s].item = r.item
                       /\ info[s].owner = r.owner
                       /\ media[s] # "complete"}

\* What superseding takes off the table: this owner's sessions for this item
\* delivered this way; a fallback spares a finished remux.
Superseded(r, out, spareFinished) ==
  IF r.owner = Anon THEN {}
  ELSE {s \in listed : /\ info[s].output = out
                       /\ info[s].item = r.item
                       /\ info[s].owner = r.owner
                       /\ ~(spareFinished /\ media[s] = "complete")}

Evictable ==
  {s \in listed : idle[s] >= EvictionGrace(s)}

Unused == {s \in Sessions : info[s] = NoSess}
\* Bounds the model: a call begins only while an id is left for it.
IdLeft == Cardinality(Unused) > Cardinality({h \in Handlers : pc[h] \in
            {"lookup", "own", "other", "reserve", "start"}})

\* The server accepts requests; handlers already inside go on until the exit.
Accepting == phase \in {"up", "draining", "cleared"}
Alive == phase # "exited"

\* A handler steps on once the Stop calls of its last step have returned.
At(h, where) == Alive /\ pc[h] = where /\ dead[h] = {}
Goto(h, where) == pc' = [pc EXCEPT ![h] = where]
Hold(h, s) == held' = [held EXCEPT ![h] = s]
Delist(p, gone) == /\ listed' = listed \ gone
                   /\ dead' = [dead EXCEPT ![p] = @ \cup gone]
Touch(s) == idle' = [idle EXCEPT ![s] = 0]

\* The handler returns.
Return(h) == /\ Goto(h, "idle")
             /\ Hold(h, NoSess)
             /\ call' = [call EXCEPT ![h] = NoCall]
             /\ waited' = [waited EXCEPT ![h] = 0]

processVars == <<info, ff, media>>
tableVars == <<listed, dead>>
callVars == <<call, held, waited>>

-----------------------------------------------------------------------------
(* A request that may start a session.                                     *)

\* Where each entry point takes the lock first.
FirstStep == [hls |-> "lookup", livehls |-> "lookup", prog |-> "own", live |-> "reserve"]

\* transcodeStream, hlsPlaylist, channelLive, channelLiveHLS. The player that
\* asks for a film has left whatever it was playing of it.
Begin(h, r) ==
  /\ Accepting /\ pc[h] = "idle" /\ dead[h] = {}
  /\ IdLeft
  /\ call' = [call EXCEPT ![h] = r]
  /\ Goto(h, FirstStep[r.kind])
  /\ watching' = {w \in watching : w[1] # r.owner \/ info[w[2]].item # r.item}
  /\ UNCHANGED <<listed, info, ff, media, idle, served, held, waited, dead, phase>>

\* The reuse loop of EnsureHLS and LiveHLS, under the lock.
Reuse(h) ==
  /\ At(h, "lookup")
  /\ \E s \in Reusable(call[h]) :
       /\ Touch(s) /\ Hold(h, s) /\ Goto(h, "file")
  /\ UNCHANGED <<tableVars, processVars, served, call, waited, watching, phase>>

LookupMiss(h) ==
  /\ At(h, "lookup")
  /\ Reusable(call[h]) = {}
  /\ Goto(h, IF call[h].kind = "hls" THEN "own" ELSE "reserve")
  /\ UNCHANGED <<tableVars, processVars, callVars, idle, served, watching, phase>>

\* supersede and supersedeHLS: the same delivery of the same film.
SupersedeOwn(h) ==
  /\ At(h, "own")
  /\ Delist(h, Superseded(call[h], OutputOf(call[h]), FALSE))
  /\ Goto(h, "other")
  /\ UNCHANGED <<processVars, callVars, idle, served, watching, phase>>

\* supersedeOutput: the other delivery. A fallback from HLS spares a finished
\* remux; a progressive session has no playlist and is never finished.
SupersedeOther(h) ==
  /\ At(h, "other")
  /\ Delist(h, IF call[h].kind = "prog"
               THEN Superseded(call[h], "hls", TRUE)
               ELSE Superseded(call[h], "prog", FALSE))
  /\ Goto(h, "reserve")
  /\ UNCHANGED <<processVars, callVars, idle, served, watching, phase>>

\* Mutant: the ceiling compared with <=.
ReserveFreeOff(h) ==
  /\ At(h, "reserve")
  /\ Cardinality(listed) <= MaxSessions
  /\ Goto(h, "start")
  /\ UNCHANGED <<tableVars, processVars, callVars, idle, served, watching, phase>>

\* reserve with a slot free. Nothing is written down: the slot is counted
\* again only when the session is in the table.
ReserveFree(h) ==
  /\ At(h, "reserve")
  /\ Cardinality(listed) < MaxSessions
  /\ Goto(h, "start")
  /\ UNCHANGED <<tableVars, processVars, callVars, idle, served, watching, phase>>

\* Mutant: the victim is taken off the table and never stopped.
ReserveEvictLeaks(h) ==
  /\ At(h, "reserve")
  /\ Cardinality(listed) >= MaxSessions
  /\ \E v \in Evictable :
       /\ \A s \in Evictable : idle[s] <= idle[v]
       /\ listed' = listed \ {v}
  /\ Goto(h, "start")
  /\ UNCHANGED <<dead, processVars, callVars, idle, served, watching, phase>>

\* reserve at the ceiling: the longest idle of those past their grace goes.
ReserveEvict(h) ==
  /\ At(h, "reserve")
  /\ Cardinality(listed) >= MaxSessions
  /\ \E v \in Evictable :
       /\ \A s \in Evictable : idle[s] <= idle[v]
       /\ Delist(h, {v})
  /\ Goto(h, "start")
  /\ UNCHANGED <<processVars, callVars, idle, served, watching, phase>>

\* ErrTooManySessions.
ReserveRefuse(h) ==
  /\ At(h, "reserve")
  /\ Cardinality(listed) >= MaxSessions
  /\ Evictable = {}
  /\ Return(h)
  /\ UNCHANGED <<tableVars, processVars, idle, served, watching, phase>>

\* startHLS and startProgressive: ffmpeg runs before anything can find it.
Start(h) ==
  /\ At(h, "start")
  /\ \E s \in Unused :
       /\ info' = [info EXCEPT ![s] = InfoOf(call[h])]
       /\ ff' = [ff EXCEPT ![s] = "running"]
       /\ Hold(h, s)
  /\ Goto(h, "insert")
  /\ UNCHANGED <<tableVars, media, idle, served, call, waited, watching, phase>>

StartFails(h) ==
  /\ "fail" \in Events /\ At(h, "start")
  /\ Return(h)
  /\ UNCHANGED <<tableVars, processVars, idle, served, watching, phase>>

Insert(h) ==
  /\ At(h, "insert")
  /\ listed' = listed \cup {held[h]}
  /\ Goto(h, IF info[held[h]].output = "hls" THEN "file" ELSE "serving")
  /\ UNCHANGED <<dead, processVars, callVars, idle, served, watching, phase>>

-----------------------------------------------------------------------------
(* Answering a playlist request.                                           *)

Answer(h) == /\ watching' = watching \cup {<<call[h].owner, held[h]>>}
             /\ Return(h)

\* WaitForFile sees the playlist; one known to be complete, and a channel's, is
\* answered at once.
PlaylistReady(h) ==
  /\ At(h, "file") /\ media[held[h]] # "none"
  /\ Answer(h)
  /\ UNCHANGED <<tableVars, processVars, idle, served, phase>>

\* A growing playlist is held back until its remux ends (WaitForEndlist, which
\* touches the session all the while).
HoldForEndlist(h) ==
  /\ At(h, "file") /\ media[held[h]] # "none"
  /\ call[h].kind = "hls"
  /\ Touch(held[h])
  /\ Goto(h, "endlist")
  /\ UNCHANGED <<tableVars, processVars, callVars, served, watching, phase>>

\* The remux ended, failed, stalled or took too long: what there is is sent.
EndlistOver(h) ==
  /\ At(h, "endlist") /\ media[held[h]] # "none"
  /\ Answer(h)
  /\ UNCHANGED <<tableVars, processVars, idle, served, phase>>

\* Mutant: the wait for a playlist has no deadline.
GiveUpSegmentsOnly(h) ==
  /\ pc[h] \in {"endlist", "segment"} /\ At(h, pc[h])
  /\ Return(h)
  /\ UNCHANGED <<tableVars, processVars, idle, served, watching, phase>>

\* The client left, ffmpeg ended without the file, or the wait timed out.
GiveUp(h) ==
  /\ pc[h] \in {"file", "endlist", "segment"} /\ At(h, pc[h])
  /\ Return(h)
  /\ UNCHANGED <<tableVars, processVars, idle, served, watching, phase>>

-----------------------------------------------------------------------------
(* Delivering picture.                                                     *)

\* hlsSegment: found and touched, or 404, at which the player stops.
SegmentRequest(h, w) ==
  /\ "segment" \in Events /\ Accepting
  /\ pc[h] = "idle" /\ dead[h] = {}
  /\ IF w[2] \in listed
     THEN /\ Touch(w[2]) /\ Hold(h, w[2]) /\ Goto(h, "segment")
          /\ call' = [call EXCEPT ![h] = [kind |-> "segment", owner |-> w[1]]]
          /\ UNCHANGED watching
     ELSE /\ watching' = watching \ {w}
          /\ UNCHANGED <<idle, held, pc, call>>
  /\ UNCHANGED <<tableVars, processVars, served, waited, phase>>

\* WaitForSegment finds the file and it is sent; nothing touches the session.
SegmentServed(h) ==
  /\ At(h, "segment") /\ media[held[h]] # "none"
  /\ served' = [served EXCEPT ![held[h]] = TRUE]
  /\ Return(h)
  /\ UNCHANGED <<tableVars, processVars, idle, watching, phase>>

\* sessionReader.Read.
Read(h) ==
  /\ At(h, "serving") /\ ff[held[h]] = "running"
  /\ Touch(held[h])
  /\ served' = [served EXCEPT ![held[h]] = TRUE]
  /\ UNCHANGED <<tableVars, processVars, pc, callVars, watching, phase>>

\* Mutant: the reader stops its session whether or not it is still in the table.
CloseAlways(h) ==
  /\ At(h, "serving")
  /\ Delist(h, {held[h]})
  /\ Return(h)
  /\ UNCHANGED <<processVars, idle, served, watching, phase>>

\* sessionReader.Close, on end of file or because the client left: Manager.Stop.
Close(h) ==
  /\ At(h, "serving")
  /\ Delist(h, {held[h]} \cap listed)
  /\ Return(h)
  /\ UNCHANGED <<processVars, idle, served, watching, phase>>

-----------------------------------------------------------------------------
(* Stopping.                                                               *)

\* Mutant: Stop does nothing for an ffmpeg that has ended.
StopOneRunning(p, s) ==
  /\ Alive /\ s \in dead[p] /\ ff[s] = "running"
  /\ dead' = [dead EXCEPT ![p] = @ \ {s}]
  /\ ff' = [ff EXCEPT ![s] = "killed"]
  /\ media' = [media EXCEPT ![s] = "none"]
  /\ UNCHANGED <<listed, info, idle, served, pc, callVars, watching, phase>>

\* Session.Stop, by whoever took the session off the table.
StopOne(p, s) ==
  /\ Alive /\ s \in dead[p]
  /\ dead' = [dead EXCEPT ![p] = @ \ {s}]
  /\ ff' = [ff EXCEPT ![s] = IF @ = "running" THEN "killed" ELSE @]
  /\ media' = [media EXCEPT ![s] = "none"]
  /\ UNCHANGED <<listed, info, idle, served, pc, callVars, watching, phase>>

\* Mutant: a finished session is never reaped.
ReapUnfinished ==
  /\ phase = "up"
  /\ \E s \in listed : idle[s] > IdleLimit(s) /\ ff[s] = "running"
  /\ Delist(Reaper, {s \in listed : idle[s] > IdleLimit(s) /\ ff[s] = "running"})
  /\ UNCHANGED <<processVars, idle, served, pc, callVars, watching, phase>>

\* reap takes everything past its limit, in one hold of the lock.
Reap ==
  /\ phase = "up"
  /\ \E s \in listed : idle[s] > IdleLimit(s)
  /\ Delist(Reaper, {s \in listed : idle[s] > IdleLimit(s)})
  /\ UNCHANGED <<processVars, idle, served, pc, callVars, watching, phase>>

\* StopSession, an administrator's button; StopLive, a viewer leaving a channel,
\* which ends the first session it meets.
StopSession(s) ==
  /\ "stop" \in Events /\ Accepting /\ s \in listed
  /\ Delist(Reaper, {s})
  /\ UNCHANGED <<processVars, idle, served, pc, callVars, watching, phase>>

StopLive(c) ==
  /\ "stop" \in Events /\ Accepting
  /\ \E s \in listed : /\ info[s].item = c /\ info[s].output = "hls"
                       /\ Delist(Reaper, {s})
  /\ UNCHANGED <<processVars, idle, served, pc, callVars, watching, phase>>

\* The reaper's goroutine sees the context end and calls StopAll.
ReaperStopAll ==
  /\ "shutdown" \in Events /\ phase = "up"
  /\ phase' = "draining"
  /\ Delist(Reaper, listed)
  /\ UNCHANGED <<processVars, idle, served, pc, callVars, watching>>

\* ... and, its stops done, removes the whole scratch root.
ReaperCleared ==
  /\ phase = "draining" /\ dead[Reaper] = {}
  /\ phase' = "cleared"
  /\ media' = [s \in Sessions |-> "none"]
  /\ UNCHANGED <<tableVars, info, ff, idle, served, pc, callVars, watching>>

\* main's deferred StopAll, after the server shut down: every handler has
\* returned, or the grace ran out and their connections were closed under them.
\* A quit from inside reaches here without the context having ended.
MainStopAll ==
  /\ "shutdown" \in Events /\ Accepting
  /\ phase' = "leaving"
  /\ Delist(Main, listed)
  /\ UNCHANGED <<processVars, idle, served, pc, callVars, watching>>

\* The process ends when main returns, whatever the other goroutines are doing.
Exit ==
  /\ phase = "leaving" /\ dead[Main] = {}
  /\ phase' = "exited"
  /\ media' = [s \in Sessions |-> "none"]
  /\ UNCHANGED <<tableVars, info, ff, idle, served, pc, callVars, watching>>

-----------------------------------------------------------------------------
(* ffmpeg and the clock.                                                   *)

Write(s) ==
  /\ ff[s] = "running" /\ info[s].output = "hls" /\ media[s] = "none"
  /\ media' = [media EXCEPT ![s] = "growing"]
  /\ UNCHANGED <<tableVars, info, ff, idle, served, pc, callVars, watching, phase>>

\* The film is done; a channel never is.
Finish(s) ==
  /\ ff[s] = "running" /\ ~IsLive(s)
  /\ ff' = [ff EXCEPT ![s] = "exited"]
  /\ media' = [media EXCEPT ![s] = IF @ = "growing" THEN "complete" ELSE @]
  /\ UNCHANGED <<tableVars, info, idle, served, pc, callVars, watching, phase>>

Fail(s) ==
  /\ "fail" \in Events /\ ff[s] = "running"
  /\ ff' = [ff EXCEPT ![s] = "failed"]
  /\ UNCHANGED <<tableVars, info, media, idle, served, pc, callVars, watching, phase>>

\* One tick for every session in the table and every wait for a file. A wait at
\* its limit ends before the clock moves on.
Overdue(h) == \/ pc[h] = "file" /\ waited[h] >= FileWait
              \/ pc[h] = "segment" /\ waited[h] >= SegWait
Touched(s) == \E h \in Handlers : pc[h] = "endlist" /\ held[h] = s
\* Bounds the model: idleness is not counted beyond every limit.
Ticks(s) == /\ s \in listed /\ ~Touched(s)
            /\ \E limit \in Limits : idle[s] <= limit

Tick ==
  /\ "clock" \in Events /\ phase = "up"
  /\ \A h \in Handlers : ~Overdue(h)
  /\ \E s \in Sessions : Ticks(s)
  /\ idle' = [s \in Sessions |-> idle[s] + (IF Ticks(s) THEN 1 ELSE 0)]
  /\ waited' = [h \in Handlers |->
                  waited[h] + (IF pc[h] \in {"file", "segment"} THEN 1 ELSE 0)]
  /\ UNCHANGED <<tableVars, processVars, served, pc, call, held, watching, phase>>

-----------------------------------------------------------------------------
\* What one handler does with its call.
Step(h) ==
  \/ Reuse(h) \/ LookupMiss(h) \/ SupersedeOwn(h) \/ SupersedeOther(h)
  \/ ReserveFree(h) \/ ReserveEvict(h) \/ ReserveRefuse(h)
  \/ Start(h) \/ StartFails(h) \/ Insert(h)
  \/ PlaylistReady(h) \/ HoldForEndlist(h) \/ EndlistOver(h) \/ GiveUp(h)
  \/ SegmentServed(h) \/ Read(h) \/ Close(h)

Next ==
  \/ \E h \in Handlers : Step(h)
  \/ \E h \in Handlers, r \in Requests : Begin(h, r)
  \/ \E h \in Handlers, w \in watching : SegmentRequest(h, w)
  \/ \E p \in Stoppers, s \in Sessions : StopOne(p, s)
  \/ Reap
  \/ \E s \in Sessions : StopSession(s) \/ Write(s) \/ Finish(s) \/ Fail(s)
  \/ \E c \in Channels : StopLive(c)
  \/ ReaperStopAll \/ ReaperCleared \/ MainStopAll \/ Exit
  \/ Tick

Spec == Init /\ [][Next]_vars

\* Locks are held briefly, Stop is bounded, the reaper's ticker never stops and
\* every wait has a deadline. Nothing is assumed of clients or of ffmpeg.
Fairness ==
  /\ \A h \in Handlers : WF_vars(pc[h] # "serving" /\ Step(h))
  /\ \A p \in Stoppers, s \in Sessions : WF_vars(StopOne(p, s))
  /\ WF_vars(Reap)
  /\ WF_vars(Tick)

FairSpec == Spec /\ Fairness

-----------------------------------------------------------------------------
(* What holds.                                                             *)

\* The ceiling can be passed, because reserve writes nothing down, but only by
\* the calls that are between their reserve and their insert at one moment:
\* never by more than the requests in flight, less the one that saw it free.
InFlight == {h \in Handlers : pc[h] \in Starting}
CeilingOvershoot ==
  Cardinality(listed) + Cardinality(InFlight)
    <= MaxSessions + Cardinality(Handlers) - 1

\* One viewer's seeks never leave sessions behind: a film's HLS sessions for an
\* account are never more than the requests that account had in flight at once,
\* so a player that asks one thing at a time holds one (supersedeHLS).
HLSOf(o, i) == {s \in listed : /\ info[s].output = "hls"
                               /\ info[s].item = i /\ info[s].owner = o}
AskingFor(o, i) == {h \in Handlers :
                      /\ pc[h] \in {"other", "reserve", "start", "insert"}
                      /\ call[h].kind = "hls"
                      /\ call[h].item = i /\ call[h].owner = o}
SeeksLeaveNothing ==
  \A o \in Owners, i \in Films :
    Cardinality(HLSOf(o, i)) + Cardinality(AskingFor(o, i)) <= Cardinality(Handlers)

\* Every ffmpeg that runs is in the table, about to be put there by the handler
\* that started it, or off the table with a Stop still owed to it: whichever of
\* supersede, evict, reap, close or StopAll took it off.
NoOrphan ==
  \A s \in Sessions : ff[s] = "running" =>
    \/ s \in listed
    \/ \E h \in Handlers : pc[h] = "insert" /\ held[h] = s
    \/ \E p \in Stoppers : s \in dead[p]

\* A film that has handed over picture is not reaped, nor evicted for another
\* viewer, while a segment request waits on it: the longest wait is shorter than
\* both limits. Only a viewer of it, an administrator or the exit ends it.
WaitingOn(s) == \E h \in Handlers : pc[h] = "segment" /\ held[h] = s
PlayedSessionKept ==
  [][\A s \in listed \ listed' :
       /\ Reap \/ \E h \in Handlers : ReserveEvict(h)
       => ~(WaitingOn(s) /\ served[s] /\ ~IsLive(s))]_vars

\* A session nobody reads is taken off the table, whatever its ffmpeg has done:
\* each is read again and again or ends (reap).
UnreadEnds == \A s \in Sessions : []<>(s \notin listed \/ idle[s] = 0)

\* A request for a playlist comes back, with a session, refused or given up on.
PlaylistAnswered ==
  \A h \in Handlers : pc[h] \in Pcs \ {"idle", "serving"} ~> pc[h] \in {"idle", "serving"}

\* The table and its goroutines implement the life of a session: the ffmpeg of
\* an ended one is gone, nothing is stopped twice or comes back to the table,
\* and what leaves the table is ended (supersede, reap, Stop, StopAll).
Stage(s) ==
  IF info[s] = NoSess THEN "unborn"
  ELSE IF s \in listed THEN "listed"
  ELSE IF \E h \in Handlers : pc[h] = "insert" /\ held[h] = s THEN "launched"
  ELSE IF \E p \in Stoppers : s \in dead[p] THEN "doomed"
  ELSE "ended"

Life == INSTANCE SessionLife WITH
          life <- [s \in Sessions |-> Stage(s)],
          alive <- {s \in Sessions : ff[s] = "running"}

ImplementsLife == Life!LifeSpec
EndsDoomed == Life!LifeFairSpec

\* What nobody reads leaves the table, and what leaves the table is stopped.
SessionsEnd == UnreadEnds /\ EndsDoomed

-----------------------------------------------------------------------------
(* What the comments say, and the code does not do.                        *)

\* "one progressive stream per viewer per item"
OneProgressivePerViewer ==
  \A s, t \in listed :
    /\ info[s].output = "prog" /\ info[t].output = "prog"
    /\ info[s].item = info[t].item /\ info[s].item \in Films
    /\ info[s].owner = info[t].owner /\ info[s].owner \in Owners
    => s = t

\* A seek ends the asking viewer's sessions, never one another account plays.
SeekSparesOthers ==
  [][\A h \in Handlers : SupersedeOwn(h) =>
       \A s \in listed \ listed' : \A o \in Owners \ {call[h].owner} :
         <<o, s>> \notin watching]_vars

=============================================================================
