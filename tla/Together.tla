------------------------------ MODULE Together ------------------------------
(***************************************************************************)
(* Watch Together: internal/together's Manager (rooms, and the requests    *)
(* with which somebody on another server asks to be let into one) and the  *)
(* federation handlers of internal/api that call it.                       *)
(*                                                                         *)
(* The Manager holds one mutex over both maps, so every call is one step.  *)
(* A handler that calls it and then reads the database is two steps.       *)
(* Time is what the Manager compares: how long ago a member was last seen, *)
(* how long ago a request was made or answered, how much of a cool-down is *)
(* left.  Ages stop growing once nothing can tell them apart.              *)
(***************************************************************************)
EXTENDS Naturals

CONSTANTS Local,      \* accounts of this server: they create and join rooms
          Guest,      \* people of paired servers, as RemoteID names them
          Pair,       \* which account and guest can see each other at all
          NoOne,      \* the host of a room id that was never given out
          RoomId, ReqId,  \* ids newID has to give
          Idle,       \* idleTimeout, in ticks
          Timeout,    \* requestTimeout
          Cooldown,   \* requestCooldown
          Retention   \* requestRetention

ASSUME TogetherAssumption ==
  /\ Local \cap Guest = {} /\ NoOne \notin Local \cup Guest \cup RoomId
  /\ Pair \subseteq Local \X Guest
  /\ Idle \in Nat \ {0} /\ Timeout \in Nat \ {0}
  /\ Cooldown \in Nat \ {0} /\ Retention \in Nat \ {0}

VARIABLES
  rooms,     \* RoomId -> the room: its host, its members, when each was seen
  reqs,      \* ReqId -> the request
  cooldown,  \* <<host, guest>> -> ticks before the guest may ask again
  grant,     \* the pairs <<host, guest>> with a presence grant, in the database
  checking,  \* <<room, guest>>: remoteRoom made its call, the grant is not read
  quiet      \* history: <<host, guest>> -> the quiet the host is owed since a no

vars == <<rooms, reqs, cooldown, grant, checking, quiet>>

Person == Local \cup Guest
Most(a, b) == IF a > b THEN a ELSE b
MaxAge == Timeout + Most(Cooldown, Retention) + 1  \* past every limit there is
---------------------------------------------------------------------------
Room == [host: Local \cup {NoOne}, members: SUBSET Person,
         seen: [Person -> 0..Idle + 1]]
NewRoom(h) == [host |-> h, members |-> {h}, seen |-> [p \in Person |-> 0]]
NoRoom == [NewRoom(NoOne) EXCEPT !.members = {}]

\* "unused" ids were never given out and "gone" ones are no longer in the map;
\* what a gone request said is kept for the properties only.
Request == [state: {"unused", "pending", "accepted", "declined", "gone"},
            host: Local \cup {NoOne}, guest: Guest \cup {NoOne},
            room: RoomId \cup {NoOne}, age: 0..MaxAge]
NoRequest == [state |-> "unused", host |-> NoOne, guest |-> NoOne,
              room |-> NoOne, age |-> 0]

\* q in another state as of a ticks ago.
Become(q, state, a) == [state |-> state, host |-> q.host, guest |-> q.guest,
                        room |-> q.room, age |-> a]

Open(r) == rooms[r].members # {}
IsPending(q) == reqs[q].state = "pending"
PairOf(q) == <<reqs[q].host, reqs[q].guest>>

Init == /\ rooms = [r \in RoomId |-> NoRoom]
        /\ reqs = [q \in ReqId |-> NoRequest]
        /\ cooldown = [c \in Pair |-> 0]
        /\ grant \in SUBSET Pair
        /\ checking = {}
        /\ quiet = [c \in Pair |-> [left |-> 0, withdrawn |-> FALSE]]
---------------------------------------------------------------------------
(* The sweeps, run inside whichever call happens to arrive.                *)

\* The room's members cut down to Stay; an emptied room keeps its host's name.
Keep(m, Stay) == [host |-> m.host, members |-> Stay,
                  seen |-> [p \in Person |-> IF p \in Stay THEN m.seen[p] ELSE 0]]

\* sweepLocked: whoever was not seen within Idle is dropped, and a room without its
\* host is over.
SweepRoom(m) ==
  LET here == {p \in m.members : m.seen[p] <= Idle}
  IN  Keep(m, IF m.host \in here THEN here ELSE {})
Swept(R) == [r \in RoomId |-> SweepRoom(R[r])]

\* m with p seen now, as Join, Poll and Report all begin.
Seen(m, p) == [host |-> m.host, members |-> m.members \cup {p},
               seen |-> [m.seen EXCEPT ![p] = 0]]

\* sweepRequestsLocked, on one request: silence is a no as of the moment the
\* time to answer ran out, and an answer old enough is forgotten.
TimedOut(q) == q.state = "pending" /\ q.age > Timeout
Forgotten(q) == q.state \in {"accepted", "declined"} /\ q.age > Retention

Lapse(q) == IF TimedOut(q) THEN Become(q, "declined", q.age - Timeout) ELSE q
Forget(q) == IF Forgotten(q) THEN Become(q, "gone", 0) ELSE q
SweptReq(q) == Forget(Lapse(q))
SweptReqs(Q) == [i \in ReqId |-> SweptReq(Q[i])]

\* Mutant: the time since the lapse is added to the cool-down, not taken off it.
OwedLonger(q) == Cooldown + (q.age - Timeout)

\* ... and on the cool-downs: one for each request that just lapsed, counted
\* from the moment it did.
Owed(q) == IF Cooldown > q.age - Timeout THEN Cooldown - (q.age - Timeout) ELSE 0

\* Mutant: a timeout starts no cool-down.
SweptCooldownNone(Q) == cooldown

SweptCooldown(Q) ==
  [c \in Pair |-> IF \E i \in ReqId : TimedOut(Q[i]) /\ <<Q[i].host, Q[i].guest>> = c
                  THEN Owed(Q[CHOOSE i \in ReqId : TimedOut(Q[i]) /\ <<Q[i].host, Q[i].guest>> = c])
                  ELSE cooldown[c]]

SweepRequests == reqs' = SweptReqs(reqs) /\ cooldown' = SweptCooldown(reqs)
---------------------------------------------------------------------------
(* Rooms.                                                                  *)

\* newID never gives an id twice; one that no room, no request and no call
\* names is as good as new, and a request's id is never taken again.
Fresh(r) == /\ ~Open(r)
            /\ \A q \in ReqId : reqs[q].room # r
            /\ \A g \in Guest : <<r, g>> \notin checking

Create(r, h) ==
  /\ Fresh(r)
  /\ rooms' = [Swept(rooms) EXCEPT ![r] = NewRoom(h)]
  /\ UNCHANGED <<reqs, cooldown, grant, checking, quiet>>

\* joinLocked: the caller is put in, or seen again, before the sweep.
JoinLocked(r, p) == rooms' = Swept([rooms EXCEPT ![r] = Seen(@, p)])

Join(r, p) ==
  /\ Open(r)
  /\ JoinLocked(r, p)
  /\ UNCHANGED <<reqs, cooldown, grant, checking, quiet>>

\* Mutant: the sweep comes before the caller is seen.
PollSweepsFirst(r, p) ==
  /\ p \in rooms[r].members
  /\ rooms' = IF p \in Swept(rooms)[r].members
              THEN [Swept(rooms) EXCEPT ![r] = Seen(@, p)] ELSE Swept(rooms)
  /\ UNCHANGED <<reqs, cooldown, grant, checking, quiet>>

Poll(r, p) ==
  /\ p \in rooms[r].members
  /\ rooms' = Swept([rooms EXCEPT ![r] = Seen(@, p)])
  /\ UNCHANGED <<reqs, cooldown, grant, checking, quiet>>

\* Where the film is and whether it is paused is the host's word alone and
\* not kept here: what a report changes for the rest of the room is below.
Report(r, h) ==
  /\ Open(r) /\ rooms[r].host = h
  /\ rooms' = Swept([rooms EXCEPT ![r] = Seen(@, h)])
  /\ UNCHANGED <<reqs, cooldown, grant, checking, quiet>>

\* Mutant: the host leaves like anybody else.
WithoutOne(r, p) == Keep(rooms[r], rooms[r].members \ {p})

\* LeaveRoom: the host takes the room with them.  No sweep.
Without(r, p) == Keep(rooms[r], IF p = rooms[r].host THEN {} ELSE rooms[r].members \ {p})
Leave(r, p) ==
  /\ Open(r)
  /\ rooms' = [rooms EXCEPT ![r] = Without(r, p)]
  /\ UNCHANGED <<reqs, cooldown, grant, checking, quiet>>

\* List, and Playing when a guest asks for a segment of the film: they sweep.
List == /\ rooms' = Swept(rooms)
        /\ UNCHANGED <<reqs, cooldown, grant, checking, quiet>>

\* Playing: what peerMayPlay answers when the film's library is not shared.
Playing(r, g) == g \in SweepRoom(rooms[r]).members
---------------------------------------------------------------------------
(* Requests.                                                               *)

\* Mutant: a second request is stacked on the first.
AskStacks(q, h, g) ==
  LET born == IF SweptCooldown(reqs)[<<h, g>>] > 0 THEN "declined" ELSE "pending" IN
  /\ <<h, g>> \in grant
  /\ reqs[q].state = "unused"
  /\ cooldown' = SweptCooldown(reqs)
  /\ reqs' = [SweptReqs(reqs) EXCEPT ![q] =
                [NoRequest EXCEPT !.state = born, !.host = h, !.guest = g]]
  /\ UNCHANGED <<rooms, grant, checking, quiet>>

\* federationAskTogether: the grant is read, then Ask.  Inside a cool-down the
\* request is born declined; otherwise it replaces an open one of the pair.
Ask(q, h, g) ==
  LET swept == SweptReqs(reqs)
      new == [state |-> IF SweptCooldown(reqs)[<<h, g>>] > 0 THEN "declined" ELSE "pending",
              host |-> h, guest |-> g, room |-> NoOne, age |-> 0]
      replaced(i) == /\ new.state = "pending" /\ swept[i].state = "pending"
                     /\ swept[i].host = h /\ swept[i].guest = g
  IN
  /\ <<h, g>> \in grant
  /\ reqs[q].state = "unused"
  /\ cooldown' = SweptCooldown(reqs)
  /\ reqs' = [i \in ReqId |-> IF i = q THEN new
                              ELSE IF replaced(i) THEN Become(swept[i], "gone", 0)
                              ELSE swept[i]]
  /\ UNCHANGED <<rooms, grant, checking, quiet>>

\* Pending (the host's client) and Status (the asker's server): they sweep, and
\* so does an Accept or a Decline that is refused.
Pending == SweepRequests /\ UNCHANGED <<rooms, grant, checking, quiet>>
Status(q) == /\ reqs[q].state # "unused"
             /\ SweepRequests
             /\ UNCHANGED <<rooms, grant, checking, quiet>>

\* Mutant: the host may change a no to a yes.
OpenForEver(Q, q, h) == Q[q].state \in {"pending", "declined"} /\ Q[q].host = h

\* openRequestLocked, after the sweep.
OpenFor(Q, q, h) == Q[q].state = "pending" /\ Q[q].host = h

\* Accept: the request is marked, and then joinLocked puts the asker in a room
\* the host drives; its sweep may end that very room.
Accept(q, h, r) ==
  LET swept == SweptReqs(reqs) IN
  /\ OpenFor(swept, q, h)
  /\ Open(r) /\ rooms[r].host = h
  /\ reqs' = [swept EXCEPT ![q] = [Become(@, "accepted", 0) EXCEPT !.room = r]]
  /\ cooldown' = SweptCooldown(reqs)
  /\ JoinLocked(r, reqs[q].guest)
  /\ UNCHANGED <<grant, checking, quiet>>

Decline(q, h) ==
  LET swept == SweptReqs(reqs) IN
  /\ OpenFor(swept, q, h)
  /\ reqs' = [swept EXCEPT ![q] = Become(@, "declined", 0)]
  /\ cooldown' = [SweptCooldown(reqs) EXCEPT ![PairOf(q)] = Cooldown]
  /\ quiet' = [quiet EXCEPT ![PairOf(q)] = [left |-> Cooldown, withdrawn |-> FALSE]]
  /\ UNCHANGED <<rooms, grant, checking>>

\* Withdraw: the asker's, while it is open.  No sweep and no cool-down.
Withdraw(q) ==
  /\ IsPending(q)
  /\ reqs' = [reqs EXCEPT ![q] = Become(@, "gone", 0)]
  /\ quiet' = IF quiet[PairOf(q)].left = 0 THEN quiet
              ELSE [quiet EXCEPT ![PairOf(q)] = [left |-> @.left, withdrawn |-> TRUE]]
  /\ UNCHANGED <<rooms, cooldown, grant, checking>>
---------------------------------------------------------------------------
(* The federation side: remoteRoom, and the grant it goes back to.         *)

\* Mutant: any open room lets the caller back in.
RemoteCallOpen(r, g) ==
  /\ Open(r)
  /\ JoinLocked(r, g)
  /\ checking' = IF rooms'[r].members # {} THEN checking \cup {<<r, g>>} ELSE checking
  /\ UNCHANGED <<reqs, cooldown, grant, quiet>>

\* Poll or JoinRemote for a guest: only somebody already in the room, and a
\* room that outlives the call is then checked against the grant.
RemoteCall(r, g) ==
  /\ g \in rooms[r].members
  /\ JoinLocked(r, g)
  /\ checking' = IF rooms'[r].members # {} THEN checking \cup {<<r, g>>} ELSE checking
  /\ UNCHANGED <<reqs, cooldown, grant, quiet>>

\* Mutant: a guest whose grant is gone is told so, and stays a member.
CheckStays(r, g) ==
  /\ <<r, g>> \in checking
  /\ checking' = checking \ {<<r, g>>}
  /\ UNCHANGED <<rooms, reqs, cooldown, grant, quiet>>

\* mayAsk, and LeaveRoom when the grant is gone.
Check(r, g) ==
  /\ <<r, g>> \in checking
  /\ checking' = checking \ {<<r, g>>}
  /\ rooms' = IF <<rooms[r].host, g>> \in grant THEN rooms
              ELSE [rooms EXCEPT ![r] = Without(r, g)]
  /\ UNCHANGED <<reqs, cooldown, grant, quiet>>

\* The database read failed: the caller hears 500 and nobody is removed.
CheckFails(r, g) ==
  /\ <<r, g>> \in checking
  /\ checking' = checking \ {<<r, g>>}
  /\ UNCHANGED <<rooms, reqs, cooldown, grant, quiet>>

\* The host changes who may see them.
SetGrant(c) ==
  /\ grant' = IF c \in grant THEN grant \ {c} ELSE grant \cup {c}
  /\ UNCHANGED <<rooms, reqs, cooldown, checking, quiet>>
---------------------------------------------------------------------------
Older(n, cap) == IF n < cap THEN n + 1 ELSE cap
Later(m) == [host |-> m.host, members |-> m.members,
             seen |-> [p \in Person |-> IF p \in m.members THEN Older(m.seen[p], Idle + 1) ELSE 0]]

\* Time passes.  A request that is open when its time runs out has been
\* answered no, whenever somebody looks: the host is owed quiet from then.
Tick ==
  /\ rooms' = [r \in RoomId |-> Later(rooms[r])]
  /\ reqs' = [q \in ReqId |-> IF reqs[q].state \in {"unused", "gone"} THEN reqs[q]
                              ELSE Become(reqs[q], reqs[q].state, Older(reqs[q].age, MaxAge))]
  /\ cooldown' = [c \in Pair |-> IF cooldown[c] > 0 THEN cooldown[c] - 1 ELSE 0]
  /\ quiet' = [c \in Pair |->
                 IF \E q \in ReqId : IsPending(q) /\ PairOf(q) = c /\ reqs[q].age = Timeout
                 THEN [left |-> Cooldown - 1, withdrawn |-> FALSE]
                 ELSE IF quiet[c].left > 1 THEN [left |-> quiet[c].left - 1, withdrawn |-> quiet[c].withdrawn]
                 ELSE [left |-> 0, withdrawn |-> FALSE]]
  /\ UNCHANGED <<grant, checking>>

\* Everything but the grants is in memory, and so is what the host was owed.
Restart ==
  /\ rooms' = [r \in RoomId |-> Keep(rooms[r], {})]
  /\ reqs' = [q \in ReqId |-> IF reqs[q].state = "unused" THEN reqs[q]
                              ELSE Become(reqs[q], "gone", 0)]
  /\ cooldown' = [c \in Pair |-> 0]
  /\ checking' = {}
  /\ quiet' = [c \in Pair |-> [left |-> 0, withdrawn |-> FALSE]]
  /\ UNCHANGED grant

RoomStep ==
  \/ \E r \in RoomId : \E p \in Local : Create(r, p) \/ Join(r, p) \/ Poll(r, p) \/ Report(r, p)
  \/ \E r \in RoomId : \E p \in Person : Leave(r, p)
  \/ List
RequestStep ==
  \/ \E q \in ReqId : \E h \in Local : \/ \E g \in Guest : Ask(q, h, g)
                                       \/ \E r \in RoomId : Accept(q, h, r)
                                       \/ Decline(q, h)
  \/ \E q \in ReqId : Status(q) \/ Withdraw(q)
  \/ Pending
RemoteStep ==
  \/ \E r \in RoomId : \E g \in Guest : RemoteCall(r, g) \/ Check(r, g) \/ CheckFails(r, g)
  \/ \E c \in Pair : SetGrant(c)

Next == RoomStep \/ RequestStep \/ RemoteStep \/ Tick \/ Restart
Spec == Init /\ [][Next]_vars

\* Time passes, a guest that polls has its grant read (and the database does
\* not fail on it for ever), and the asker's server keeps asking for the answer.
FairSpec == /\ Spec
            /\ WF_vars(Tick)
            /\ \A r \in RoomId : \A g \in Guest : SF_vars(Check(r, g))
            /\ \A q \in ReqId : WF_vars(Status(q))
---------------------------------------------------------------------------
TypeOK == /\ rooms \in [RoomId -> Room]
          /\ reqs \in [ReqId -> Request]
          /\ cooldown \in [Pair -> 0..Cooldown]
          /\ grant \in SUBSET Pair
          /\ checking \in SUBSET (RoomId \X Guest)
          /\ quiet \in [Pair -> [left: 0..Cooldown, withdrawn: BOOLEAN]]

\* A room somebody is in has its host in it: no call, in whatever order leaves,
\* sweeps and returns come, leaves a film running under nobody
\* (together.go, Leave and sweepLocked).
HostPresent == \A r \in RoomId : Open(r) => rooms[r].host \in rooms[r].members

\* Nobody from another server is in a room because it happened to be open: the
\* room's own host accepted a request of theirs into that very room
\* (request.go, Accept; together.go, JoinRemote).
OnlyByConsent ==
  \A r \in RoomId : \A g \in rooms[r].members \cap Guest :
    \E q \in ReqId : reqs[q].room = r /\ reqs[q].guest = g /\ reqs[q].host = rooms[r].host

\* A host has at most one prompt from one asker, however the asker's calls are
\* repeated (request.go, Ask: a second ask replaces the first).
OneOpenRequest ==
  \A p, q \in ReqId : IsPending(p) /\ IsPending(q) /\ PairOf(p) = PairOf(q) => p = q

\* A host that is heard from, however late, finds its room: a poll, a report or
\* a join of the host never ends the room by its own sweep
\* (together.go:253-263 and :289).
OnTimeKeepsRoom ==
  [][\A r \in RoomId : \A h \in Local :
       /\ Open(r) /\ rooms[r].host = h
       /\ Poll(r, h) \/ Report(r, h) \/ Join(r, h)
       => rooms'[r].members # {}]_vars

\* Silence is a no, and a no is final: a request whose time ran out, or that was
\* answered or taken back, is never accepted afterwards, by whatever call comes
\* first (request.go, sweepRequestsLocked and openRequestLocked).
NoIsFinal ==
  [][\A q \in ReqId : TimedOut(reqs[q]) \/ reqs[q].state \in {"declined", "gone"}
       => reqs'[q].state # "accepted" /\ (reqs'[q].state = "pending" => TimedOut(reqs'[q]))]_vars

Prompts(q) == reqs[q].state = "unused" /\ reqs'[q].state = "pending"
AskedOf(q) == <<reqs'[q].host, reqs'[q].guest>>

\* After a no, spoken or of silence, the host sees no prompt of the same asker
\* until the cool-down is over - save where the asker took back a request that
\* had already run out and that nobody had looked at since.
NoNaggingUnlessWithdrawn ==
  [][\A q \in ReqId : Prompts(q) =>
       quiet[AskedOf(q)].left = 0 \/ quiet[AskedOf(q)].withdrawn]_vars

\* A no holds for the request it was said to, and for a while after it.
NoMeansNo == NoIsFinal /\ NoNaggingUnlessWithdrawn

\* The rule without the exception: "a timeout starts the cooldown too"
\* (request.go:294).
NoNagging ==
  [][\A q \in ReqId : Prompts(q) => quiet[AskedOf(q)].left = 0]_vars

\* Accepting a request puts its asker in the room in the same step
\* (request.go:167).
AcceptAdmits ==
  [][\A q \in ReqId : reqs[q].state = "pending" /\ reqs'[q].state = "accepted"
       => reqs[q].guest \in rooms'[reqs'[q].room].members]_vars

\* A guest whose grant is gone for good stops being let at the room's film,
\* whether they go on polling or fall silent (togetherfederation.go:177-190).
RevokedStops ==
  \A r \in RoomId : \A g \in Guest :
    <>[](<<rooms[r].host, g>> \notin grant) => <>[]~Playing(r, g)
=============================================================================
