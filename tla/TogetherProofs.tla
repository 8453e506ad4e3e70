--------------------------- MODULE TogetherProofs ---------------------------
(***************************************************************************)
(* Together's rooms and requests, for every number of accounts, guests,    *)
(* rooms and requests and every length of the four limits.                 *)
(***************************************************************************)
EXTENDS Together, TLAPS

\* What else has to hold of the requests for the invariants to be inductive: a
\* request is between people who may see each other, and only an accepted one
\* (or one that was, and is forgotten) names a room.
WellAsked ==
  \A q \in ReqId :
    /\ reqs[q].state \in {"pending", "accepted", "declined"} => PairOf(q) \in Pair
    /\ reqs[q].state \in {"unused", "pending", "declined"} => reqs[q].room = NoOne

RoomInv == TypeOK /\ WellAsked /\ HostPresent /\ OnlyByConsent
---------------------------------------------------------------------------
(* What the operators on one room and on one request return.               *)

LEMMA PairType == \A c \in Pair : c[1] \in Local /\ c[2] \in Guest /\ c = <<c[1], c[2]>>
  BY TogetherAssumption

LEMMA MaxAgeType == /\ MaxAge \in Nat /\ Timeout \in Nat /\ Idle \in Nat
                    /\ Cooldown \in Nat /\ Retention \in Nat
                    /\ Timeout + Cooldown < MaxAge /\ Timeout > 0
  BY TogetherAssumption DEF MaxAge, Most

LEMMA NewRoomType ==
  ASSUME NEW h \in Local
  PROVE  NewRoom(h) \in Room /\ NewRoom(h).host = h /\ NewRoom(h).members = {h}
<1> DEFINE seen == [p \in Person |-> 0]
<1>1. seen \in [Person -> 0..Idle + 1]
  BY MaxAgeType
<1> HIDE DEF seen
<1>2. [host |-> h, members |-> {h}, seen |-> seen] \in Room
  BY <1>1 DEF Room, Person
<1> QED BY <1>2 DEF NewRoom, seen

LEMMA NoRoomType == NoRoom \in Room /\ NoRoom.members = {} /\ NoRoom.host = NoOne
<1> DEFINE seen == [p \in Person |-> 0]
<1>1. seen \in [Person -> 0..Idle + 1]
  BY MaxAgeType
<1>2. NoRoom = [host |-> NoOne, members |-> {}, seen |-> seen]
  BY DEF NoRoom, NewRoom
<1> HIDE DEF seen
<1> QED BY <1>1, <1>2 DEF Room

\* Keep leaves a room a room, with its host's name and exactly those members.
LEMMA KeepRoom ==
  ASSUME NEW m \in Room, NEW Stay \in SUBSET Person
  PROVE  /\ Keep(m, Stay) \in Room
         /\ Keep(m, Stay).host = m.host
         /\ Keep(m, Stay).members = Stay
<1> DEFINE seen == [p \in Person |-> IF p \in Stay THEN m.seen[p] ELSE 0]
<1>1. m.host \in Local \cup {NoOne} /\ m.seen \in [Person -> 0..Idle + 1]
  BY DEF Room
<1>2. seen \in [Person -> 0..Idle + 1]
  BY <1>1, MaxAgeType
<1> HIDE DEF seen
<1>3. [host |-> m.host, members |-> Stay, seen |-> seen] \in Room
  BY <1>1, <1>2 DEF Room
<1> QED BY <1>3 DEF Keep, seen

\* The sweep keeps a room's host, adds nobody, and leaves it either empty or
\* with the host in it.
LEMMA SweepKeeps ==
  ASSUME NEW m \in Room
  PROVE  /\ SweepRoom(m) \in Room
         /\ SweepRoom(m).host = m.host
         /\ SweepRoom(m).members \subseteq m.members
         /\ SweepRoom(m).members # {} => m.host \in SweepRoom(m).members
<1> DEFINE here == {p \in m.members : m.seen[p] <= Idle}
           Stay == IF m.host \in here THEN here ELSE {}
<1>1. Stay \in SUBSET Person /\ Stay \subseteq m.members /\ (Stay # {} => m.host \in Stay)
  BY DEF Room
<1>2. SweepRoom(m) = Keep(m, Stay)
  BY DEF SweepRoom
<1> QED BY <1>1, <1>2, KeepRoom

LEMMA SeenRoom ==
  ASSUME NEW m \in Room, NEW p \in Person
  PROVE  /\ Seen(m, p) \in Room /\ Seen(m, p).host = m.host
         /\ Seen(m, p).members = m.members \cup {p}
<1> DEFINE seen == [m.seen EXCEPT ![p] = 0]
<1>1. m.host \in Local \cup {NoOne} /\ m.seen \in [Person -> 0..Idle + 1] /\ m.members \in SUBSET Person
  BY DEF Room
<1>2. seen \in [Person -> 0..Idle + 1]
  BY <1>1, MaxAgeType
<1> HIDE DEF seen
<1>3. [host |-> m.host, members |-> m.members \cup {p}, seen |-> seen] \in Room
  BY <1>1, <1>2 DEF Room
<1> QED BY <1>3 DEF Seen, seen

LEMMA WithoutRoom ==
  ASSUME TypeOK, NEW r \in RoomId, NEW p \in Person
  PROVE  /\ Without(r, p) \in Room /\ Without(r, p).host = rooms[r].host
         /\ Without(r, p).members \subseteq rooms[r].members
         /\ (HostPresent /\ Without(r, p).members # {})
              => Without(r, p).host \in Without(r, p).members
<1> DEFINE Stay == IF p = rooms[r].host THEN {} ELSE rooms[r].members \ {p}
<1>1. rooms[r] \in Room /\ Stay \in SUBSET Person
  BY DEF TypeOK, Room
<1>2. Without(r, p) = Keep(rooms[r], Stay)
  BY DEF Without
<1>3. Without(r, p) \in Room /\ Without(r, p).host = rooms[r].host /\ Without(r, p).members = Stay
  BY <1>1, <1>2, KeepRoom
<1> QED BY <1>3 DEF HostPresent, Open

LEMMA BecomeRequest ==
  ASSUME NEW q \in Request, NEW a \in 0..MaxAge,
         NEW st \in {"unused", "pending", "accepted", "declined", "gone"}
  PROVE  /\ Become(q, st, a) \in Request
         /\ Become(q, st, a).state = st
         /\ Become(q, st, a).host = q.host /\ Become(q, st, a).guest = q.guest
         /\ Become(q, st, a).room = q.room
  BY DEF Become, Request

\* The sweep of the requests leaves who asked whom, and where they were let in,
\* and never opens or accepts one.
LEMMA SweepRequest ==
  ASSUME NEW q \in Request
  PROVE  /\ SweptReq(q) \in Request
         /\ SweptReq(q).host = q.host /\ SweptReq(q).guest = q.guest
         /\ SweptReq(q).room = q.room
         /\ SweptReq(q).state \in {"pending", "accepted", "unused"} => SweptReq(q).state = q.state
         /\ SweptReq(q).state = "declined" => q.state \in {"pending", "declined"}
<1>1. /\ Lapse(q) \in Request
      /\ Lapse(q).host = q.host /\ Lapse(q).guest = q.guest /\ Lapse(q).room = q.room
      /\ Lapse(q).state = q.state \/ (q.state = "pending" /\ Lapse(q).state = "declined")
  <2>1. CASE TimedOut(q)
    <3>1. q.age - Timeout \in 0..MaxAge
      BY <2>1, MaxAgeType DEF TimedOut, Request
    <3>2. q.state = "pending" BY <2>1 DEF TimedOut
    <3> QED BY <2>1, <3>1, <3>2, BecomeRequest DEF Lapse
  <2>2. CASE ~TimedOut(q)
    BY <2>2 DEF Lapse
  <2> QED BY <2>1, <2>2
<1> DEFINE l == Lapse(q)
<1>2. /\ Forget(l) \in Request
      /\ Forget(l).host = l.host /\ Forget(l).guest = l.guest /\ Forget(l).room = l.room
      /\ Forget(l).state = l.state \/ Forget(l).state = "gone"
  <2>1. l \in Request BY <1>1
  <2> HIDE DEF l
  <2>2. 0 \in 0..MaxAge BY MaxAgeType
  <2> QED BY <2>1, <2>2, BecomeRequest DEF Forget
<1>3. q.state \in {"unused", "pending", "accepted", "declined", "gone"}
  BY DEF Request
<1>4. SweptReq(q) = Forget(l)
  BY DEF SweptReq
<1> HIDE DEF l
<1> QED BY <1>1, <1>2, <1>3, <1>4 DEF l

\* The cool-downs stay within their length.
LEMMA SweepCooldown ==
  ASSUME TypeOK
  PROVE  SweptCooldown(reqs) \in [Pair -> 0..Cooldown]
<1>1. ASSUME NEW q \in Request, TimedOut(q) PROVE Owed(q) \in 0..Cooldown
  BY <1>1, MaxAgeType DEF Owed, TimedOut, Request
<1>2. ASSUME NEW c \in Pair,
             \E i \in ReqId : TimedOut(reqs[i]) /\ <<reqs[i].host, reqs[i].guest>> = c
      PROVE  Owed(reqs[CHOOSE i \in ReqId : TimedOut(reqs[i]) /\ <<reqs[i].host, reqs[i].guest>> = c])
               \in 0..Cooldown
  <2> DEFINE j == CHOOSE i \in ReqId : TimedOut(reqs[i]) /\ <<reqs[i].host, reqs[i].guest>> = c
  <2>1. j \in ReqId /\ TimedOut(reqs[j]) BY <1>2
  <2> HIDE DEF j
  <2>2. Owed(reqs[j]) \in 0..Cooldown BY <2>1, <1>1 DEF TypeOK
  <2> QED BY <2>2 DEF j
<1> QED BY <1>2 DEF SweptCooldown, TypeOK
---------------------------------------------------------------------------
(* What the pieces of a step do to all the rooms and to all the requests.  *)

LEMMA SweepRooms ==
  ASSUME NEW R \in [RoomId -> Room]
  PROVE  /\ Swept(R) \in [RoomId -> Room]
         /\ \A r \in RoomId : /\ Swept(R)[r].host = R[r].host
                              /\ Swept(R)[r].members \subseteq R[r].members
                              /\ Swept(R)[r].members # {} => R[r].host \in Swept(R)[r].members
<1>1. \A r \in RoomId : Swept(R)[r] = SweepRoom(R[r])
  BY DEF Swept
<1> QED BY <1>1, SweepKeeps DEF Swept

\* What a step that only lets rooms shrink leaves true of them.
Shrunk == /\ rooms' \in [RoomId -> Room]
          /\ HostPresent'
          /\ \A r \in RoomId : \A g \in rooms'[r].members \cap Guest :
               g \in rooms[r].members /\ rooms'[r].host = rooms[r].host

\* A member of the room, or an account of this server, is seen in it.
LEMMA JoinRooms ==
  ASSUME TypeOK, NEW r \in RoomId, NEW p \in Person, JoinLocked(r, p)
  PROVE  /\ rooms' \in [RoomId -> Room]
         /\ HostPresent'
         /\ \A s \in RoomId : /\ rooms'[s].host = rooms[s].host
                              /\ rooms'[s].members \subseteq
                                   rooms[s].members \cup (IF s = r THEN {p} ELSE {})
<1> DEFINE R == [rooms EXCEPT ![r] = Seen(@, p)]
<1>1. R \in [RoomId -> Room]
  BY SeenRoom DEF TypeOK
<1>2. \A s \in RoomId : /\ R[s].host = rooms[s].host
                        /\ R[s].members \subseteq rooms[s].members \cup (IF s = r THEN {p} ELSE {})
  BY SeenRoom DEF TypeOK
<1>3. rooms' = Swept(R)
  BY DEF JoinLocked
<1> HIDE DEF R
<1>4. \A s \in RoomId : /\ rooms'[s].host = R[s].host /\ rooms'[s].members \subseteq R[s].members
                        /\ rooms'[s].members # {} => R[s].host \in rooms'[s].members
  BY <1>1, <1>3, SweepRooms
<1>5. rooms' \in [RoomId -> Room]
  BY <1>1, <1>3, SweepRooms
<1>6. HostPresent'
  <2> SUFFICES ASSUME NEW s \in RoomId, rooms'[s].members # {}
               PROVE  rooms'[s].host \in rooms'[s].members
    BY DEF HostPresent, Open
  <2> QED BY <1>4
<1> QED BY <1>2, <1>4, <1>5, <1>6

LEMMA JoinShrinks ==
  ASSUME TypeOK, NEW r \in RoomId, NEW p \in Person, JoinLocked(r, p),
         p \in Local \/ p \in rooms[r].members
  PROVE  Shrunk
<1>1. /\ rooms' \in [RoomId -> Room] /\ HostPresent'
      /\ \A s \in RoomId : /\ rooms'[s].host = rooms[s].host
                           /\ rooms'[s].members \subseteq
                                rooms[s].members \cup (IF s = r THEN {p} ELSE {})
  BY JoinRooms
<1>2. ASSUME NEW s \in RoomId, NEW g \in rooms'[s].members \cap Guest
      PROVE  g \in rooms[s].members
  <2>1. g \in rooms[s].members \/ (s = r /\ g = p)
    BY <1>1
  <2> QED BY <2>1, TogetherAssumption
<1> QED BY <1>1, <1>2 DEF Shrunk

LEMMA SweepShrinks ==
  ASSUME TypeOK, rooms' = Swept(rooms)
  PROVE  Shrunk
<1>1. rooms \in [RoomId -> Room]
  BY DEF TypeOK
<1>2. /\ rooms' \in [RoomId -> Room]
      /\ \A r \in RoomId : /\ rooms'[r].host = rooms[r].host
                           /\ rooms'[r].members \subseteq rooms[r].members
                           /\ rooms'[r].members # {} => rooms[r].host \in rooms'[r].members
  BY <1>1, SweepRooms
<1>3. HostPresent'
  BY <1>2 DEF HostPresent, Open
<1> QED BY <1>2, <1>3 DEF Shrunk

\* What a step leaves true of the requests, as long as none is accepted.
Answered == /\ reqs' \in [ReqId -> Request] /\ cooldown' \in [Pair -> 0..Cooldown]
            /\ WellAsked'
            /\ \A q \in ReqId : reqs[q].room # NoOne =>
                 /\ reqs'[q].room = reqs[q].room
                 /\ PairOf(q)' = PairOf(q)

LEMMA SweptRequests ==
  ASSUME TypeOK, WellAsked
  PROVE  /\ SweptReqs(reqs) \in [ReqId -> Request]
         /\ \A q \in ReqId :
              LET s == SweptReqs(reqs)[q] IN
              /\ s.host = reqs[q].host /\ s.guest = reqs[q].guest /\ s.room = reqs[q].room
              /\ s.state \in {"pending", "accepted", "declined"} => PairOf(q) \in Pair
              /\ s.state \in {"unused", "pending", "declined"} => s.room = NoOne
<1>1. \A q \in ReqId : SweptReqs(reqs)[q] = SweptReq(reqs[q]) /\ reqs[q] \in Request
  BY DEF SweptReqs, TypeOK
<1>2. SweptReqs(reqs) \in [ReqId -> Request]
  BY <1>1, SweepRequest DEF SweptReqs
<1>3. ASSUME NEW q \in ReqId
      PROVE  LET s == SweptReqs(reqs)[q] IN
              /\ s.host = reqs[q].host /\ s.guest = reqs[q].guest /\ s.room = reqs[q].room
              /\ s.state \in {"pending", "accepted", "declined"} => PairOf(q) \in Pair
              /\ s.state \in {"unused", "pending", "declined"} => s.room = NoOne
  BY <1>1, SweepRequest DEF WellAsked
<1> QED BY <1>2, <1>3

LEMMA SweepAnswers ==
  ASSUME TypeOK, WellAsked, SweepRequests
  PROVE  Answered
<1>1. reqs' = SweptReqs(reqs) /\ cooldown' = SweptCooldown(reqs)
  BY DEF SweepRequests
<1>2. reqs' \in [ReqId -> Request] /\ cooldown' \in [Pair -> 0..Cooldown]
  BY <1>1, SweptRequests, SweepCooldown
<1>3. \A q \in ReqId : PairOf(q)' = PairOf(q) /\ reqs'[q].room = reqs[q].room
  BY <1>1, SweptRequests DEF PairOf
<1>4. WellAsked'
  BY <1>1, <1>3, SweptRequests DEF WellAsked
<1> QED BY <1>2, <1>3, <1>4 DEF Answered

\* The requests of one step, one of them replaced by x.
LEMMA OneAnswered ==
  ASSUME TypeOK, WellAsked, NEW q \in ReqId, NEW x \in Request,
         \E Q \in {reqs, SweptReqs(reqs)} : reqs' = [Q EXCEPT ![q] = x],
         cooldown' \in [Pair -> 0..Cooldown],
         x.host = reqs[q].host, x.guest = reqs[q].guest,
         x.state \in {"declined", "gone"}, x.room = reqs[q].room,
         x.state = "declined" => PairOf(q) \in Pair /\ reqs[q].room = NoOne
  PROVE  Answered
<1>1. PICK Q \in {reqs, SweptReqs(reqs)} : reqs' = [Q EXCEPT ![q] = x]
  OBVIOUS
<1>2. Q \in [ReqId -> Request]
  BY SweptRequests DEF TypeOK
<1>3. \A i \in ReqId :
        /\ Q[i].host = reqs[i].host /\ Q[i].guest = reqs[i].guest /\ Q[i].room = reqs[i].room
        /\ Q[i].state \in {"pending", "accepted", "declined"} => PairOf(i) \in Pair
        /\ Q[i].state \in {"unused", "pending", "declined"} => Q[i].room = NoOne
  BY SweptRequests DEF WellAsked
<1>4. reqs' \in [ReqId -> Request] /\ \A i \in ReqId : reqs'[i] = IF i = q THEN x ELSE Q[i]
  BY <1>1, <1>2
<1>5. \A i \in ReqId : reqs'[i].host = reqs[i].host /\ reqs'[i].guest = reqs[i].guest
                     /\ reqs'[i].room = reqs[i].room
  BY <1>3, <1>4
<1>6. \A i \in ReqId : PairOf(i)' = PairOf(i)
  BY <1>5 DEF PairOf
<1>7. WellAsked'
  BY <1>3, <1>4, <1>5, <1>6 DEF WellAsked
<1> QED BY <1>4, <1>5, <1>6, <1>7 DEF Answered

\* Consent survives whatever shrinks rooms and forgets requests.
LEMMA ConsentKept ==
  ASSUME RoomInv, Shrunk, Answered
  PROVE  OnlyByConsent'
<1> SUFFICES ASSUME NEW r \in RoomId, NEW g \in rooms'[r].members \cap Guest
             PROVE  \E q \in ReqId : reqs'[q].room = r /\ reqs'[q].guest = g
                                   /\ reqs'[q].host = rooms'[r].host
  BY DEF OnlyByConsent
<1>1. g \in rooms[r].members /\ rooms'[r].host = rooms[r].host
  BY DEF Shrunk
<1>2. PICK q \in ReqId : reqs[q].room = r /\ reqs[q].guest = g /\ reqs[q].host = rooms[r].host
  BY <1>1 DEF RoomInv, OnlyByConsent
<1>3. reqs[q].room # NoOne
  BY <1>2, TogetherAssumption
<1>4. reqs'[q].room = reqs[q].room /\ reqs'[q].host = reqs[q].host /\ reqs'[q].guest = reqs[q].guest
  BY <1>3 DEF Answered, PairOf
<1> QED BY <1>1, <1>2, <1>4

LEMMA RoomsStay == ASSUME RoomInv, UNCHANGED rooms PROVE Shrunk
  BY DEF Shrunk, RoomInv, TypeOK, HostPresent, Open

LEMMA RequestsStay == ASSUME RoomInv, UNCHANGED <<reqs, cooldown>> PROVE Answered
  BY DEF Answered, RoomInv, TypeOK, WellAsked, PairOf

\* A step that lets rooms shrink, accepts nothing and keeps the rest in type.
LEMMA QuietStep ==
  ASSUME RoomInv, Shrunk, Answered, grant' \in SUBSET Pair,
         checking' \in SUBSET (RoomId \X Guest),
         quiet' \in [Pair -> [left: 0..Cooldown, withdrawn: BOOLEAN]]
  PROVE  RoomInv'
<1>1. OnlyByConsent'
  BY ConsentKept
<1>2. TypeOK'
  BY DEF TypeOK, Shrunk, Answered
<1>3. WellAsked' /\ HostPresent'
  BY DEF Shrunk, Answered
<1> QED BY <1>1, <1>2, <1>3 DEF RoomInv
---------------------------------------------------------------------------
(* The calls that need more than that.                                     *)

LEMMA CreateInv ==
  ASSUME RoomInv, NEW r \in RoomId, NEW h \in Local, Create(r, h)
  PROVE  RoomInv'
<1> DEFINE new == NewRoom(h)
<1>1. new \in Room /\ new.host = h /\ new.members = {h}
  BY NewRoomType
<1>2. rooms \in [RoomId -> Room] /\ rooms' = [Swept(rooms) EXCEPT ![r] = new]
  BY DEF RoomInv, TypeOK, Create
<1> HIDE DEF new
<1>3. /\ rooms' \in [RoomId -> Room]
      /\ rooms'[r] = new
      /\ \A s \in RoomId \ {r} :
           /\ rooms'[s].host = rooms[s].host
           /\ rooms'[s].members \subseteq rooms[s].members
           /\ rooms'[s].members # {} => rooms[s].host \in rooms'[s].members
  BY <1>1, <1>2, SweepRooms
<1>4. HostPresent'
  BY <1>1, <1>3 DEF HostPresent, Open
<1>5. ASSUME NEW s \in RoomId, NEW g \in rooms'[s].members \cap Guest
      PROVE  g \in rooms[s].members /\ rooms'[s].host = rooms[s].host
  <2>1. s # r
    BY <1>1, <1>3, TogetherAssumption
  <2> QED BY <1>3, <2>1
<1>6. Shrunk
  BY <1>3, <1>4, <1>5 DEF Shrunk
<1>7. UNCHANGED <<reqs, cooldown, grant, checking, quiet>>
  BY DEF Create
<1>8. Answered
  BY <1>7, RequestsStay
<1> QED BY <1>6, <1>7, <1>8, QuietStep DEF RoomInv, TypeOK

LEMMA AskInv ==
  ASSUME RoomInv, NEW q \in ReqId, NEW h \in Local, NEW g \in Guest, Ask(q, h, g)
  PROVE  RoomInv'
<1> DEFINE swept == SweptReqs(reqs)
           new == [state |-> IF SweptCooldown(reqs)[<<h, g>>] > 0 THEN "declined" ELSE "pending",
                   host |-> h, guest |-> g, room |-> NoOne, age |-> 0]
<1>1. new \in Request /\ new.room = NoOne /\ new.host = h /\ new.guest = g
      /\ new.state \in {"declined", "pending"}
  BY MaxAgeType DEF Request
<1>2. /\ <<h, g>> \in Pair /\ reqs[q].room = NoOne
      /\ cooldown' = SweptCooldown(reqs)
      /\ UNCHANGED <<rooms, grant, checking, quiet>>
  BY DEF Ask, RoomInv, TypeOK, WellAsked
<1>3. /\ reqs' = [i \in ReqId |-> reqs'[i]]
      /\ \A i \in ReqId : reqs'[i] = IF i = q THEN new ELSE reqs'[i]
      /\ \A i \in ReqId \ {q} : reqs'[i] = swept[i] \/ reqs'[i] = Become(swept[i], "gone", 0)
  BY DEF Ask
<1>4. /\ swept \in [ReqId -> Request]
      /\ \A i \in ReqId :
           /\ swept[i].host = reqs[i].host /\ swept[i].guest = reqs[i].guest
           /\ swept[i].room = reqs[i].room
           /\ swept[i].state \in {"pending", "accepted", "declined"} => PairOf(i) \in Pair
           /\ swept[i].state \in {"unused", "pending", "declined"} => swept[i].room = NoOne
  BY SweptRequests DEF RoomInv
<1> HIDE DEF new, swept
<1>5. ASSUME NEW i \in ReqId \ {q}
      PROVE  /\ reqs'[i] \in Request
             /\ reqs'[i].host = reqs[i].host /\ reqs'[i].guest = reqs[i].guest
             /\ reqs'[i].room = reqs[i].room
             /\ reqs'[i].state \in {"pending", "accepted", "declined"} => PairOf(i) \in Pair
             /\ reqs'[i].state \in {"unused", "pending", "declined"} => reqs'[i].room = NoOne
  <2>1. swept[i] \in Request /\ 0 \in 0..MaxAge
    BY <1>4, MaxAgeType
  <2>2. CASE reqs'[i] = swept[i]
    BY <1>4, <2>1, <2>2
  <2>3. CASE reqs'[i] = Become(swept[i], "gone", 0)
    <3> DEFINE x == Become(swept[i], "gone", 0)
    <3>1. /\ x \in Request /\ x.state = "gone" /\ x.room = swept[i].room
          /\ x.host = swept[i].host /\ x.guest = swept[i].guest
      BY <2>1, BecomeRequest
    <3> HIDE DEF x
    <3> QED BY <1>4, <2>3, <3>1 DEF x
  <2> QED BY <1>3, <2>2, <2>3
<1>6. reqs'[q] = new
  BY <1>3
<1>7. reqs' \in [ReqId -> Request] /\ cooldown' \in [Pair -> 0..Cooldown]
  BY <1>1, <1>2, <1>3, <1>5, <1>6, SweepCooldown DEF RoomInv
<1>8. WellAsked'
  BY <1>1, <1>2, <1>5, <1>6 DEF WellAsked, PairOf
<1>9. Answered
  BY <1>2, <1>5, <1>7, <1>8 DEF Answered, PairOf
<1>10. Shrunk
  BY <1>2, RoomsStay
<1> QED BY <1>2, <1>9, <1>10, QuietStep DEF RoomInv, TypeOK

\* The one step that lets a guest in: the request that does it is left behind
\* as the consent.
LEMMA AcceptInv ==
  ASSUME RoomInv, NEW q \in ReqId, NEW h \in Local, NEW r \in RoomId, Accept(q, h, r)
  PROVE  RoomInv'
<1> DEFINE swept == SweptReqs(reqs)
           yes == [Become(swept[q], "accepted", 0) EXCEPT !.room = r]
           g == reqs[q].guest
<1>1. /\ swept \in [ReqId -> Request]
      /\ \A i \in ReqId :
           /\ swept[i].host = reqs[i].host /\ swept[i].guest = reqs[i].guest
           /\ swept[i].room = reqs[i].room
           /\ swept[i].state \in {"pending", "accepted", "declined"} => PairOf(i) \in Pair
           /\ swept[i].state \in {"unused", "pending", "declined"} => swept[i].room = NoOne
  BY SweptRequests DEF RoomInv
<1>2. /\ swept[q].state = "pending" /\ swept[q].host = h /\ rooms[r].host = h
      /\ reqs' = [swept EXCEPT ![q] = yes]
      /\ cooldown' = SweptCooldown(reqs)
      /\ JoinLocked(r, g)
      /\ UNCHANGED <<grant, checking, quiet>>
  BY DEF Accept, OpenFor
<1>3. PairOf(q) \in Pair /\ g \in Guest /\ reqs[q].host = h /\ reqs[q].room = NoOne
  BY <1>1, <1>2, PairType DEF PairOf
<1>4. /\ yes \in Request /\ yes.state = "accepted" /\ yes.room = r
      /\ yes.host = h /\ yes.guest = g
  BY <1>1, <1>2, MaxAgeType DEF Become, Request
<1> HIDE DEF swept, yes
<1>5. /\ reqs' \in [ReqId -> Request]
      /\ \A i \in ReqId : reqs'[i] = IF i = q THEN yes ELSE swept[i]
  BY <1>1, <1>2, <1>4
<1>6. cooldown' \in [Pair -> 0..Cooldown]
  BY <1>2, SweepCooldown DEF RoomInv
<1>7. WellAsked'
  BY <1>1, <1>3, <1>4, <1>5 DEF WellAsked, PairOf
<1>8. /\ rooms' \in [RoomId -> Room] /\ HostPresent'
      /\ \A s \in RoomId : /\ rooms'[s].host = rooms[s].host
                           /\ rooms'[s].members \subseteq
                                rooms[s].members \cup (IF s = r THEN {g} ELSE {})
  BY <1>2, <1>3, JoinRooms DEF RoomInv, Person
<1>9. ASSUME NEW s \in RoomId, NEW p \in rooms'[s].members \cap Guest
      PROVE  \E i \in ReqId : reqs'[i].room = s /\ reqs'[i].guest = p
                            /\ reqs'[i].host = rooms'[s].host
  <2>1. CASE p \in rooms[s].members
    <3>1. PICK i \in ReqId : reqs[i].room = s /\ reqs[i].guest = p /\ reqs[i].host = rooms[s].host
      BY <2>1 DEF RoomInv, OnlyByConsent
    <3>2. i # q
      BY <3>1, <1>3, TogetherAssumption
    <3> QED BY <3>1, <3>2, <1>1, <1>5, <1>8
  <2>2. CASE s = r /\ p = g
    BY <2>2, <1>2, <1>4, <1>5, <1>8
  <2> QED BY <1>8, <2>1, <2>2
<1>10. OnlyByConsent'
  BY <1>9 DEF OnlyByConsent
<1>11. TypeOK'
  BY <1>2, <1>5, <1>6, <1>8 DEF RoomInv, TypeOK
<1> QED BY <1>7, <1>8, <1>10, <1>11 DEF RoomInv
---------------------------------------------------------------------------
(* The steps, one by one.                                                  *)

LEMMA SimpleInv ==
  ASSUME RoomInv, NEW r \in RoomId, NEW p \in Person,
         \/ p \in Local /\ (Join(r, p) \/ Poll(r, p) \/ Report(r, p))
         \/ Leave(r, p)
         \/ p \in Guest /\ (RemoteCall(r, p) \/ Check(r, p) \/ CheckFails(r, p))
  PROVE  RoomInv'
<1>1. UNCHANGED <<reqs, cooldown, grant, quiet>>
  BY DEF Join, Poll, Report, Leave, RemoteCall, Check, CheckFails
<1>2. checking' \in SUBSET (RoomId \X Guest)
  BY DEF Join, Poll, Report, Leave, RemoteCall, Check, CheckFails, RoomInv, TypeOK
<1>3. Answered
  BY <1>1, RequestsStay
<1>4. Shrunk
  <2>1. CASE p \in Local /\ (Join(r, p) \/ Poll(r, p) \/ Report(r, p))
    <3>1. JoinLocked(r, p)
      BY <2>1 DEF Join, Poll, Report, JoinLocked
    <3> QED BY <2>1, <3>1, JoinShrinks DEF RoomInv
  <2>2. CASE p \in Guest /\ RemoteCall(r, p)
    BY <2>2, JoinShrinks DEF RemoteCall, RoomInv
  <2>4. CASE CheckFails(r, p) \/ (Check(r, p) /\ rooms' = rooms)
    BY <2>4, RoomsStay DEF CheckFails
  <2>5. CASE rooms' = [rooms EXCEPT ![r] = Without(r, p)]
    <3>1. /\ Without(r, p) \in Room /\ Without(r, p).host = rooms[r].host
          /\ Without(r, p).members \subseteq rooms[r].members
          /\ Without(r, p).members # {} => Without(r, p).host \in Without(r, p).members
      BY WithoutRoom DEF RoomInv
    <3>2. rooms' \in [RoomId -> Room]
          /\ \A s \in RoomId : rooms'[s] = IF s = r THEN Without(r, p) ELSE rooms[s]
      BY <2>5, <3>1 DEF RoomInv, TypeOK
    <3>3. HostPresent'
      BY <3>1, <3>2 DEF RoomInv, HostPresent, Open
    <3> QED BY <3>1, <3>2, <3>3 DEF Shrunk
  <2> QED BY <2>1, <2>2, <2>4, <2>5 DEF Leave, Check
<1> QED BY <1>1, <1>2, <1>3, <1>4, QuietStep DEF RoomInv, TypeOK

LEMMA DeclineInv ==
  ASSUME RoomInv, NEW q \in ReqId, NEW h \in Local, Decline(q, h)
  PROVE  RoomInv'
<1>1. UNCHANGED <<rooms, grant, checking>>
  BY DEF Decline
<1>2. Shrunk
  BY <1>1, RoomsStay
<1>3. reqs[q] \in Request /\ 0 \in 0..MaxAge
  BY MaxAgeType DEF RoomInv, TypeOK
<1> DEFINE swept == SweptReqs(reqs)
           x == Become(swept[q], "declined", 0)
<1>4. /\ swept[q].state = "pending" /\ reqs' = [swept EXCEPT ![q] = x]
      /\ cooldown' = [SweptCooldown(reqs) EXCEPT ![PairOf(q)] = Cooldown]
      /\ quiet' = [quiet EXCEPT ![PairOf(q)] = [left |-> Cooldown, withdrawn |-> FALSE]]
  BY DEF Decline, OpenFor
<1>5. /\ swept[q] \in Request /\ PairOf(q) \in Pair /\ swept[q].room = NoOne
      /\ swept[q].host = reqs[q].host /\ swept[q].guest = reqs[q].guest
      /\ swept[q].room = reqs[q].room
  BY <1>4, SweptRequests DEF RoomInv
<1>6. /\ x \in Request /\ x.state = "declined" /\ x.room = reqs[q].room
      /\ x.host = reqs[q].host /\ x.guest = reqs[q].guest
  BY <1>5, <1>3, BecomeRequest
<1>7. cooldown' \in [Pair -> 0..Cooldown]
  <2>1. SweptCooldown(reqs) \in [Pair -> 0..Cooldown] /\ Cooldown \in 0..Cooldown
    BY SweepCooldown, MaxAgeType DEF RoomInv
  <2> QED BY <1>4, <2>1
<1>8. quiet' \in [Pair -> [left: 0..Cooldown, withdrawn: BOOLEAN]]
  <2> DEFINE w == [left |-> Cooldown, withdrawn |-> FALSE]
  <2>1. w \in [left: 0..Cooldown, withdrawn: BOOLEAN]
    BY MaxAgeType
  <2>2. quiet' = [quiet EXCEPT ![PairOf(q)] = w]
    BY <1>4
  <2> HIDE DEF w
  <2> QED BY <2>1, <2>2 DEF RoomInv, TypeOK
<1> HIDE DEF swept, x
<1>9. \E Q \in {reqs, SweptReqs(reqs)} : reqs' = [Q EXCEPT ![q] = x]
  BY <1>4 DEF swept
<1>10. Answered
  BY <1>5, <1>6, <1>7, <1>9, OneAnswered DEF RoomInv
<1> QED BY <1>1, <1>2, <1>8, <1>10, QuietStep DEF RoomInv, TypeOK

LEMMA WithdrawInv ==
  ASSUME RoomInv, NEW q \in ReqId, Withdraw(q)
  PROVE  RoomInv'
<1>1. UNCHANGED <<rooms, grant, checking>>
  BY DEF Withdraw
<1>2. Shrunk
  BY <1>1, RoomsStay
<1>3. reqs[q] \in Request /\ 0 \in 0..MaxAge
  BY MaxAgeType DEF RoomInv, TypeOK
<1> DEFINE x == Become(reqs[q], "gone", 0)
<1>4. /\ reqs' = [reqs EXCEPT ![q] = x] /\ UNCHANGED cooldown
      /\ quiet' = IF quiet[PairOf(q)].left = 0 THEN quiet
                  ELSE [quiet EXCEPT ![PairOf(q)] = [left |-> @.left, withdrawn |-> TRUE]]
  BY DEF Withdraw
<1>5. /\ x \in Request /\ x.state = "gone" /\ x.room = reqs[q].room
      /\ x.host = reqs[q].host /\ x.guest = reqs[q].guest
  BY <1>3, BecomeRequest
<1>6. quiet' \in [Pair -> [left: 0..Cooldown, withdrawn: BOOLEAN]]
  <2>1. PairOf(q) \in Pair
    BY DEF Withdraw, IsPending, RoomInv, WellAsked
  <2>2. quiet[PairOf(q)] \in [left: 0..Cooldown, withdrawn: BOOLEAN]
    BY <2>1 DEF RoomInv, TypeOK
  <2> DEFINE w == [left |-> quiet[PairOf(q)].left, withdrawn |-> TRUE]
  <2>3. w \in [left: 0..Cooldown, withdrawn: BOOLEAN]
    BY <2>2
  <2>4. quiet' = quiet \/ quiet' = [quiet EXCEPT ![PairOf(q)] = w]
    BY <1>4
  <2> HIDE DEF w
  <2> QED BY <2>1, <2>3, <2>4 DEF RoomInv, TypeOK
<1> HIDE DEF x
<1>7. \E Q \in {reqs, SweptReqs(reqs)} : reqs' = [Q EXCEPT ![q] = x]
  BY <1>4
<1>8. Answered
  BY <1>4, <1>5, <1>7, OneAnswered DEF RoomInv, TypeOK
<1> QED BY <1>1, <1>2, <1>6, <1>8, QuietStep DEF RoomInv, TypeOK

LEMMA SweepOnlyInv ==
  ASSUME RoomInv, SweepRequests, UNCHANGED <<rooms, grant, checking, quiet>>
  PROVE  RoomInv'
  BY SweepAnswers, RoomsStay, QuietStep DEF RoomInv, TypeOK

LEMMA ListInv == ASSUME RoomInv, List PROVE RoomInv'
<1>1. Shrunk /\ Answered
  BY SweepShrinks, RequestsStay DEF List, RoomInv
<1> QED BY <1>1, QuietStep DEF List, RoomInv, TypeOK

LEMMA SetGrantInv ==
  ASSUME RoomInv, NEW c \in Pair, SetGrant(c)
  PROVE  RoomInv'
<1>1. grant' \in SUBSET Pair /\ UNCHANGED <<rooms, reqs, cooldown, checking, quiet>>
  BY DEF SetGrant, RoomInv, TypeOK
<1> QED BY <1>1, RoomsStay, RequestsStay, QuietStep DEF RoomInv, TypeOK

LEMMA TickInv == ASSUME RoomInv, Tick PROVE RoomInv'
<1>1. ASSUME NEW m \in Room
      PROVE  Later(m) \in Room /\ Later(m).host = m.host /\ Later(m).members = m.members
  <2> DEFINE seen == [p \in Person |-> IF p \in m.members THEN Older(m.seen[p], Idle + 1) ELSE 0]
  <2>1. m.host \in Local \cup {NoOne} /\ m.members \in SUBSET Person
        /\ m.seen \in [Person -> 0..Idle + 1]
    BY DEF Room
  <2>2. seen \in [Person -> 0..Idle + 1]
    BY <2>1, MaxAgeType DEF Older
  <2> HIDE DEF seen
  <2>3. [host |-> m.host, members |-> m.members, seen |-> seen] \in Room
    BY <2>1, <2>2 DEF Room
  <2> QED BY <2>3 DEF Later, seen
<1>2. /\ rooms' \in [RoomId -> Room]
      /\ \A r \in RoomId : rooms'[r].host = rooms[r].host /\ rooms'[r].members = rooms[r].members
  <2>1. \A r \in RoomId : rooms[r] \in Room /\ rooms'[r] = Later(rooms[r])
    BY DEF Tick, RoomInv, TypeOK
  <2>2. rooms' = [r \in RoomId |-> rooms'[r]]
    BY DEF Tick
  <2> QED BY <1>1, <2>1, <2>2
<1>3. Shrunk
  <2>1. HostPresent'
    BY <1>2 DEF RoomInv, HostPresent, Open
  <2> QED BY <1>2, <2>1 DEF Shrunk
<1>4. /\ reqs' \in [ReqId -> Request]
      /\ \A q \in ReqId : /\ reqs'[q].host = reqs[q].host /\ reqs'[q].guest = reqs[q].guest
                          /\ reqs'[q].room = reqs[q].room /\ reqs'[q].state = reqs[q].state
  <2>1. \A q \in ReqId : /\ reqs[q] \in Request
                         /\ \/ reqs'[q] = reqs[q]
                            \/ reqs'[q] = Become(reqs[q], reqs[q].state, Older(reqs[q].age, MaxAge))
    BY DEF Tick, RoomInv, TypeOK
  <2>2. reqs' = [q \in ReqId |-> reqs'[q]]
    BY DEF Tick
  <2>3. ASSUME NEW q \in Request
        PROVE  /\ Older(q.age, MaxAge) \in 0..MaxAge
               /\ q.state \in {"unused", "pending", "accepted", "declined", "gone"}
    BY MaxAgeType DEF Older, Request
  <2>4. ASSUME NEW q \in ReqId
        PROVE  /\ reqs'[q] \in Request
               /\ reqs'[q].host = reqs[q].host /\ reqs'[q].guest = reqs[q].guest
               /\ reqs'[q].room = reqs[q].room /\ reqs'[q].state = reqs[q].state
    <3>1. CASE reqs'[q] = reqs[q]
      BY <2>1, <3>1
    <3>2. CASE reqs'[q] = Become(reqs[q], reqs[q].state, Older(reqs[q].age, MaxAge))
      <4> DEFINE a == Older(reqs[q].age, MaxAge)
                 st == reqs[q].state
      <4>1. reqs[q] \in Request /\ a \in 0..MaxAge
            /\ st \in {"unused", "pending", "accepted", "declined", "gone"}
        BY <2>1, <2>3
      <4> HIDE DEF a, st
      <4>2. /\ Become(reqs[q], st, a) \in Request
            /\ Become(reqs[q], st, a).state = st /\ Become(reqs[q], st, a).room = reqs[q].room
            /\ Become(reqs[q], st, a).host = reqs[q].host
            /\ Become(reqs[q], st, a).guest = reqs[q].guest
        BY <4>1, BecomeRequest
      <4> QED BY <3>2, <4>2 DEF a, st
    <3> QED BY <2>1, <3>1, <3>2
  <2> QED BY <2>2, <2>4
<1>5. cooldown' \in [Pair -> 0..Cooldown]
  BY MaxAgeType DEF Tick, RoomInv, TypeOK
<1>6. WellAsked'
  BY <1>4 DEF RoomInv, WellAsked, PairOf
<1>7. Answered
  BY <1>4, <1>5, <1>6 DEF Answered, PairOf
<1>8. quiet' \in [Pair -> [left: 0..Cooldown, withdrawn: BOOLEAN]]
  <2> DEFINE Q == [left: 0..Cooldown, withdrawn: BOOLEAN]
  <2>1. ASSUME NEW c \in Pair PROVE quiet'[c] \in Q
    <3>1. quiet[c] \in Q
      BY DEF RoomInv, TypeOK
    <3>2. /\ [left |-> Cooldown - 1, withdrawn |-> FALSE] \in Q
          /\ [left |-> 0, withdrawn |-> FALSE] \in Q
          /\ quiet[c].left > 1
               => [left |-> quiet[c].left - 1, withdrawn |-> quiet[c].withdrawn] \in Q
      BY <3>1, TogetherAssumption
    <3> HIDE DEF Q
    <3> QED BY <3>2 DEF Tick
  <2>2. quiet' = [c \in Pair |-> quiet'[c]]
    BY DEF Tick
  <2> HIDE DEF Q
  <2>3. quiet' \in [Pair -> Q]
    BY <2>1, <2>2
  <2> QED BY <2>3 DEF Q
<1>9. UNCHANGED <<grant, checking>>
  BY DEF Tick
<1> QED BY <1>3, <1>7, <1>8, <1>9, QuietStep DEF RoomInv, TypeOK

LEMMA RestartInv == ASSUME RoomInv, Restart PROVE RoomInv'
<1>1. \A r \in RoomId : /\ rooms'[r] = Keep(rooms[r], {}) /\ rooms[r] \in Room
                        /\ Keep(rooms[r], {}) \in Room /\ Keep(rooms[r], {}).members = {}
  BY KeepRoom DEF Restart, RoomInv, TypeOK
<1>2. rooms' = [r \in RoomId |-> rooms'[r]] /\ reqs' = [q \in ReqId |-> reqs'[q]]
  BY DEF Restart
<1>3. Shrunk
  <2>1. rooms' \in [RoomId -> Room]
    BY <1>1, <1>2
  <2>2. \A r \in RoomId : rooms'[r].members = {}
    BY <1>1
  <2> QED BY <2>1, <2>2 DEF Shrunk, HostPresent, Open
<1>4. ASSUME NEW q \in ReqId
      PROVE  /\ reqs'[q] \in Request
             /\ reqs'[q].host = reqs[q].host /\ reqs'[q].guest = reqs[q].guest
             /\ reqs'[q].room = reqs[q].room
             /\ reqs'[q].state = "gone" \/ (reqs'[q].state = "unused" /\ reqs[q].state = "unused")
  <2>1. reqs[q] \in Request /\ 0 \in 0..MaxAge
    BY MaxAgeType DEF RoomInv, TypeOK
  <2> DEFINE x == Become(reqs[q], "gone", 0)
  <2>2. /\ x \in Request /\ x.state = "gone" /\ x.room = reqs[q].room
        /\ x.host = reqs[q].host /\ x.guest = reqs[q].guest
    BY <2>1, BecomeRequest
  <2>3. reqs'[q] = IF reqs[q].state = "unused" THEN reqs[q] ELSE x
    BY DEF Restart
  <2> HIDE DEF x
  <2> QED BY <2>1, <2>2, <2>3
<1>5. Answered
  <2>1. reqs' \in [ReqId -> Request]
    BY <1>2, <1>4
  <2>2. WellAsked'
    BY <1>4 DEF WellAsked, PairOf, RoomInv
  <2>3. cooldown' \in [Pair -> 0..Cooldown]
    BY MaxAgeType DEF Restart
  <2> QED BY <2>1, <2>2, <2>3, <1>4 DEF Answered, PairOf
<1>6. quiet' \in [Pair -> [left: 0..Cooldown, withdrawn: BOOLEAN]]
  BY MaxAgeType DEF Restart
<1>7. checking' = {} /\ UNCHANGED grant
  BY DEF Restart
<1> QED BY <1>3, <1>5, <1>6, <1>7, QuietStep DEF RoomInv, TypeOK

LEMMA RoomInvariant == Spec => []RoomInv
<1>1. Init => RoomInv
  <2> SUFFICES ASSUME Init PROVE RoomInv
    OBVIOUS
  <2>1. \A r \in RoomId : rooms[r] = NoRoom
    BY DEF Init
  <2>2. rooms \in [RoomId -> Room]
    BY NoRoomType DEF Init
  <2>3. NoRequest \in Request
    BY MaxAgeType DEF NoRequest, Request
  <2>4. reqs \in [ReqId -> Request] /\ WellAsked
    BY <2>3 DEF Init, WellAsked, NoRequest
  <2>5. quiet \in [Pair -> [left: 0..Cooldown, withdrawn: BOOLEAN]]
        /\ cooldown \in [Pair -> 0..Cooldown]
    BY MaxAgeType DEF Init
  <2>6. TypeOK
    BY <2>2, <2>4, <2>5 DEF Init, TypeOK
  <2> QED BY <2>1, <2>4, <2>6, NoRoomType DEF RoomInv, HostPresent, OnlyByConsent, Open
<1>2. RoomInv /\ [Next]_vars => RoomInv'
  <2> SUFFICES ASSUME RoomInv, [Next]_vars PROVE RoomInv'
    OBVIOUS
  <2>1. CASE RoomStep
    <3>1. CASE \E r \in RoomId : \E p \in Local : Create(r, p)
      BY <3>1, CreateInv
    <3>2. CASE \E r \in RoomId : \E p \in Local : Join(r, p) \/ Poll(r, p) \/ Report(r, p)
      BY <3>2, SimpleInv DEF Person
    <3>3. CASE \E r \in RoomId : \E p \in Person : Leave(r, p)
      BY <3>3, SimpleInv
    <3>4. CASE List
      BY <3>4, ListInv
    <3> QED BY <2>1, <3>1, <3>2, <3>3, <3>4 DEF RoomStep
  <2>2. CASE RequestStep
    <3>1. CASE \E q \in ReqId : \E h \in Local : \E g \in Guest : Ask(q, h, g)
      BY <3>1, AskInv
    <3>2. CASE \E q \in ReqId : \E h \in Local : \E r \in RoomId : Accept(q, h, r)
      BY <3>2, AcceptInv
    <3>3. CASE \E q \in ReqId : \E h \in Local : Decline(q, h)
      BY <3>3, DeclineInv
    <3>4. CASE \E q \in ReqId : Withdraw(q)
      BY <3>4, WithdrawInv
    <3>5. CASE Pending \/ \E q \in ReqId : Status(q)
      BY <3>5, SweepOnlyInv DEF Pending, Status
    <3> QED BY <2>2, <3>1, <3>2, <3>3, <3>4, <3>5 DEF RequestStep
  <2>3. CASE RemoteStep
    BY <2>3, SimpleInv, SetGrantInv DEF RemoteStep, Person
  <2>4. CASE Tick
    BY <2>4, TickInv
  <2>5. CASE Restart
    BY <2>5, RestartInv
  <2>6. CASE UNCHANGED vars
    <3>1. UNCHANGED <<rooms, reqs, cooldown, grant, checking, quiet>>
      BY <2>6 DEF vars
    <3> QED BY <3>1, RoomsStay, RequestsStay, QuietStep DEF RoomInv, TypeOK
  <2> QED BY <2>1, <2>2, <2>3, <2>4, <2>5, <2>6 DEF Next
<1> QED BY <1>1, <1>2, PTL DEF Spec

\* Rooms, requests, cool-downs and ages stay within their types and limits.
THEOREM TogetherTypeCorrect == Spec => []TypeOK
<1>1. RoomInv => TypeOK
  BY DEF RoomInv
<1> QED BY <1>1, RoomInvariant, PTL

\* However calls, sweeps, the passing of time and a restart follow one another, a
\* room somebody is in has its host in it, and a guest is only in a room whose
\* own host accepted a request of theirs into it.
THEOREM RoomsAreHosted == Spec => [](TypeOK /\ HostPresent /\ OnlyByConsent)
<1>1. RoomInv => TypeOK /\ HostPresent /\ OnlyByConsent
  BY DEF RoomInv
<1> QED BY <1>1, RoomInvariant, PTL
---------------------------------------------------------------------------
(* One prompt.                                                             *)

\* No request is opened by this step.
NoneOpened == \A q \in ReqId : IsPending(q)' => IsPending(q) /\ PairOf(q)' = PairOf(q)

LEMMA NoneOpenedKeeps == ASSUME OneOpenRequest, NoneOpened PROVE OneOpenRequest'
  BY DEF OneOpenRequest, NoneOpened

LEMMA SweptPending ==
  ASSUME TypeOK, NEW q \in ReqId, SweptReqs(reqs)[q].state = "pending"
  PROVE  /\ IsPending(q)
         /\ SweptReqs(reqs)[q].host = reqs[q].host /\ SweptReqs(reqs)[q].guest = reqs[q].guest
<1>1. SweptReqs(reqs)[q] = SweptReq(reqs[q]) /\ reqs[q] \in Request
  BY DEF SweptReqs, TypeOK
<1> QED BY <1>1, SweepRequest DEF IsPending

LEMMA AskOnce ==
  ASSUME RoomInv, OneOpenRequest, NEW q \in ReqId, NEW h \in Local, NEW g \in Guest, Ask(q, h, g)
  PROVE  OneOpenRequest'
<1> DEFINE swept == SweptReqs(reqs)
           new == [state |-> IF SweptCooldown(reqs)[<<h, g>>] > 0 THEN "declined" ELSE "pending",
                   host |-> h, guest |-> g, room |-> NoOne, age |-> 0]
<1>1. /\ reqs'[q] = new
      /\ \A i \in ReqId \ {q} :
           reqs'[i] = IF /\ new.state = "pending" /\ swept[i].state = "pending"
                         /\ swept[i].host = h /\ swept[i].guest = g
                      THEN Become(swept[i], "gone", 0) ELSE swept[i]
  BY DEF Ask
<1>2. new.host = h /\ new.guest = g
  OBVIOUS
<1> HIDE DEF swept, new
<1>0. \A i \in ReqId : Become(swept[i], "gone", 0).state = "gone"
  BY DEF Become
<1>3. ASSUME NEW i \in ReqId \ {q}, reqs'[i].state = "pending"
      PROVE  /\ swept[i].state = "pending" /\ reqs'[i] = swept[i]
             /\ ~(new.state = "pending" /\ swept[i].host = h /\ swept[i].guest = g)
  <2>1. CASE /\ new.state = "pending" /\ swept[i].state = "pending"
             /\ swept[i].host = h /\ swept[i].guest = g
    BY <1>0, <1>1, <1>3, <2>1
  <2>2. CASE ~(/\ new.state = "pending" /\ swept[i].state = "pending"
               /\ swept[i].host = h /\ swept[i].guest = g)
    <3>1. reqs'[i] = swept[i]
      BY <1>1, <2>2
    <3> QED BY <1>3, <2>2, <3>1
  <2> QED BY <2>1, <2>2
<1>4. ASSUME NEW i \in ReqId \ {q}, reqs'[i].state = "pending"
      PROVE  /\ IsPending(i) /\ PairOf(i)' = PairOf(i)
             /\ new.state = "pending" => PairOf(i) # <<h, g>>
  BY <1>3, <1>4, SweptPending DEF RoomInv, PairOf, swept
<1> SUFFICES ASSUME NEW i \in ReqId, NEW j \in ReqId, IsPending(i)', IsPending(j)',
                    PairOf(i)' = PairOf(j)'
             PROVE  i = j
  BY DEF OneOpenRequest
<1>5. CASE i # q /\ j # q
  BY <1>4, <1>5 DEF OneOpenRequest, IsPending
<1>6. CASE i = q /\ j # q
  BY <1>1, <1>2, <1>4, <1>6 DEF IsPending, PairOf
<1>7. CASE i # q /\ j = q
  BY <1>1, <1>2, <1>4, <1>7 DEF IsPending, PairOf
<1> QED BY <1>5, <1>6, <1>7

\* Whatever a paired server repeats, a host has one prompt of one asker.
THEOREM OnePrompt == Spec => []OneOpenRequest
<1>1. Init => OneOpenRequest
  BY DEF Init, OneOpenRequest, IsPending, NoRequest
<1>2. RoomInv /\ OneOpenRequest /\ [Next]_vars => OneOpenRequest'
  <2> SUFFICES ASSUME RoomInv, OneOpenRequest, [Next]_vars PROVE OneOpenRequest'
    OBVIOUS
  <2>1. CASE reqs' = reqs
    BY <2>1, NoneOpenedKeeps DEF NoneOpened, IsPending, PairOf
  <2>2. CASE reqs' = SweptReqs(reqs)
    BY <2>2, SweptPending, NoneOpenedKeeps DEF NoneOpened, IsPending, PairOf, RoomInv
  <2>3. CASE \E q \in ReqId : \E h \in Local : \E g \in Guest : Ask(q, h, g)
    BY <2>3, AskOnce
  <2>4. ASSUME NEW q \in ReqId, NEW x, x.state # "pending",
               \E Q \in {reqs, SweptReqs(reqs)} : reqs' = [Q EXCEPT ![q] = x]
        PROVE  OneOpenRequest'
    <3>1. PICK Q \in {reqs, SweptReqs(reqs)} : reqs' = [Q EXCEPT ![q] = x]
      BY <2>4
    <3>2. DOMAIN Q = ReqId
      BY DEF SweptReqs, RoomInv, TypeOK
    <3>3. \A i \in ReqId : reqs'[i] = IF i = q THEN x ELSE Q[i]
      BY <3>1, <3>2
    <3>4. ASSUME NEW i \in ReqId, reqs'[i].state = "pending"
          PROVE  IsPending(i) /\ reqs'[i].host = reqs[i].host /\ reqs'[i].guest = reqs[i].guest
      BY <2>4, <3>1, <3>3, <3>4, SweptPending DEF RoomInv, IsPending
    <3>5. NoneOpened
      BY <3>4 DEF NoneOpened, IsPending, PairOf
    <3> QED BY <3>5, NoneOpenedKeeps
  <2>5. CASE \E q \in ReqId : \E h \in Local : \E r \in RoomId : Accept(q, h, r)
    <3>1. PICK q \in ReqId, h \in Local, r \in RoomId : Accept(q, h, r)
      BY <2>5
    <3> DEFINE x == [Become(SweptReqs(reqs)[q], "accepted", 0) EXCEPT !.room = r]
    <3>2. x.state = "accepted" /\ reqs' = [SweptReqs(reqs) EXCEPT ![q] = x]
      BY <3>1 DEF Accept, Become
    <3> HIDE DEF x
    <3> QED BY <3>2, <2>4
  <2>6. CASE \E q \in ReqId : \E h \in Local : Decline(q, h)
    <3>1. PICK q \in ReqId, h \in Local : Decline(q, h)
      BY <2>6
    <3> DEFINE x == Become(SweptReqs(reqs)[q], "declined", 0)
    <3>2. x.state = "declined" /\ reqs' = [SweptReqs(reqs) EXCEPT ![q] = x]
      BY <3>1 DEF Decline, Become
    <3> HIDE DEF x
    <3> QED BY <3>2, <2>4
  <2>7. CASE \E q \in ReqId : Withdraw(q)
    <3>1. PICK q \in ReqId : Withdraw(q)
      BY <2>7
    <3> DEFINE x == Become(reqs[q], "gone", 0)
    <3>2. x.state = "gone" /\ reqs' = [reqs EXCEPT ![q] = x]
      BY <3>1 DEF Withdraw, Become
    <3> HIDE DEF x
    <3> QED BY <3>2, <2>4
  <2>8. CASE RequestStep
    BY <2>8, <2>2, <2>3, <2>5, <2>6, <2>7 DEF RequestStep, Pending, Status, SweepRequests
  <2>9. CASE RoomStep \/ RemoteStep
    BY <2>9, <2>1 DEF RoomStep, RemoteStep, Create, Join, Poll, Report, Leave, List,
                      RemoteCall, Check, CheckFails, SetGrant
  <2>10. CASE Tick \/ Restart
    <3>1. NoneOpened
      BY <2>10 DEF Tick, Restart, Become, NoneOpened, IsPending, PairOf
    <3> QED BY <3>1, NoneOpenedKeeps
  <2>11. CASE UNCHANGED vars
    BY <2>11, <2>1 DEF vars
  <2> QED BY <2>8, <2>9, <2>10, <2>11 DEF Next
<1>3. Spec => []RoomInv
  BY RoomInvariant
<1> QED BY <1>1, <1>2, <1>3, PTL DEF Spec

\* A host that is heard from keeps its room, however long it was silent.
THEOREM HeardHostKeepsRoom == Spec => OnTimeKeepsRoom
<1>1. ASSUME RoomInv, NEW r \in RoomId, NEW h \in Local, Open(r), rooms[r].host = h,
             Poll(r, h) \/ Report(r, h) \/ Join(r, h)
      PROVE  rooms'[r].members # {}
  <2> DEFINE R == [rooms EXCEPT ![r] = Seen(@, h)]
             m == Seen(rooms[r], h)
  <2>1. rooms' = Swept(R)
    BY <1>1 DEF Poll, Report, Join, JoinLocked
  <2>2. rooms'[r] = SweepRoom(m)
    BY <2>1, <1>1 DEF Swept, RoomInv, TypeOK
  <2>3. m.host = h /\ h \in m.members /\ m.seen[h] = 0
    BY <1>1 DEF Seen, RoomInv, TypeOK, Room, Person
  <2> HIDE DEF m
  <2>4. 0 <= Idle
    BY MaxAgeType
  <2>5. h \in SweepRoom(m).members
    BY <2>3, <2>4 DEF SweepRoom, Keep
  <2> QED BY <2>2, <2>5
<1>2. RoomInv /\ [Next]_vars =>
        [\A r \in RoomId : \A h \in Local :
           /\ Open(r) /\ rooms[r].host = h
           /\ Poll(r, h) \/ Report(r, h) \/ Join(r, h)
           => rooms'[r].members # {}]_vars
  BY <1>1
<1>3. Spec => []RoomInv
  BY RoomInvariant
<1> QED BY <1>2, <1>3, PTL DEF Spec, OnTimeKeepsRoom
---------------------------------------------------------------------------
(* A no holds.                                                             *)

\* What a host is owed, it gets: whether the no was looked at already (the
\* cool-down runs) or is silence nobody has swept up yet (the one request that
\* ran out stands for the cool-down it will leave).
Owing ==
  \A c \in Pair : ~quiet[c].withdrawn =>
    /\ \A q \in ReqId : TimedOut(reqs[q]) /\ PairOf(q) = c => quiet[c].left <= Owed(reqs[q])
    /\ (\A q \in ReqId : ~(TimedOut(reqs[q]) /\ PairOf(q) = c)) => quiet[c].left <= cooldown[c]

\* The sweep turns what is owed into a cool-down of that length.
LEMMA SweepPays ==
  ASSUME TypeOK, Owing, NEW c \in Pair, ~quiet[c].withdrawn
  PROVE  quiet[c].left <= SweptCooldown(reqs)[c]
<1> DEFINE Out(i) == TimedOut(reqs[i]) /\ <<reqs[i].host, reqs[i].guest>> = c
           j == CHOOSE i \in ReqId : Out(i)
<1>1. SweptCooldown(reqs)[c] = IF \E i \in ReqId : Out(i) THEN Owed(reqs[j]) ELSE cooldown[c]
  BY DEF SweptCooldown
<1>2. CASE \E i \in ReqId : Out(i)
  <2>1. j \in ReqId /\ Out(j)
    BY <1>2
  <2> HIDE DEF j
  <2>2. quiet[c].left <= Owed(reqs[j])
    BY <2>1 DEF Owing, PairOf
  <2> QED BY <1>1, <1>2, <2>2
<1>3. CASE ~ \E i \in ReqId : Out(i)
  <2>1. quiet[c].left <= cooldown[c]
    BY <1>3 DEF Owing, PairOf
  <2> QED BY <1>1, <1>3, <2>1
<1> QED BY <1>2, <1>3

LEMMA SweptNotOut ==
  ASSUME TypeOK, NEW q \in ReqId
  PROVE  /\ ~TimedOut(SweptReqs(reqs)[q])
         /\ SweptReqs(reqs)[q].state = "pending" => ~TimedOut(reqs[q])
<1>1. SweptReqs(reqs)[q] = SweptReq(reqs[q])
  BY DEF SweptReqs
<1>2. CASE TimedOut(reqs[q])
  BY <1>1, <1>2 DEF SweptReq, Lapse, Forget, Become, TimedOut
<1>3. CASE ~TimedOut(reqs[q])
  BY <1>1, <1>3 DEF SweptReq, Lapse, Forget, Become, TimedOut
<1> QED BY <1>2, <1>3

\* After a step that swept, nothing is out of time and the cool-downs say it all.
LEMMA SweptOwing ==
  ASSUME TypeOK, Owing, \A q \in ReqId : ~TimedOut(reqs'[q]),
         cooldown' = SweptCooldown(reqs), quiet' = quiet
  PROVE  Owing'
<1> SUFFICES ASSUME NEW c \in Pair, ~quiet[c].withdrawn
             PROVE  quiet[c].left <= cooldown'[c]
  BY DEF Owing
<1> QED BY SweepPays

LEMMA TickOwing == ASSUME RoomInv, OneOpenRequest, Owing, Tick PROVE Owing'
<1>1. \A q \in ReqId : /\ reqs[q] \in Request /\ reqs[q].age \in 0..MaxAge
                       /\ \/ reqs'[q] = reqs[q] /\ reqs[q].state \in {"unused", "gone"}
                          \/ reqs'[q] = Become(reqs[q], reqs[q].state, Older(reqs[q].age, MaxAge))
  BY DEF Tick, RoomInv, TypeOK, Request
<1>2. ASSUME NEW q \in ReqId, TimedOut(reqs'[q])
      PROVE  /\ IsPending(q) /\ PairOf(q)' = PairOf(q) /\ reqs[q].age \in 0..MaxAge
             /\ reqs'[q].age = Older(reqs[q].age, MaxAge) /\ reqs[q].age >= Timeout
  <2>1. reqs'[q].state = "pending" /\ reqs'[q].age > Timeout
    BY <1>2 DEF TimedOut
  <2>2. reqs'[q] = Become(reqs[q], reqs[q].state, Older(reqs[q].age, MaxAge))
    BY <1>1, <2>1
  <2>3. reqs'[q].age = Older(reqs[q].age, MaxAge) /\ IsPending(q) /\ PairOf(q)' = PairOf(q)
    BY <2>1, <2>2 DEF Become, IsPending, PairOf
  <2> QED BY <1>1, <2>1, <2>3, MaxAgeType DEF Older
<1>3. ASSUME NEW q \in ReqId, IsPending(q), reqs[q].age >= Timeout PROVE TimedOut(reqs'[q])
  <2>1. reqs'[q] = Become(reqs[q], "pending", Older(reqs[q].age, MaxAge))
    BY <1>1, <1>3 DEF IsPending
  <2>2. Older(reqs[q].age, MaxAge) > Timeout
    BY <1>1, <1>3, MaxAgeType DEF Older
  <2> QED BY <2>1, <2>2 DEF Become, TimedOut
<1> SUFFICES ASSUME NEW c \in Pair, ~quiet'[c].withdrawn
             PROVE  /\ \A q \in ReqId : TimedOut(reqs'[q]) /\ PairOf(q)' = c
                         => quiet'[c].left <= Owed(reqs'[q])
                    /\ (\A q \in ReqId : ~(TimedOut(reqs'[q]) /\ PairOf(q)' = c))
                         => quiet'[c].left <= cooldown'[c]
  BY DEF Owing
<1> DEFINE Runs(q) == IsPending(q) /\ PairOf(q) = c /\ reqs[q].age = Timeout
<1>4. /\ quiet[c].left \in 0..Cooldown /\ quiet[c].withdrawn \in BOOLEAN
      /\ cooldown[c] \in 0..Cooldown /\ Cooldown \in Nat
  BY MaxAgeType DEF RoomInv, TypeOK
<1>5. cooldown'[c] = IF cooldown[c] > 0 THEN cooldown[c] - 1 ELSE 0
  BY DEF Tick
<1>6. CASE \E q \in ReqId : Runs(q)
  <2>1. PICK q \in ReqId : Runs(q)
    BY <1>6
  <2>2. quiet'[c].left = Cooldown - 1
    BY <1>6 DEF Tick
  <2>3. TimedOut(reqs'[q]) /\ PairOf(q)' = c
    BY <2>1, <1>2, <1>3, MaxAgeType
  <2>4. ASSUME NEW p \in ReqId, TimedOut(reqs'[p]), PairOf(p)' = c
        PROVE  quiet'[c].left <= Owed(reqs'[p])
    <3>1. p = q
      BY <2>1, <2>4, <1>2 DEF OneOpenRequest
    <3>2. reqs'[p].age = Timeout + 1
      BY <2>1, <2>4, <3>1, <1>2, MaxAgeType DEF Older
    <3> QED BY <2>2, <3>2, MaxAgeType DEF Owed
  <2> QED BY <2>3, <2>4
<1>7. CASE ~ \E q \in ReqId : Runs(q)
  <2>1. /\ quiet[c].left > 1 => quiet'[c].left = quiet[c].left - 1 /\ ~quiet[c].withdrawn
        /\ ~(quiet[c].left > 1) => quiet'[c].left = 0
    BY <1>7 DEF Tick
  <2>2. ASSUME NEW p \in ReqId, TimedOut(reqs'[p]), PairOf(p)' = c
        PROVE  quiet'[c].left <= Owed(reqs'[p])
    <3>1. /\ IsPending(p) /\ PairOf(p) = c /\ reqs[p].age > Timeout
          /\ reqs[p].age \in 0..MaxAge /\ reqs'[p].age = Older(reqs[p].age, MaxAge)
      BY <2>2, <1>2, <1>7, MaxAgeType
    <3>2. TimedOut(reqs[p])
      BY <3>1 DEF TimedOut, IsPending
    <3>3. CASE quiet[c].left > 1
      <4>1. quiet[c].left <= Owed(reqs[p])
        BY <2>1, <3>1, <3>2, <3>3 DEF Owing
      <4> QED BY <4>1, <3>1, <3>3, <2>1, <1>4, MaxAgeType DEF Owed, Older
    <3>4. CASE ~(quiet[c].left > 1)
      BY <3>1, <3>4, <2>1, MaxAgeType DEF Owed, Older
    <3> QED BY <3>3, <3>4
  <2>3. ASSUME \A q \in ReqId : ~(TimedOut(reqs'[q]) /\ PairOf(q)' = c)
        PROVE  quiet'[c].left <= cooldown'[c]
    <3>1. CASE quiet[c].left > 1
      <4>1. ASSUME NEW q \in ReqId, TimedOut(reqs[q]), PairOf(q) = c PROVE FALSE
        <5>1. IsPending(q) /\ reqs[q].age >= Timeout
          BY <4>1, <1>1, MaxAgeType DEF TimedOut, IsPending
        <5> QED BY <5>1, <4>1, <2>3, <1>2, <1>3
      <4>2. quiet[c].left <= cooldown[c]
        BY <4>1, <3>1, <2>1 DEF Owing
      <4> QED BY <4>2, <3>1, <2>1, <1>4, <1>5
    <3>2. CASE ~(quiet[c].left > 1)
      BY <3>2, <2>1, <1>4, <1>5
    <3> QED BY <3>1, <3>2
  <2> QED BY <2>2, <2>3
<1> QED BY <1>6, <1>7

\* A step that answers one open request and sweeps the rest.
LEMMA AnswerNotOut ==
  ASSUME TypeOK, NEW q \in ReqId, NEW x, x.state # "pending",
         reqs' = [SweptReqs(reqs) EXCEPT ![q] = x]
  PROVE  \A i \in ReqId : ~TimedOut(reqs'[i])
<1> SUFFICES ASSUME NEW i \in ReqId PROVE ~TimedOut(reqs'[i])
  OBVIOUS
<1>1. reqs'[i] = IF i = q THEN x ELSE SweptReqs(reqs)[i]
  BY DEF SweptReqs
<1> QED BY <1>1, SweptNotOut DEF TimedOut

LEMMA AskNotOut ==
  ASSUME TypeOK, NEW q \in ReqId, NEW h \in Local, NEW g \in Guest, Ask(q, h, g)
  PROVE  \A i \in ReqId : ~TimedOut(reqs'[i])
<1> SUFFICES ASSUME NEW i \in ReqId PROVE ~TimedOut(reqs'[i])
  OBVIOUS
<1>1. CASE i = q
  <2>1. reqs'[i].age = 0
    BY <1>1 DEF Ask
  <2> QED BY <2>1, MaxAgeType DEF TimedOut
<1>2. CASE i # q
  <2>1. reqs'[i] = SweptReqs(reqs)[i] \/ reqs'[i] = Become(SweptReqs(reqs)[i], "gone", 0)
    BY <1>2 DEF Ask
  <2> QED BY <2>1, SweptNotOut DEF TimedOut, Become
<1> QED BY <1>1, <1>2

LEMMA DeclineOwing ==
  ASSUME RoomInv, Owing, NEW q \in ReqId, NEW h \in Local, Decline(q, h)
  PROVE  Owing'
<1> DEFINE x == Become(SweptReqs(reqs)[q], "declined", 0)
<1>1. x.state = "declined" /\ reqs' = [SweptReqs(reqs) EXCEPT ![q] = x]
  BY DEF Decline, Become
<1> HIDE DEF x
<1>2. \A i \in ReqId : ~TimedOut(reqs'[i])
  BY <1>1, AnswerNotOut DEF RoomInv
<1>3. SweptReqs(reqs)[q].state = "pending"
  BY DEF Decline, OpenFor
<1>4. PairOf(q) \in Pair
  BY <1>3, SweptPending DEF RoomInv, WellAsked, IsPending
<1>5. /\ cooldown' = [SweptCooldown(reqs) EXCEPT ![PairOf(q)] = Cooldown]
      /\ quiet' = [quiet EXCEPT ![PairOf(q)] = [left |-> Cooldown, withdrawn |-> FALSE]]
      /\ SweptCooldown(reqs) \in [Pair -> 0..Cooldown]
      /\ DOMAIN quiet = Pair /\ Cooldown \in Nat
  BY SweepCooldown, MaxAgeType DEF Decline, RoomInv, TypeOK
<1> SUFFICES ASSUME NEW c \in Pair, ~quiet'[c].withdrawn
             PROVE  quiet'[c].left <= cooldown'[c]
  BY <1>2 DEF Owing
<1>6. CASE c = PairOf(q)
  BY <1>4, <1>5, <1>6
<1>7. CASE c # PairOf(q)
  <2>1. quiet'[c] = quiet[c] /\ cooldown'[c] = SweptCooldown(reqs)[c]
    BY <1>5, <1>7
  <2>2. quiet[c].left <= SweptCooldown(reqs)[c]
    BY <2>1, SweepPays DEF RoomInv
  <2> QED BY <2>1, <2>2
<1> QED BY <1>6, <1>7

LEMMA WithdrawOwing ==
  ASSUME RoomInv, Owing, NEW q \in ReqId, Withdraw(q)
  PROVE  Owing'
<1>1. /\ reqs'[q] = Become(reqs[q], "gone", 0) /\ IsPending(q) /\ cooldown' = cooldown
      /\ \A i \in ReqId \ {q} : reqs'[i] = reqs[i]
      /\ DOMAIN quiet = Pair
  BY DEF Withdraw, RoomInv, TypeOK
<1>2. ~TimedOut(reqs'[q])
  BY <1>1 DEF Become, TimedOut
<1>3. PairOf(q) \in Pair
  BY <1>1 DEF RoomInv, WellAsked, IsPending
<1> SUFFICES ASSUME NEW c \in Pair, ~quiet'[c].withdrawn
             PROVE  /\ \A i \in ReqId : TimedOut(reqs'[i]) /\ PairOf(i)' = c
                         => quiet'[c].left <= Owed(reqs'[i])
                    /\ (\A i \in ReqId : ~(TimedOut(reqs'[i]) /\ PairOf(i)' = c))
                         => quiet'[c].left <= cooldown'[c]
  BY DEF Owing
<1>4. \A i \in ReqId : TimedOut(reqs'[i]) => i # q /\ reqs'[i] = reqs[i] /\ PairOf(i)' = PairOf(i)
  BY <1>1, <1>2 DEF PairOf
<1>5. quiet'[c] = quiet[c]
  BY <1>1, <1>3 DEF Withdraw
<1>6. CASE c = PairOf(q)
  <2>1. quiet[c].left = 0
    BY <1>1, <1>3, <1>5, <1>6 DEF Withdraw
  <2>2. cooldown[c] \in 0..Cooldown /\ quiet[c].left <= cooldown[c]
    BY <2>1 DEF RoomInv, TypeOK
  <2>3. ASSUME NEW i \in ReqId, TimedOut(reqs'[i]), PairOf(i)' = c
        PROVE  quiet'[c].left <= Owed(reqs'[i])
    BY <2>3, <1>4, <1>5 DEF Owing
  <2> QED BY <1>1, <1>5, <2>2, <2>3
<1>7. CASE c # PairOf(q)
  <2>1. ASSUME NEW i \in ReqId, TimedOut(reqs[i]), PairOf(i) = c
        PROVE  TimedOut(reqs'[i]) /\ PairOf(i)' = c
    BY <2>1, <1>1, <1>7 DEF PairOf
  <2> QED BY <1>1, <1>4, <1>5, <2>1 DEF Owing
<1> QED BY <1>6, <1>7

LEMMA OwingInvariant == Spec => []Owing
<1>1. Init => Owing
  <2> SUFFICES ASSUME Init, NEW c \in Pair
               PROVE  /\ \A q \in ReqId : ~TimedOut(reqs[q])
                      /\ quiet[c].left <= cooldown[c]
    BY DEF Owing
  <2> QED BY DEF Init, NoRequest, TimedOut
<1>2. RoomInv /\ OneOpenRequest /\ Owing /\ [Next]_vars => Owing'
  <2> SUFFICES ASSUME RoomInv, OneOpenRequest, Owing, [Next]_vars PROVE Owing'
    OBVIOUS
  <2>1. CASE UNCHANGED <<reqs, cooldown, quiet>>
    BY <2>1 DEF Owing, PairOf
  <2>2. CASE Pending \/ \E q \in ReqId : Status(q)
    <3>1. SweepRequests /\ UNCHANGED quiet
      BY <2>2 DEF Pending, Status
    <3> QED BY <3>1, SweptNotOut, SweptOwing DEF SweepRequests, RoomInv
  <2>3. CASE \E q \in ReqId : \E h \in Local : \E g \in Guest : Ask(q, h, g)
    <3>1. PICK q \in ReqId, h \in Local, g \in Guest : Ask(q, h, g)
      BY <2>3
    <3>2. cooldown' = SweptCooldown(reqs) /\ quiet' = quiet
      BY <3>1 DEF Ask
    <3> QED BY <3>1, <3>2, AskNotOut, SweptOwing DEF RoomInv
  <2>4. CASE \E q \in ReqId : \E h \in Local : \E r \in RoomId : Accept(q, h, r)
    <3>1. PICK q \in ReqId, h \in Local, r \in RoomId : Accept(q, h, r)
      BY <2>4
    <3> DEFINE x == [Become(SweptReqs(reqs)[q], "accepted", 0) EXCEPT !.room = r]
    <3>2. x.state = "accepted" /\ reqs' = [SweptReqs(reqs) EXCEPT ![q] = x]
      BY <3>1 DEF Accept, Become
    <3> HIDE DEF x
    <3>3. cooldown' = SweptCooldown(reqs) /\ quiet' = quiet
      BY <3>1 DEF Accept
    <3>4. \A i \in ReqId : ~TimedOut(reqs'[i])
      BY <3>2, AnswerNotOut DEF RoomInv
    <3> QED BY <3>3, <3>4, SweptOwing DEF RoomInv
  <2>5. CASE \E q \in ReqId : \E h \in Local : Decline(q, h)
    BY <2>5, DeclineOwing
  <2>6. CASE \E q \in ReqId : Withdraw(q)
    BY <2>6, WithdrawOwing
  <2>7. CASE Tick
    BY <2>7, TickOwing
  <2>8. CASE Restart
    <3>1. \A q \in ReqId : ~TimedOut(reqs'[q])
      BY <2>8 DEF Restart, Become, TimedOut
    <3>2. \A c \in Pair : quiet'[c].left <= cooldown'[c]
      BY <2>8 DEF Restart
    <3> QED BY <3>1, <3>2 DEF Owing
  <2>9. CASE RoomStep \/ RemoteStep
    BY <2>9, <2>1 DEF RoomStep, RemoteStep, Create, Join, Poll, Report, Leave, List,
                      RemoteCall, Check, CheckFails, SetGrant
  <2>10. CASE UNCHANGED vars
    BY <2>10, <2>1 DEF vars
  <2> QED BY <2>2, <2>3, <2>4, <2>5, <2>6, <2>7, <2>8, <2>9, <2>10 DEF Next, RequestStep
<1> QED BY <1>1, <1>2, RoomInvariant, OnePrompt, PTL DEF Spec

\* What becomes of a request that is over, or out of time.
Final(q) == /\ reqs'[q].state # "accepted"
            /\ reqs'[q].state = "pending" => TimedOut(reqs'[q])
Over(q) == TimedOut(reqs[q]) \/ reqs[q].state \in {"declined", "gone"}

LEMMA SweptFinal ==
  ASSUME TypeOK, NEW q \in ReqId, Over(q)
  PROVE  SweptReqs(reqs)[q].state \notin {"accepted", "pending"}
<1>1. SweptReqs(reqs)[q] = SweptReq(reqs[q]) /\ reqs[q] \in Request
  BY DEF SweptReqs, TypeOK
<1>2. ~TimedOut(SweptReqs(reqs)[q]) /\ (SweptReqs(reqs)[q].state = "pending" => ~TimedOut(reqs[q]))
  BY SweptNotOut
<1> QED BY <1>1, <1>2, SweepRequest DEF Over, TimedOut

LEMMA OverStaysOver ==
  ASSUME TypeOK, [Next]_vars, NEW q \in ReqId, Over(q)
  PROVE  Final(q)
<1>1. CASE reqs'[q] = reqs[q]
  BY <1>1 DEF Over, Final, TimedOut
<1>2. CASE reqs'[q] = SweptReqs(reqs)[q]
  BY <1>2, SweptFinal DEF Final
<1>3. CASE reqs'[q].state \in {"declined", "gone", "unused"}
  BY <1>3 DEF Final
<1>4. ASSUME NEW p \in ReqId, NEW h \in Local, NEW g \in Guest, Ask(p, h, g) PROVE Final(q)
  <2>1. p # q
    BY <1>4 DEF Ask, Over, TimedOut
  <2>2. reqs'[q] = SweptReqs(reqs)[q] \/ reqs'[q] = Become(SweptReqs(reqs)[q], "gone", 0)
    BY <1>4, <2>1 DEF Ask
  <2> QED BY <2>2, <1>2, <1>3 DEF Become
<1>5. ASSUME NEW p \in ReqId, NEW h \in Local, NEW r \in RoomId, Accept(p, h, r) PROVE Final(q)
  <2>1. SweptReqs(reqs)[p].state = "pending"
    BY <1>5 DEF Accept, OpenFor
  <2>2. p # q
    BY <2>1, SweptFinal
  <2>3. reqs'[q] = SweptReqs(reqs)[q]
    BY <1>5, <2>2 DEF Accept, SweptReqs
  <2> QED BY <2>3, <1>2
<1>6. ASSUME NEW p \in ReqId, NEW h \in Local, Decline(p, h) PROVE Final(q)
  <2>1. reqs'[q] = SweptReqs(reqs)[q] \/ reqs'[q] = Become(SweptReqs(reqs)[q], "declined", 0)
    BY <1>6 DEF Decline, SweptReqs
  <2> QED BY <2>1, <1>2, <1>3 DEF Become
<1>7. ASSUME NEW p \in ReqId, Withdraw(p) PROVE Final(q)
  <2>1. reqs'[q] = reqs[q] \/ reqs'[q] = Become(reqs[q], "gone", 0)
    BY <1>7 DEF Withdraw, TypeOK
  <2> QED BY <2>1, <1>1, <1>3 DEF Become
<1>8. CASE Pending \/ \E p \in ReqId : Status(p)
  BY <1>8, <1>2 DEF Pending, Status, SweepRequests
<1>9. CASE Tick
  <2>1. CASE TimedOut(reqs[q])
    <3>1. reqs'[q] = Become(reqs[q], "pending", Older(reqs[q].age, MaxAge))
      BY <1>9, <2>1 DEF Tick, TimedOut
    <3>2. reqs[q].age \in 0..MaxAge /\ reqs[q].age > Timeout
      BY <2>1 DEF TimedOut, TypeOK, Request
    <3>3. Older(reqs[q].age, MaxAge) > Timeout
      BY <3>2, MaxAgeType DEF Older
    <3> QED BY <3>1, <3>3 DEF Final, TimedOut, Become
  <2>2. CASE reqs[q].state = "declined"
    BY <1>9, <2>2, <1>3 DEF Tick, Become
  <2>3. CASE reqs[q].state = "gone"
    BY <1>9, <2>3, <1>1 DEF Tick
  <2> QED BY <2>1, <2>2, <2>3 DEF Over
<1>10. CASE Restart
  BY <1>10, <1>3 DEF Restart, Become
<1>11. CASE RoomStep \/ RemoteStep
  BY <1>11, <1>1 DEF RoomStep, RemoteStep, Create, Join, Poll, Report, Leave, List,
                     RemoteCall, Check, CheckFails, SetGrant
<1>12. CASE UNCHANGED vars
  BY <1>12, <1>1 DEF vars
<1> QED BY <1>4, <1>5, <1>6, <1>7, <1>8, <1>9, <1>10, <1>11, <1>12 DEF Next, RequestStep

LEMMA PromptsOwedNothing ==
  ASSUME RoomInv, Owing, [Next]_vars, NEW q \in ReqId, Prompts(q)
  PROVE  quiet[AskedOf(q)].left = 0 \/ quiet[AskedOf(q)].withdrawn
<1>1. reqs[q].state = "unused" /\ reqs'[q].state = "pending"
  BY DEF Prompts
<1>2. SweptReqs(reqs)[q].state # "pending"
  BY <1>1, SweptPending DEF RoomInv, IsPending
<1>3. PICK h \in Local, g \in Guest : Ask(q, h, g)
  <2>1. CASE Pending \/ \E p \in ReqId : Status(p)
    BY <2>1, <1>1, <1>2 DEF Pending, Status, SweepRequests
  <2>2. ASSUME NEW p \in ReqId, NEW h \in Local, NEW g \in Guest, Ask(p, h, g), p # q PROVE FALSE
    BY <2>2, <1>1, <1>2 DEF Ask, Become
  <2>3. ASSUME NEW p \in ReqId, NEW h \in Local, NEW r \in RoomId, Accept(p, h, r) PROVE FALSE
    <3> DEFINE x == [Become(SweptReqs(reqs)[p], "accepted", 0) EXCEPT !.room = r]
    <3>1. x.state = "accepted" /\ reqs' = [SweptReqs(reqs) EXCEPT ![p] = x]
      BY <2>3 DEF Accept, Become
    <3> HIDE DEF x
    <3> QED BY <3>1, <1>1, <1>2 DEF SweptReqs
  <2>4. ASSUME NEW p \in ReqId, NEW h \in Local, Decline(p, h) PROVE FALSE
    BY <2>4, <1>1, <1>2 DEF Decline, Become, SweptReqs
  <2>5. ASSUME NEW p \in ReqId, Withdraw(p) PROVE FALSE
    BY <2>5, <1>1 DEF Withdraw, Become, RoomInv, TypeOK
  <2>6. CASE Tick \/ Restart
    BY <2>6, <1>1 DEF Tick, Restart
  <2>7. CASE RoomStep \/ RemoteStep
    BY <2>7, <1>1 DEF RoomStep, RemoteStep, Create, Join, Poll, Report, Leave, List,
                      RemoteCall, Check, CheckFails, SetGrant
  <2>8. CASE UNCHANGED vars
    BY <2>8, <1>1 DEF vars
  <2> QED BY <2>1, <2>2, <2>3, <2>4, <2>5, <2>6, <2>7, <2>8 DEF Next, RequestStep
<1> DEFINE c == <<h, g>>
<1>4. c \in grant /\ AskedOf(q) = c /\ ~(SweptCooldown(reqs)[c] > 0)
  BY <1>1, <1>3 DEF Ask, AskedOf
<1>5. c \in Pair
  BY <1>4 DEF RoomInv, TypeOK
<1> HIDE DEF c
<1>6. quiet[c].left \in 0..Cooldown /\ SweptCooldown(reqs)[c] \in 0..Cooldown /\ Cooldown \in Nat
  BY <1>5, SweepCooldown, MaxAgeType DEF RoomInv, TypeOK
<1>7. ~quiet[c].withdrawn => quiet[c].left <= SweptCooldown(reqs)[c]
  BY <1>5, SweepPays DEF RoomInv
<1> QED BY <1>4, <1>6, <1>7

\* A request that is over is over, and the host hears nothing of its asker for as
\* long as the no holds, whoever sweeps it up and whenever.
THEOREM NoIsANo == Spec => NoMeansNo
<1>1. RoomInv /\ Owing /\ [Next]_vars =>
        [\A q \in ReqId : TimedOut(reqs[q]) \/ reqs[q].state \in {"declined", "gone"}
           => reqs'[q].state # "accepted"
              /\ (reqs'[q].state = "pending" => TimedOut(reqs'[q]))]_vars
  BY OverStaysOver DEF RoomInv, Over, Final
<1>2. RoomInv /\ Owing /\ [Next]_vars =>
        [\A q \in ReqId : Prompts(q) =>
           quiet[AskedOf(q)].left = 0 \/ quiet[AskedOf(q)].withdrawn]_vars
  BY PromptsOwedNothing
<1>3. Spec => NoIsFinal
  BY <1>1, RoomInvariant, OwingInvariant, PTL DEF Spec, NoIsFinal
<1>4. Spec => NoNaggingUnlessWithdrawn
  BY <1>2, RoomInvariant, OwingInvariant, PTL DEF Spec, NoNaggingUnlessWithdrawn
<1> QED BY <1>3, <1>4 DEF NoMeansNo
---------------------------------------------------------------------------
(* A guest's stay.                                                         *)

\* g comes into r, or has its absence forgotten.
Renewed(r, g) == /\ g \in rooms'[r].members
                 /\ g \notin rooms[r].members \/ rooms'[r].seen[g] < rooms[r].seen[g]

SaysYes(q, r, g) == /\ IsPending(q) /\ reqs'[q].state = "accepted"
                    /\ reqs[q].host = rooms[r].host
                    /\ reqs[q].guest = g /\ reqs'[q].room = r

\* A guest's time in a room is renewed only by the host's yes, or by a call of its own
\* whose grant is then read; and reading that it is gone puts the guest out.  So a
\* revoked guest stays no longer than somebody unheard of: the safety half of
\* RevokedStops.
StayIsEarned ==
  [][\A r \in RoomId, g \in Guest :
       /\ Renewed(r, g) => <<r, g>> \in checking' \/ \E q \in ReqId : SaysYes(q, r, g)
       /\ Check(r, g) /\ <<rooms[r].host, g>> \notin grant => g \notin rooms'[r].members]_vars

\* Who outlasts a sweep is as long unseen as before.
LEMMA SweptSeen ==
  ASSUME NEW R \in [RoomId -> Room], NEW r \in RoomId, NEW p \in Swept(R)[r].members
  PROVE  p \in R[r].members /\ Swept(R)[r].seen[p] = R[r].seen[p]
<1>1. R[r] \in Room /\ R[r].members \subseteq Person /\ Swept(R)[r] = SweepRoom(R[r])
  BY DEF Room, Swept
<1>2. p \in R[r].members
  BY <1>1, SweepKeeps
<1> QED BY <1>1, <1>2 DEF SweepRoom, Keep

\* A call renews the caller's stay and nobody else's.
LEMMA CallRenews ==
  ASSUME TypeOK, NEW r \in RoomId, NEW p \in Person, JoinLocked(r, p),
         NEW s \in RoomId, NEW g \in Person, Renewed(s, g)
  PROVE  s = r /\ g = p
<1> DEFINE R == [rooms EXCEPT ![r] = Seen(@, p)]
<1>1. R \in [RoomId -> Room] /\ rooms' = Swept(R)
  BY SeenRoom DEF JoinLocked, TypeOK
<1>2. g \in R[s].members /\ rooms'[s].seen[g] = R[s].seen[g]
  BY <1>1, SweptSeen DEF Renewed
<1>3. s # r => R[s] = rooms[s]
  BY DEF TypeOK
<1>4. rooms[s] \in Room /\ rooms[s].seen \in [Person -> 0..Idle + 1]
  BY DEF TypeOK, Room
<1>5. s = r /\ g # p => g \in rooms[s].members /\ R[s].seen[g] = rooms[s].seen[g]
  BY <1>2, <1>4 DEF Seen, TypeOK
<1>6. rooms[s].seen[g] \in Nat
  BY <1>4, MaxAgeType
<1> HIDE DEF R
<1> QED BY <1>2, <1>3, <1>5, <1>6 DEF Renewed

\* The one yes that lets a guest in is to its own request.
LEMMA AcceptEarns ==
  ASSUME RoomInv, NEW q \in ReqId, NEW h \in Local, NEW r \in RoomId, Accept(q, h, r),
         NEW s \in RoomId, NEW g \in Guest, Renewed(s, g)
  PROVE  SaysYes(q, s, g)
<1> DEFINE swept == SweptReqs(reqs)
           yes == [Become(swept[q], "accepted", 0) EXCEPT !.room = r]
<1>1. /\ swept[q].state = "pending" /\ swept[q].host = h /\ rooms[r].host = h
      /\ reqs' = [swept EXCEPT ![q] = yes] /\ JoinLocked(r, reqs[q].guest)
  BY DEF Accept, OpenFor
<1>2. IsPending(q) /\ reqs[q].host = h /\ reqs[q].guest \in Guest
  BY <1>1, SweptPending, PairType DEF RoomInv, WellAsked, IsPending, PairOf
<1>3. s = r /\ g = reqs[q].guest
  BY <1>1, <1>2, CallRenews DEF RoomInv, Person
<1>4. reqs'[q] = yes
  BY <1>1 DEF SweptReqs
<1>5. yes.state = "accepted" /\ yes.room = r
  BY DEF Become
<1> QED BY <1>1, <1>2, <1>3, <1>4, <1>5 DEF SaysYes

\* Nothing else lets a guest in, or has its absence forgotten.
LEMMA RenewalsEarned ==
  ASSUME RoomInv, Next, NEW r \in RoomId, NEW g \in Guest, Renewed(r, g)
  PROVE  <<r, g>> \in checking' \/ \E q \in ReqId : SaysYes(q, r, g)
<1> USE DEF Person
<1>1. g \notin Local /\ rooms[r].seen[g] \in Nat /\ rooms[r].seen[g] <= Idle + 1 /\ Idle \in Nat
  <2>1. g \notin Local
    BY TogetherAssumption
  <2>2. rooms[r] \in Room /\ Idle \in Nat
    BY MaxAgeType DEF RoomInv, TypeOK
  <2>3. rooms[r].seen[g] \in 0..Idle + 1
    BY <2>2 DEF Room
  <2> QED BY <2>1, <2>2, <2>3
<1>2. ASSUME rooms' = rooms PROVE FALSE
  BY <1>1, <1>2 DEF Renewed
<1>3. ASSUME NEW s \in RoomId, NEW p \in Local, Join(s, p) \/ Poll(s, p) \/ Report(s, p)
      PROVE  FALSE
  <2>1. JoinLocked(s, p)
    BY <1>3 DEF Join, Poll, Report, JoinLocked
  <2> QED BY <2>1, <1>1, CallRenews DEF RoomInv
<1>4. ASSUME rooms' = Swept(rooms) PROVE FALSE
  <2>1. g \in rooms[r].members /\ rooms'[r].seen[g] = rooms[r].seen[g]
    BY <1>4, SweptSeen DEF RoomInv, TypeOK, Renewed
  <2> QED BY <1>1, <2>1 DEF Renewed
<1>5. ASSUME NEW s \in RoomId, NEW h \in Local, Create(s, h) PROVE FALSE
  <2>1. CASE s = r
    <3>1. rooms'[r].members = {h}
      BY <1>5, <2>1, NewRoomType DEF Create, Swept
    <3> QED BY <3>1, <1>1 DEF Renewed
  <2>2. CASE s # r
    <3>1. rooms'[r] = Swept(rooms)[r]
      BY <1>5, <2>2 DEF Create, Swept
    <3>2. g \in rooms[r].members /\ rooms'[r].seen[g] = rooms[r].seen[g]
      BY <3>1, SweptSeen DEF RoomInv, TypeOK, Renewed
    <3> QED BY <1>1, <3>2 DEF Renewed
  <2> QED BY <2>1, <2>2
<1>6. ASSUME NEW s \in RoomId, NEW p \in Person, rooms' = [rooms EXCEPT ![s] = Without(s, p)]
      PROVE  FALSE
  <2>1. \A x \in Without(s, p).members : /\ x \in rooms[s].members
                                         /\ Without(s, p).seen[x] = rooms[s].seen[x]
    BY WithoutRoom DEF Without, Keep, RoomInv, TypeOK, Room
  <2>2. g \in rooms[r].members /\ rooms'[r].seen[g] = rooms[r].seen[g]
    BY <1>6, <2>1 DEF RoomInv, TypeOK, Renewed
  <2> QED BY <1>1, <2>2 DEF Renewed
<1>7. CASE RoomStep
  <2>1. ASSUME NEW s \in RoomId, NEW p \in Person, Leave(s, p) PROVE FALSE
    BY <1>6, <2>1 DEF Leave
  <2>2. ~List
    BY <1>4 DEF List
  <2> QED BY <1>3, <1>5, <1>7, <2>1, <2>2 DEF RoomStep
<1>8. CASE RequestStep
  BY <1>2, <1>8, AcceptEarns DEF RequestStep, Ask, Decline, Status, Withdraw, Pending
<1>9. ASSUME NEW s \in RoomId, NEW p \in Guest, RemoteCall(s, p) PROVE <<r, g>> \in checking'
  <2>1. s = r /\ p = g
    BY <1>9, CallRenews DEF RemoteCall, RoomInv
  <2> QED BY <1>9, <2>1 DEF RemoteCall, Renewed
<1>10. CASE RemoteStep
  BY <1>2, <1>6, <1>9, <1>10 DEF RemoteStep, Check, CheckFails, SetGrant
<1>11. CASE Tick
  <2>1. /\ rooms'[r].members = rooms[r].members
        /\ g \in rooms[r].members => rooms'[r].seen[g] = Older(rooms[r].seen[g], Idle + 1)
    BY <1>11 DEF Tick, Later
  <2> QED BY <1>1, <2>1 DEF Renewed, Older
<1>12. CASE Restart
  BY <1>12 DEF Restart, Keep, Renewed
<1> QED BY <1>7, <1>8, <1>10, <1>11, <1>12 DEF Next

\* No guest's stay is renewed but by a yes, or by a call whose grant is read after it.
THEOREM GuestsEarnTheirStay == Spec => StayIsEarned
<1>1. ASSUME RoomInv, NEW r \in RoomId, NEW g \in Guest, Check(r, g),
             <<rooms[r].host, g>> \notin grant
      PROVE  g \notin rooms'[r].members
  BY <1>1 DEF Check, Without, Keep, RoomInv, TypeOK
<1>2. RoomInv /\ [Next]_vars =>
        [\A r \in RoomId, g \in Guest :
           /\ Renewed(r, g) => <<r, g>> \in checking' \/ \E q \in ReqId : SaysYes(q, r, g)
           /\ Check(r, g) /\ <<rooms[r].host, g>> \notin grant => g \notin rooms'[r].members]_vars
  BY <1>1, RenewalsEarned
<1> QED BY <1>2, RoomInvariant, PTL DEF Spec, StayIsEarned
=============================================================================
